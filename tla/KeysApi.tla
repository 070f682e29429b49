-------------------------------- MODULE KeysApi --------------------------------
(***************************************************************************)
(* The auth-key routes of headtotails (internal/api/keys.go) against a     *)
(* headscale that others change at the same time.  Every handler is the    *)
(* sequence of gRPC calls it makes -- ListUsers, then ListPreAuthKeys,     *)
(* ExpirePreAuthKey and DeletePreAuthKey, or CreatePreAuthKey -- with one  *)
(* action per call, since any request may run between two of them.  A call *)
(* may fail before or after it has taken effect, headtotails may crash in  *)
(* the middle of a handler, and a client whose DELETE came to nothing      *)
(* sends it again.                                                         *)
(***************************************************************************)
EXTENDS Headscale, Upstream

CONSTANTS
    TailnetNames, \* what TAILNET_NAME may be set to, "-" is the default; "" is let through
    Tailnet,      \* what clients put in the {tailnet} of a path
    Request,      \* requests that may run at the same time
    RefusalCodes, \* the codes, NotFound apart, that headscale refuses calls with
    MaxFaults     \* bound on failed calls and crashes in a run

ASSUME NameAssumption == \A u \in UserId : NameOf[u] # "-"
ASSUME RefusalAssumption == RefusalCodes \subseteq Refusal \ {"NotFound"}
ASSUME FaultAssumption == MaxFaults \in Nat

VARIABLES
    tailnetName,  \* TAILNET_NAME, read at start-up
    call,    \* call[q]: the locals of the handler of request q, and its answer
    faults   \* failed calls and crashes so far

vars == <<tailnetName, users, keys, call, faults>>

Op == {"list", "create", "get", "delete"}
InRPC == {"resolve", "list", "create", "expire", "delete"}
Nameless == ""  \* the name of a user without one, and an empty TAILNET_NAME
Lost == 0  \* no answer reaches the client
Status == {200, 400, 401, 403, 404, 409, 500, Lost}

\* key: the {keyId} of the path, or the key that was created; user: what
\* resolveTailnetUser has returned.
Idle == [pc |-> "idle", op |-> "list", tailnet |-> "-", key |-> Absent,
         user |-> Absent, status |-> Lost]

Init ==
    /\ HeadscaleInit
    /\ tailnetName \in TailnetNames
    /\ call = [q \in Request |-> Idle]
    /\ faults = 0

Goto(q, pc) == call' = [call EXCEPT ![q].pc = pc]
Answer(q, s) == call' = [call EXCEPT ![q].pc = "answered", ![q].status = s]

-------------------------------------------------------------------------------
(* resolveTailnetUser.                                                      *)

Resolved(tn) == IF tn = "-" THEN tailnetName ELSE tn

\* Mutant: a path that names another user is not held against TAILNET_NAME.
CandidatesAnyTailnet(tn) ==
    IF Resolved(tn) = "-"
    THEN IF Cardinality(Users) = 1 THEN Users ELSE {}
    ELSE {u \in Users : NameOf[u] = Resolved(tn)}

\* The users the tailnet may stand for; of several with one name the code
\* takes the first in the order headscale lists them.
Candidates(tn) ==
    IF Resolved(tn) = "-"
    THEN IF Cardinality(Users) = 1 THEN Users ELSE {}
    ELSE IF tailnetName # "-" /\ tn # "-" /\ tn # tailnetName THEN {}
    ELSE {u \in Users : NameOf[u] = Resolved(tn)}

\* What a tailnet that stands for nobody is answered with.
ResolveError(tn) == IF Users # {} /\ Resolved(tn) = "-" THEN 400 ELSE 404

\* ListUsers answers, and the tailnet is resolved against that answer.
ResolveUser(q) ==
    /\ call[q].pc = "resolve"
    /\ \/ \E u \in Candidates(call[q].tailnet) :
             call' = [call EXCEPT ![q].pc = IF call[q].op = "create" THEN "create" ELSE "list",
                                  ![q].user = u]
       \/ /\ Candidates(call[q].tailnet) = {}
          /\ Answer(q, ResolveError(call[q].tailnet))
    /\ UNCHANGED <<users, keys, faults>>

-------------------------------------------------------------------------------
(* The handlers.                                                            *)

\* A request names a key its client has learnt of.
Begin(q, op, tn, k) ==
    /\ call[q].pc = "idle"
    /\ IF op \in {"get", "delete"} THEN k \in KeyId /\ ~ Unborn(k) ELSE k = Absent
    /\ call' = [call EXCEPT ![q] = [Idle EXCEPT !.pc = "resolve", !.op = op,
                                                !.tailnet = tn, !.key = k]]
    /\ UNCHANGED <<users, keys, faults>>

\* ListPreAuthKeys: all keys, kept if they belong to a user of that name; for a
\* user without a name nothing is filtered.
KeysOfName(name) == {k \in KeyId : Exists(k) /\ (name = Nameless \/ NameOf[keys[k].owner] = name)}

\* Mutant: keys that can no longer be used are not found.
FindUsable(q) ==
    call[q].key \in KeysOfName(NameOf[call[q].user]) /\ keys[call[q].key].status = "valid"

\* findKeyByID in the answer of ListPreAuthKeys.
Find(q) == call[q].key \in KeysOfName(NameOf[call[q].user])

ListPreAuthKeys(q) ==
    /\ call[q].pc = "list"
    /\ \/ call[q].op = "list" /\ Answer(q, 200)
       \/ call[q].op = "get" /\ Answer(q, IF Find(q) THEN 200 ELSE 404)
       \/ call[q].op = "delete" /\ ~ Find(q) /\ Answer(q, 404)
       \/ call[q].op = "delete" /\ Find(q) /\ Goto(q, "expire")
    /\ UNCHANGED <<users, keys, faults>>

\* The body of POST .../keys is not JSON.
BadBody(q) ==
    /\ call[q].pc = "create"
    /\ Answer(q, 400)
    /\ UNCHANGED <<users, keys, faults>>

\* Mutant: the translation of the request forgets the user.
CreateUnscoped(q) ==
    /\ call[q].pc = "create"
    /\ \E k \in KeyId :
          /\ Unborn(k)
          /\ keys' = KeyCreated(k, Absent)
          /\ call' = [call EXCEPT ![q].pc = "answered", ![q].status = 200, ![q].key = k]
    /\ UNCHANGED <<users, faults>>

\* CreatePreAuthKey for the id, not the name, of the resolved user.
CreatePreAuthKey(q) ==
    /\ call[q].pc = "create"
    /\ \/ /\ call[q].user \in Users
          /\ \E k \in KeyId :
                /\ Unborn(k)
                /\ keys' = KeyCreated(k, call[q].user)
                /\ call' = [call EXCEPT ![q].pc = "answered", ![q].status = 200, ![q].key = k]
       \/ /\ call[q].user \notin Users
          /\ \E s \in {404, 500} : Answer(q, s)
          /\ UNCHANGED keys
    /\ UNCHANGED <<users, faults>>

\* Mutant: the delete is tried without the expire.
SkipExpire(q) ==
    /\ call[q].pc = "expire"
    /\ Goto(q, "delete")
    /\ UNCHANGED <<users, keys, faults>>

\* For a key that is gone by now headscale may report success or an error.
ExpirePreAuthKey(q) ==
    /\ call[q].pc = "expire"
    /\ keys' = KeyExpired(call[q].key)
    /\ \/ Goto(q, "delete")
       \/ ~ Exists(call[q].key) /\ \E s \in {404, 500} : Answer(q, s)
    /\ UNCHANGED <<users, faults>>

DeletePreAuthKey(q) ==
    /\ call[q].pc = "delete"
    /\ keys' = KeyDeleted(call[q].key)
    /\ \/ Answer(q, 200)
       \/ ~ Exists(call[q].key) /\ \E s \in {404, 500} : Answer(q, s)
    /\ UNCHANGED <<users, faults>>

-------------------------------------------------------------------------------
(* Failures, and the client.                                                *)

\* What the call that q waits for does to the keys, should it take effect.
Effects(q) ==
    CASE call[q].pc = "expire" -> {KeyExpired(call[q].key)}
      [] call[q].pc = "delete" -> {KeyDeleted(call[q].key)}
      [] call[q].pc = "create" /\ call[q].user \in Users ->
            {KeyCreated(k, call[q].user) : k \in {l \in KeyId : Unborn(l)}}
      [] OTHER -> {}

\* Mutant: an error of the gRPC client is taken for success.
AnswerAnyway(q) ==
    /\ call[q].pc \in InRPC
    /\ faults < MaxFaults
    /\ faults' = faults + 1
    /\ Answer(q, 200)
    /\ keys' \in {keys} \cup Effects(q)
    /\ UNCHANGED users

\* The gRPC call returns an error, which writeGRPCError translates: headscale has
\* refused it, or never saw it, or has done it and the answer was lost.  NotFound
\* is said of what is not there only, by the actions above.
RPCFails(q) ==
    /\ call[q].pc \in InRPC
    /\ faults < MaxFaults
    /\ faults' = faults + 1
    /\ \/ /\ \E c \in RefusalCodes : Answer(q, HTTPStatus(c))
          /\ UNCHANGED keys
       \/ /\ \E c \in Ambiguous : Answer(q, HTTPStatus(c))
          /\ keys' \in {keys} \cup Effects(q)
    /\ UNCHANGED users

\* headtotails dies; calls in flight may or may not have taken effect, which
\* the steps of RPCFails and of the handlers before the crash account for.
Crash ==
    /\ \E q \in Request : call[q].pc \in InRPC
    /\ faults < MaxFaults
    /\ faults' = faults + 1
    /\ call' = [q \in Request |->
                   IF call[q].pc \in InRPC
                   THEN [call[q] EXCEPT !.pc = "answered", !.status = Lost] ELSE call[q]]
    /\ UNCHANGED <<users, keys>>

\* A DELETE that came to nothing is sent again; any other request is over.
ClientProceeds(q) ==
    /\ call[q].pc = "answered"
    /\ call' = [call EXCEPT ![q] =
                   IF call[q].op = "delete" /\ call[q].status \in {500, Lost}
                   THEN [@ EXCEPT !.pc = "resolve", !.user = Absent, !.status = Lost]
                   ELSE Idle]
    /\ UNCHANGED <<users, keys, faults>>

-------------------------------------------------------------------------------
HandlerStep(q) ==
    \/ ResolveUser(q) \/ ListPreAuthKeys(q)
    \/ BadBody(q) \/ CreatePreAuthKey(q)
    \/ ExpirePreAuthKey(q) \/ DeletePreAuthKey(q)

Next ==
    /\ UNCHANGED tailnetName
    /\ \/ Admin /\ UNCHANGED <<call, faults>>
       \/ Crash
       \/ \E q \in Request :
             \/ HandlerStep(q) \/ RPCFails(q) \/ ClientProceeds(q)
             \/ \E op \in Op, tn \in Tailnet, k \in KeyId \cup {Absent} : Begin(q, op, tn, k)

Spec == Init /\ [][Next]_vars

\* Handlers run on, and a client that has to retry does.
Proceeds(q) == UNCHANGED tailnetName /\ (HandlerStep(q) \/ ClientProceeds(q))
FairSpec == Spec /\ \A q \in Request : WF_vars(Proceeds(q))
-------------------------------------------------------------------------------
(* Properties.                                                              *)

TypeOK ==
    /\ tailnetName \in TailnetNames
    /\ users \in [UserId -> {"unborn", "present", "gone"}]
    /\ keys \in [KeyId -> {NoKey} \cup [owner : UserId,
                                       status : {"valid", "expired", "deleted"}]]
    /\ call \in [Request -> [pc : {"idle", "answered"} \cup InRPC, op : Op,
                            tailnet : Tailnet \cup {"-"}, key : KeyId \cup {Absent},
                            user : UserId \cup {Absent}, status : Status]]
    /\ faults \in 0 .. MaxFaults

\* Key k exists and is one of the keys that tailnet tn stands for.
Visible(tn, k) == Exists(k) /\ \E u \in Candidates(tn) : NameOf[u] = NameOf[keys[k].owner]

\* A DELETE answered 200 has removed the key, and a GET or DELETE answered 404
\* was for a key the tailnet does not have -- also when a second DELETE, the
\* removal of the user or a retry after a lost answer ran in between
\* (DeleteKey, GetKey).
AnswersAreTrue ==
    \A q \in Request :
        call[q].pc = "answered" =>
            /\ call[q].op = "delete" /\ call[q].status = 200 => ~ Exists(call[q].key)
            /\ call[q].op \in {"get", "delete"} /\ call[q].status = 404
                  => ~ Visible(call[q].tailnet, call[q].key)

\* No request ever removes a key that a node could still register with: it is
\* expired first, so a failure in between leaves a revoked key (DeleteKey).
NeverDeletedUsable ==
    [][\A k \in KeyId :
          call' # call /\ keys[k].status = "valid" => keys'[k].status # "deleted"]_vars

\* With a dedicated TAILNET_NAME no request creates, expires or deletes a key
\* of a user of another name, whatever tailnet its path names and whatever
\* happens to the users between two of its calls (resolveTailnetUser).  The
\* empty name, which validate lets through, is excepted: it stands for a user
\* without a name, for whom ListPreAuthKeys returns everybody's keys.
OtherTailnetsUntouched ==
    [][tailnetName \notin {"-", Nameless} /\ call' # call =>
          \A k \in KeyId : keys'[k] # keys[k] => NameOf[keys'[k].owner] = tailnetName]_vars

\* The DELETE of k by q has been answered with a refusal of headscale.
Refused(q, k) ==
    /\ call[q].pc = "answered" /\ call[q].op = "delete" /\ call[q].key = k
    /\ call[q].status \in {400, 401, 403, 409}

\* With a dedicated TAILNET_NAME a DELETE that is retried until it is answered
\* takes its key away in the end, wherever between its four calls it failed
\* before (DeleteKey) -- or else its client is told that headscale has refused
\* one of the calls, in which case the key may be left expired or untouched.
\* With the default a second user in headscale would stop the DELETE too.
DeletionConverges ==
    \A q \in Request, k \in KeyId :
        (/\ tailnetName # "-"
         /\ call[q].pc = "resolve" /\ call[q].op = "delete" /\ call[q].key = k
         /\ Visible(call[q].tailnet, k)) ~> (~ Exists(k) \/ Refused(q, k))
===============================================================================
