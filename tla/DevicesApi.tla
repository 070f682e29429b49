------------------------------- MODULE DevicesApi -------------------------------
(***************************************************************************)
(* The device and user routes of headtotails (internal/api/devices.go,     *)
(* users.go): parse the id of the path, decode the body if there is one,   *)
(* make one gRPC call -- two for AuthorizeDevice -- and translate its      *)
(* outcome.  Nodes and users come and go in headscale meanwhile, a call    *)
(* may be refused, or fail before or after it has taken effect, and a      *)
(* client repeats a request it got no clear answer to.                     *)
(*                                                                         *)
(* What a request writes into a node is abstracted to the fact that it has *)
(* been written (call[q].done).                                            *)
(***************************************************************************)
EXTENDS Upstream, Naturals

CONSTANTS
    NodeId,    \* ids of nodes; an id is never used twice
    UserId,    \* ids of users
    Request,   \* requests that may run at the same time
    MaxFaults  \* bound on failed calls in a run

ASSUME FaultAssumption == MaxFaults \in Nat

VARIABLES
    nodes,    \* nodes[n]: "unborn", "present" or "gone"
    users,    \* users[u]: likewise
    trusted,  \* does headscale still accept HEADSCALE_API_KEY?
    call,     \* call[q]: the locals of the handler of request q, and its answer
    faults    \* failed calls so far

vars == <<nodes, users, trusted, call, faults>>

Life == {"unborn", "present", "gone"}
\* "get" is GetDevice and GetDeviceRoutes; "set" is RenameDevice, SetDeviceTags
\* and SetDeviceRoutes, which run the same way.
DeviceWrite == {"deleteDevice", "expire", "set"}
Authorize == {"authorize", "deauthorize"}  \* by the "authorized" of the body
DeviceOp == {"get"} \cup DeviceWrite \cup Authorize
UserOp == {"getUser", "deleteUser"}
ListOp == {"listDevices", "listUsers"}     \* of a {tailnet}, which is not looked at
Op == DeviceOp \cup UserOp \cup ListOp
WithBody == {"set"} \cup Authorize

\* Ids in a path: as headtotails prints them, with leading zeros, or no number.
Form == {"plain", "padded", "bad"}

Lost == 0  \* no answer reaches the client
Status == {Lost, 200, 400, 401, 403, 404, 409, 500}

\* done: has this attempt changed headscale?
Attempt(pc, op, id, form, status) ==
    [pc |-> pc, op |-> op, id |-> id, form |-> form, status |-> status, done |-> FALSE]

Idle == Attempt("idle", "listUsers", "-", "plain", Lost)

Init ==
    /\ nodes \in [NodeId -> {"unborn", "present"}]
    /\ users \in [UserId -> {"unborn", "present"}]
    /\ trusted = TRUE
    /\ call = [q \in Request |-> Idle]
    /\ faults = 0

Present(op, id) == IF op \in DeviceOp THEN nodes[id] = "present" ELSE users[id] = "present"

-------------------------------------------------------------------------------
(* Before the first call.                                                   *)

Target(op) == IF op \in DeviceOp THEN NodeId ELSE UserId

\* parseDeviceID, strconv.ParseUint: what is left of an id is its number.
\* GetUser parses nothing and keeps the text.
ParseFails(op, form) == form = "bad" /\ op \notin ListOp \cup {"getUser"}
Kept(op, form) == IF op = "getUser" THEN form ELSE "plain"

Begin(q, op, id, form) ==
    /\ call[q].pc = "idle"
    /\ op \in ListOp => form = "plain"
    /\ \E bodyOk \in (IF op \in WithBody THEN BOOLEAN ELSE {TRUE}) :
          call' = [call EXCEPT ![q] =
                      IF bodyOk /\ ~ ParseFails(op, form)
                      THEN Attempt("rpc", op, id, Kept(op, form), Lost)
                      ELSE Attempt("answered", op, id, "plain", 400)]
    /\ UNCHANGED <<nodes, users, trusted, faults>>

-------------------------------------------------------------------------------
(* The calls.                                                               *)

Answer(q, s, done) ==
    call' = [call EXCEPT ![q].pc = "answered", ![q].status = s, ![q].done = done]

\* writeGRPCError, for a call that changed nothing.
Error(q, code) == Answer(q, HTTPStatus(code), FALSE)

\* ListNodes is asked for the nodes of all users, whatever the {tailnet}.
ListDevices(q) ==
    /\ call[q].pc = "rpc" /\ trusted
    /\ call[q].op = "listDevices"
    /\ Answer(q, 200, FALSE)
    /\ UNCHANGED <<nodes, users, trusted, faults>>

\* GetDevice, GetDeviceRoutes.
GetDevice(q) ==
    /\ call[q].pc = "rpc" /\ trusted
    /\ call[q].op = "get"
    /\ IF nodes[call[q].id] = "present" THEN Answer(q, 200, FALSE)
                                      ELSE Error(q, "NotFound")
    /\ UNCHANGED <<nodes, users, trusted, faults>>

\* AuthorizeDevice reads the node; only "authorized": true registers it.
AuthorizeDevice(q) ==
    /\ call[q].pc = "rpc" /\ trusted
    /\ call[q].op \in Authorize
    /\ IF nodes[call[q].id] # "present" THEN Error(q, "NotFound")
       ELSE IF call[q].op = "deauthorize" THEN Answer(q, 200, FALSE)
       ELSE call' = [call EXCEPT ![q].pc = "register"]
    /\ UNCHANGED <<nodes, users, trusted, faults>>

\* ListUsers, and GetUser, which looks for the text of the path in the answer.
ListUsers(q) ==
    /\ call[q].pc = "rpc" /\ trusted
    /\ \/ call[q].op = "listUsers" /\ Answer(q, 200, FALSE)
       \/ /\ call[q].op = "getUser"
          /\ LET found == call[q].form = "plain" /\ users[call[q].id] = "present" IN
             Answer(q, IF found THEN 200 ELSE 404, FALSE)
    /\ UNCHANGED <<nodes, users, trusted, faults>>

\* The call q waits for changes something, if it takes effect.
Writing(q) ==
    \/ call[q].pc = "rpc" /\ call[q].op \in DeviceWrite \cup {"deleteUser"}
    \/ call[q].pc = "register"

TakesEffect(q) ==
    /\ Present(call[q].op, call[q].id)
    /\ nodes' = IF call[q].op = "deleteDevice"
                THEN [nodes EXCEPT ![call[q].id] = "gone"] ELSE nodes
    /\ users' = IF call[q].op = "deleteUser"
                THEN [users EXCEPT ![call[q].id] = "gone"] ELSE users

\* headscale does it, or says that there is no such node or user.
Execute(q) ==
    /\ trusted
    /\ \/ TakesEffect(q) /\ Answer(q, 200, TRUE)
       \/ ~ Present(call[q].op, call[q].id) /\ Error(q, "NotFound") /\ UNCHANGED <<nodes, users>>
    /\ UNCHANGED <<trusted, faults>>

DeleteDevice(q) == call[q].pc = "rpc" /\ call[q].op = "deleteDevice" /\ Execute(q)

ExpireDevice(q) == call[q].pc = "rpc" /\ call[q].op = "expire" /\ Execute(q)

\* RenameDevice, SetDeviceTags, SetDeviceRoutes.
SetDevice(q) == call[q].pc = "rpc" /\ call[q].op = "set" /\ Execute(q)

\* The second half of AuthorizeDevice.
RegisterNode(q) == call[q].pc = "register" /\ Execute(q)

DeleteUser(q) == call[q].pc = "rpc" /\ call[q].op = "deleteUser" /\ Execute(q)

\* headscale refuses a name, tags, routes, a node key or the removal of a user
\* that has nodes; or everything, once it has let the API key expire.
Refused(q) ==
    /\ \/ /\ trusted /\ Writing(q) /\ call[q].op # "deleteDevice"
          /\ \E code \in (Refusal \ {"NotFound", "Unauthenticated"}) \cup {"Unknown"} : Error(q, code)
       \/ ~ trusted /\ call[q].pc \in {"rpc", "register"} /\ Error(q, "Unauthenticated")
    /\ UNCHANGED <<nodes, users, trusted, faults>>

-------------------------------------------------------------------------------
(* Failures, the client, and headscale's own doings.                        *)

\* The call ends with an ambiguous code, or no answer reaches the client because
\* headtotails dies: it keeps nothing between requests, so that for these routes
\* a crash is the failure of every call in flight.
CallFails(q) ==
    /\ call[q].pc \in {"rpc", "register"}
    /\ faults < MaxFaults
    /\ faults' = faults + 1
    /\ \E s \in {HTTPStatus(code) : code \in Ambiguous} \cup {Lost} :
          \/ Answer(q, s, FALSE) /\ UNCHANGED <<nodes, users>>
          \/ Writing(q) /\ trusted /\ TakesEffect(q) /\ Answer(q, s, TRUE)
    /\ UNCHANGED trusted

\* A request without a clear answer is repeated if it is a DELETE of a device,
\* and perhaps if it is another.
ClientProceeds(q) ==
    /\ call[q].pc = "answered"
    /\ \/ /\ call[q].status \in {Lost, 500}
          /\ call' = [call EXCEPT ![q] =
                 Attempt("rpc", call[q].op, call[q].id, call[q].form, Lost)]
       \/ /\ call[q].op = "deleteDevice" => call[q].status \notin {Lost, 500}
          /\ call' = [call EXCEPT ![q] = Idle]
    /\ UNCHANGED <<nodes, users, trusted, faults>>

Admin ==
    /\ \/ \E n \in NodeId, s \in Life :
             /\ <<nodes[n], s>> \in {<<"unborn", "present">>, <<"present", "gone">>}
             /\ nodes' = [nodes EXCEPT ![n] = s]
             /\ UNCHANGED <<users, trusted>>
       \/ \E u \in UserId, s \in Life :
             /\ <<users[u], s>> \in {<<"unborn", "present">>, <<"present", "gone">>}
             /\ users' = [users EXCEPT ![u] = s]
             /\ UNCHANGED <<nodes, trusted>>
       \/ trusted /\ trusted' = FALSE /\ UNCHANGED <<nodes, users>>
    /\ UNCHANGED <<call, faults>>

HandlerStep(q) ==
    \/ ListDevices(q) \/ GetDevice(q) \/ AuthorizeDevice(q) \/ ListUsers(q)
    \/ DeleteDevice(q) \/ ExpireDevice(q) \/ SetDevice(q) \/ RegisterNode(q) \/ DeleteUser(q)
    \/ Refused(q)

Next ==
    \/ Admin
    \/ \E q \in Request :
          \/ HandlerStep(q) \/ CallFails(q) \/ ClientProceeds(q)
          \/ \E op \in Op, form \in Form : \E id \in Target(op) : Begin(q, op, id, form)

Spec == Init /\ [][Next]_vars

\* Handlers run on, and a client that has to repeat its request does.
FairSpec == Spec /\ \A q \in Request : WF_vars(HandlerStep(q) \/ ClientProceeds(q))
-------------------------------------------------------------------------------
(* Properties.                                                              *)

TypeOK ==
    /\ nodes \in [NodeId -> Life] /\ users \in [UserId -> Life]
    /\ trusted \in BOOLEAN
    /\ call \in [Request -> [pc : {"idle", "rpc", "register", "answered"}, op : Op,
                            id : NodeId \cup UserId \cup {"-"}, form : Form,
                            status : Status, done : BOOLEAN]]
    /\ faults \in 0 .. MaxFaults

\* An answer tells a client whether it may repeat its request: 200 to a write
\* means that this very attempt has changed headscale, any 4xx that it has
\* not; only 500 leaves it open (the handlers, grpcStatusToHTTP).
OnlyServerErrorsAreAmbiguous ==
    \A q \in Request :
        call[q].pc = "answered" =>
            /\ call[q].status = 200 /\ call[q].op \in DeviceWrite \cup {"authorize", "deleteUser"}
                  => call[q].done
            /\ call[q].status \in 400 .. 499 => ~ call[q].done

\* Whoever is told 404 has named a node or user that does not exist at that
\* moment -- except for GET /users with a number that is not written the way
\* headtotails prints it, which DELETE would find (GetUser, FindUserByID).
NotFoundMeansAbsent ==
    [][\A q \in Request :
          call[q].pc # "answered" /\ call'[q].pc = "answered" /\ call'[q].status = 404 =>
              \/ call[q].op \in DeviceOp \cup UserOp /\ ~ Present(call[q].op, call[q].id)
              \/ call[q].op = "getUser" /\ call[q].form # "plain"]_vars

\* A DELETE of a device that is repeated until it gets a clear answer gets
\* one, and the device is gone -- also if the first attempt has removed it and
\* only its answer was lost -- unless headscale rejects headtotails itself
\* (DeleteDevice, grpcStatusToHTTP).
DeletionsEnd ==
    \A q \in Request, n \in NodeId :
        (/\ call[q].op = "deleteDevice" /\ call[q].id = n /\ call[q].pc = "rpc"
         /\ nodes[n] # "unborn") ~>
            /\ call[q].op = "deleteDevice" /\ call[q].id = n /\ call[q].pc = "answered"
            /\ call[q].status = 401 \/ (call[q].status \in {200, 404} /\ nodes[n] = "gone")
================================================================================
