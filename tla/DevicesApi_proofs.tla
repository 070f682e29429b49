----------------------------- MODULE DevicesApi_proofs -----------------------------
(***************************************************************************)
(* The safety of DevicesApi for any number of nodes, users, requests and   *)
(* faults.  OnlyServerErrorsAreAmbiguous is inductive once it is known     *)
(* that a request that has not been answered has changed nothing: no       *)
(* handler makes a second call after one that writes.                      *)
(***************************************************************************)
EXTENDS DevicesApi, TLAPS

\* What calls are made of.
CallType ==
    call \in [Request -> [pc : {"idle", "rpc", "register", "answered"}, op : Op,
                         id : NodeId \cup UserId \cup {"-"}, form : Form,
                         status : Status, done : BOOLEAN]]

\* Nothing has been changed for a request that is still being handled.
UnansweredIsUndone == \A q \in Request : call[q].pc # "answered" => ~ call[q].done

\* The second call of a handler is that of AuthorizeDevice.
RegistersOnlyAuthorized ==
    \A q \in Request : call[q].pc = "register" => call[q].op = "authorize"

IInv == CallType /\ UnansweredIsUndone /\ RegistersOnlyAuthorized /\ OnlyServerErrorsAreAmbiguous

\* The table of grpcStatusToHTTP: only success is 200, all that is ambiguous 500.
LEMMA StatusTable ==
    /\ \A c \in Refusal \cup Ambiguous : HTTPStatus(c) \in {400, 401, 403, 404, 409, 500}
    /\ \A c \in Ambiguous : HTTPStatus(c) = 500
<1>1. DOMAIN Case = {"OK", "InvalidArgument", "Unauthenticated",
                     "PermissionDenied", "NotFound", "AlreadyExists"}
  BY DEF Case
<1>2. \A c \in Ambiguous : HTTPStatus(c) = 500
  BY <1>1 DEF HTTPStatus, Ambiguous
<1>3. \A c \in Refusal : HTTPStatus(c) \in {400, 401, 403, 404, 409, 500}
  BY <1>1 DEF HTTPStatus, Refusal, Case
<1> QED BY <1>2, <1>3

\* A handler that answers, with the status and the effect it may have.
LEMMA Answering ==
    ASSUME IInv, NEW q \in Request, NEW s \in Status, NEW d \in BOOLEAN,
           call[q].pc # "answered",
           s = 200 /\ call[q].op \in DeviceWrite \cup {"authorize", "deleteUser"} => d,
           s \in 400 .. 499 => ~ d,
           Answer(q, s, d)
    PROVE  IInv'
<1> USE DEF IInv, CallType
<1>1. CallType'
  <2> DEFINE CallRecord == [pc : {"idle", "rpc", "register", "answered"}, op : Op,
                            id : NodeId \cup UserId \cup {"-"}, form : Form,
                            status : Status, done : BOOLEAN]
  <2>1. call[q] \in CallRecord
    OBVIOUS
  <2>2. [call[q] EXCEPT !.pc = "answered", !.status = s, !.done = d] \in CallRecord
    BY <2>1
  <2>3. call' = [call EXCEPT ![q] =
                    [call[q] EXCEPT !.pc = "answered", !.status = s, !.done = d]]
    BY DEF Answer
  <2> HIDE DEF CallRecord
  <2>4. call \in [Request -> CallRecord]
    BY DEF CallRecord
  <2>5. call' \in [Request -> CallRecord]
    BY <2>2, <2>3, <2>4
  <2> QED BY <2>5 DEF CallRecord
<1>2. UnansweredIsUndone'
  BY DEF Answer, UnansweredIsUndone
<1>3. RegistersOnlyAuthorized'
  BY DEF Answer, RegistersOnlyAuthorized
<1>4. OnlyServerErrorsAreAmbiguous'
  BY DEF Answer, OnlyServerErrorsAreAmbiguous
<1> QED BY <1>1, <1>2, <1>3, <1>4

\* A handler that only reads answers.
LEMMA Reading ==
    ASSUME IInv, NEW q \in Request, NEW s \in Status, call[q].pc # "answered",
           call[q].op \notin DeviceWrite \cup {"authorize", "deleteUser"},
           Answer(q, s, FALSE)
    PROVE  IInv'
<1>1. s = 200 /\ call[q].op \in DeviceWrite \cup {"authorize", "deleteUser"} => FALSE
  OBVIOUS
<1> QED BY <1>1, Answering

\* A call that is refused, or fails without an effect.
LEMMA Failing ==
    ASSUME IInv, NEW q \in Request, NEW c \in Refusal \cup Ambiguous,
           call[q].pc # "answered", Error(q, c)
    PROVE  IInv'
<1>1. HTTPStatus(c) \in Status /\ HTTPStatus(c) # 200
  BY StatusTable DEF Status
<1>2. Answer(q, HTTPStatus(c), FALSE)
  BY DEF Error
<1> QED BY <1>1, <1>2, Answering

\* A writing call that headscale executes.
LEMMA Executing ==
    ASSUME IInv, NEW q \in Request, call[q].pc # "answered", Execute(q)
    PROVE  IInv'
<1>1. CASE Answer(q, 200, TRUE)
  <2>1. 200 \in Status /\ 200 \notin 400 .. 499
    BY DEF Status
  <2> QED BY <1>1, <2>1, Answering
<1>2. CASE Error(q, "NotFound")
  BY <1>2, Failing DEF Refusal
<1> QED BY <1>1, <1>2 DEF Execute

LEMMA HandlerStepIInv ==
    ASSUME IInv, NEW q \in Request, HandlerStep(q)
    PROVE  IInv'
<1>1. CASE ListDevices(q)
  <2>1. call[q].pc # "answered" /\ Answer(q, 200, FALSE) /\ call[q].op = "listDevices"
    BY <1>1 DEF ListDevices
  <2>2. 200 \in Status /\ "listDevices" \notin DeviceWrite \cup {"authorize", "deleteUser"}
    BY DEF Status, DeviceWrite
  <2> QED BY <2>1, <2>2, Reading
<1>2. CASE GetDevice(q)
  <2>1. CASE Answer(q, 200, FALSE)
    <3>1. call[q].pc # "answered" /\ call[q].op = "get"
      BY <1>2 DEF GetDevice
    <3>2. 200 \in Status /\ "get" \notin DeviceWrite \cup {"authorize", "deleteUser"}
      BY DEF Status, DeviceWrite
    <3> QED BY <2>1, <3>1, <3>2, Reading
  <2>2. CASE Error(q, "NotFound")
    BY <1>2, <2>2, Failing DEF GetDevice, Refusal
  <2> QED BY <1>2, <2>1, <2>2 DEF GetDevice
<1>3. CASE AuthorizeDevice(q)
  <2>1. CASE Error(q, "NotFound")
    BY <1>3, <2>1, Failing DEF AuthorizeDevice, Refusal
  <2>2. CASE call[q].op = "deauthorize" /\ Answer(q, 200, FALSE)
    <3>1. call[q].pc # "answered"
      BY <1>3 DEF AuthorizeDevice
    <3>2. 200 \in Status /\ "deauthorize" \in Authorize
          /\ "deauthorize" \notin DeviceWrite \cup {"authorize", "deleteUser"}
      BY DEF Status, DeviceWrite, Authorize
    <3>3. call[q].op \notin DeviceWrite \cup {"authorize", "deleteUser"}
      BY <2>2, <3>2
    <3> QED BY <2>2, <3>1, <3>2, <3>3, Reading
  <2>3. CASE call[q].op # "deauthorize" /\ call' = [call EXCEPT ![q].pc = "register"]
    BY <1>3, <2>3
       DEF AuthorizeDevice, Authorize, IInv, CallType, UnansweredIsUndone,
           RegistersOnlyAuthorized, OnlyServerErrorsAreAmbiguous
  <2> QED BY <1>3, <2>1, <2>2, <2>3 DEF AuthorizeDevice
<1>4. CASE ListUsers(q)
  <2>1. Answer(q, 200, FALSE) \/ Answer(q, 404, FALSE)
    BY <1>4 DEF ListUsers
  <2>2. call[q].pc # "answered" /\ call[q].op \notin DeviceWrite \cup {"authorize", "deleteUser"}
    BY <1>4 DEF ListUsers, DeviceWrite
  <2>3. 200 \in Status /\ 404 \in Status
    BY DEF Status
  <2> QED BY <2>1, <2>2, <2>3, Answering
<1>5. CASE DeleteDevice(q) \/ ExpireDevice(q) \/ SetDevice(q) \/ RegisterNode(q) \/ DeleteUser(q)
  BY <1>5, Executing DEF DeleteDevice, ExpireDevice, SetDevice, RegisterNode, DeleteUser
<1>6. CASE Refused(q)
  <2>1. PICK c \in Refusal \cup Ambiguous : Error(q, c)
    BY <1>6 DEF Refused, Refusal, Ambiguous
  <2>2. call[q].pc # "answered"
    BY <1>6 DEF Refused, Writing
  <2> QED BY <2>1, <2>2, Failing
<1> QED BY <1>1, <1>2, <1>3, <1>4, <1>5, <1>6 DEF HandlerStep

\* A call that fails in transit, with or without its effect.
LEMMA CallFailsIInv ==
    ASSUME IInv, NEW q \in Request, CallFails(q)
    PROVE  IInv'
<1>1. PICK s \in {HTTPStatus(code) : code \in Ambiguous} \cup {Lost} :
         Answer(q, s, FALSE) \/ Answer(q, s, TRUE)
  BY DEF CallFails
<1>2. s \in {500, Lost}
  BY StatusTable
<1>3. s \in Status /\ s # 200 /\ s \notin 400 .. 499
  BY <1>2 DEF Status, Lost
<1>4. call[q].pc # "answered"
  BY DEF CallFails
<1> QED BY <1>1, <1>3, <1>4, Answering

\* An attempt that has changed nothing, and was not answered 200.
Fresh(a) ==
    /\ a \in [pc : {"idle", "rpc", "answered"}, op : Op, id : NodeId \cup UserId \cup {"-"},
              form : Form, status : Status, done : {FALSE}]
    /\ a.status # 200

LEMMA AttemptsAreFresh ==
    \A pc \in {"idle", "rpc", "answered"}, op \in Op, id \in NodeId \cup UserId \cup {"-"},
       form \in Form : /\ Fresh(Attempt(pc, op, id, form, Lost))
                      /\ Fresh(Attempt(pc, op, id, form, 400))
  BY DEF Fresh, Attempt, Status, Lost

\* A slot for requests that is used anew, by a client or after an answer.
LEMMA Renewing ==
    ASSUME IInv, NEW q \in Request, NEW a, Fresh(a), call' = [call EXCEPT ![q] = a]
    PROVE  IInv'
<1>1. CallType'
  BY DEF IInv, CallType, Fresh
<1>2. \A p \in Request : call'[p] = IF p = q THEN a ELSE call[p]
  BY DEF IInv, CallType
<1>3. a.pc # "register" /\ ~ a.done /\ a.status # 200
  BY DEF Fresh
<1>4. UnansweredIsUndone'
  BY <1>2, <1>3 DEF IInv, UnansweredIsUndone
<1>5. RegistersOnlyAuthorized'
  BY <1>2, <1>3 DEF IInv, RegistersOnlyAuthorized
<1>6. OnlyServerErrorsAreAmbiguous'
  BY <1>2, <1>3 DEF IInv, OnlyServerErrorsAreAmbiguous
<1> QED BY <1>1, <1>4, <1>5, <1>6 DEF IInv

LEMMA BeginIInv ==
    ASSUME IInv, NEW q \in Request, NEW op \in Op, NEW form \in Form,
           NEW id \in Target(op), Begin(q, op, id, form)
    PROVE  IInv'
<1>1. PICK a \in {Attempt("rpc", op, id, Kept(op, form), Lost),
                  Attempt("answered", op, id, "plain", 400)} :
         call' = [call EXCEPT ![q] = a]
  BY DEF Begin
<1>2. id \in NodeId \cup UserId \cup {"-"} /\ Kept(op, form) \in Form /\ "plain" \in Form
  BY DEF Target, Kept, Form
<1>3. Fresh(a)
  BY <1>1, <1>2, AttemptsAreFresh
<1> QED BY <1>1, <1>3, Renewing

LEMMA ClientProceedsIInv ==
    ASSUME IInv, NEW q \in Request, ClientProceeds(q)
    PROVE  IInv'
<1>1. /\ call[q].op \in Op /\ call[q].form \in Form
      /\ call[q].id \in NodeId \cup UserId \cup {"-"}
  BY DEF IInv, CallType
<1>2. PICK a \in {Attempt("rpc", call[q].op, call[q].id, call[q].form, Lost), Idle} :
         call' = [call EXCEPT ![q] = a]
  BY DEF ClientProceeds
<1>3. Fresh(Idle)
  <2>1. "idle" \in {"idle", "rpc", "answered"} /\ "listUsers" \in Op /\ "plain" \in Form
        /\ "-" \in NodeId \cup UserId \cup {"-"}
    BY DEF Op, ListOp, Form
  <2> QED BY <2>1, AttemptsAreFresh DEF Idle
<1>4. "rpc" \in {"idle", "rpc", "answered"}
  OBVIOUS
<1>5. Fresh(Attempt("rpc", call[q].op, call[q].id, call[q].form, Lost))
  BY <1>1, <1>4, AttemptsAreFresh
<1>6. Fresh(a)
  BY <1>2, <1>3, <1>5
<1> QED BY <1>2, <1>6, Renewing

LEMMA InitIInv == Init => IInv
<1> SUFFICES ASSUME Init PROVE IInv
  OBVIOUS
<1>1. "listUsers" \in Op /\ "plain" \in Form /\ Lost \in Status
  BY DEF Op, ListOp, Form, Status
<1>2. Idle \in [pc : {"idle", "rpc", "register", "answered"}, op : Op,
                id : NodeId \cup UserId \cup {"-"}, form : Form,
                status : Status, done : BOOLEAN]
  BY <1>1 DEF Idle, Attempt
<1>3. CallType
  BY <1>2 DEF Init, CallType
<1> QED BY <1>3 DEF Init, IInv, UnansweredIsUndone, RegistersOnlyAuthorized,
                    OnlyServerErrorsAreAmbiguous, Idle, Attempt

LEMMA NextIInv == IInv /\ [Next]_vars => IInv'
<1> SUFFICES ASSUME IInv, [Next]_vars PROVE IInv'
  OBVIOUS
<1>1. ASSUME UNCHANGED call PROVE IInv'
  BY <1>1 DEF IInv, CallType, UnansweredIsUndone, RegistersOnlyAuthorized,
              OnlyServerErrorsAreAmbiguous
<1>2. CASE Admin \/ UNCHANGED vars
  BY <1>1, <1>2 DEF Admin, vars
<1>3. ASSUME NEW q \in Request, HandlerStep(q) PROVE IInv'
  BY <1>3, HandlerStepIInv
<1>4. ASSUME NEW q \in Request, CallFails(q) PROVE IInv'
  BY <1>4, CallFailsIInv
<1>5. ASSUME NEW q \in Request, ClientProceeds(q) PROVE IInv'
  BY <1>5, ClientProceedsIInv
<1>6. ASSUME NEW q \in Request, NEW op \in Op, NEW form \in Form,
             NEW id \in Target(op), Begin(q, op, id, form)
      PROVE  IInv'
  BY <1>6, BeginIInv
<1> QED BY <1>2, <1>3, <1>4, <1>5, <1>6 DEF Next

LEMMA Invariance == Spec => []IInv
BY InitIInv, NextIInv, PTL DEF Spec

-------------------------------------------------------------------------------
(* What is not the requests'.                                               *)

RestType ==
    /\ nodes \in [NodeId -> Life] /\ users \in [UserId -> Life]
    /\ trusted \in BOOLEAN
    /\ faults \in 0 .. MaxFaults

LEMMA ExecutionKeepsRest ==
    ASSUME RestType, NEW q \in Request,
           TakesEffect(q) \/ UNCHANGED <<nodes, users>>
    PROVE  nodes' \in [NodeId -> Life] /\ users' \in [UserId -> Life]
BY DEF RestType, TakesEffect, Life

LEMMA NextKeepsRest == RestType /\ [Next]_vars => RestType'
<1> SUFFICES ASSUME RestType, [Next]_vars PROVE RestType'
  OBVIOUS
<1>1. CASE Admin
  <2>1. faults' = faults /\ (trusted' = trusted \/ trusted' = FALSE)
    BY <1>1 DEF Admin
  <2>2. nodes' = nodes \/ \E n \in NodeId, s \in Life : nodes' = [nodes EXCEPT ![n] = s]
    BY <1>1 DEF Admin
  <2>3. users' = users \/ \E u \in UserId, s \in Life : users' = [users EXCEPT ![u] = s]
    BY <1>1 DEF Admin
  <2> QED BY <2>1, <2>2, <2>3 DEF RestType
<1>2. ASSUME NEW q \in Request, HandlerStep(q) PROVE RestType'
  <2>1. trusted' = trusted /\ faults' = faults /\ (TakesEffect(q) \/ UNCHANGED <<nodes, users>>)
    BY <1>2 DEF HandlerStep, ListDevices, GetDevice, AuthorizeDevice, ListUsers, DeleteDevice,
                ExpireDevice, SetDevice, RegisterNode, DeleteUser, Refused, Execute
  <2> QED BY <2>1, ExecutionKeepsRest DEF RestType
<1>3. ASSUME NEW q \in Request, CallFails(q) PROVE RestType'
  <2>1. /\ trusted' = trusted /\ faults < MaxFaults /\ faults' = faults + 1
        /\ TakesEffect(q) \/ UNCHANGED <<nodes, users>>
    BY <1>3 DEF CallFails
  <2>2. faults' \in 0 .. MaxFaults
    BY <2>1, FaultAssumption DEF RestType
  <2> QED BY <2>1, <2>2, ExecutionKeepsRest DEF RestType
<1>4. ASSUME UNCHANGED <<nodes, users, trusted, faults>> PROVE RestType'
  BY <1>4 DEF RestType
<1> QED BY <1>1, <1>2, <1>3, <1>4 DEF Next, vars, ClientProceeds, Begin

-------------------------------------------------------------------------------
(* Who is told 404.                                                         *)

\* Request q names nobody, or writes a user's number in a way of its own.
Absence(q) ==
    \/ call[q].op \in DeviceOp \cup UserOp /\ ~ Present(call[q].op, call[q].id)
    \/ call[q].op = "getUser" /\ call[q].form # "plain"

\* Only NotFound becomes 404.
LEMMA NotFoundTable ==
    \A c \in ((Refusal \ {"NotFound"}) \cup Ambiguous) : HTTPStatus(c) # 404
<1>1. DOMAIN Case = {"OK", "InvalidArgument", "Unauthenticated",
                     "PermissionDenied", "NotFound", "AlreadyExists"}
  BY DEF Case
<1>2. \A c \in Ambiguous : HTTPStatus(c) # 404
  BY StatusTable
<1>3. \A c \in Refusal \ {"NotFound"} : HTTPStatus(c) # 404
  BY <1>1 DEF HTTPStatus, Refusal, Case
<1> QED BY <1>2, <1>3

LEMMA ExecutionTells ==
    ASSUME IInv, NEW q \in Request, Execute(q), call[q].op \in DeviceOp \cup UserOp,
           call'[q].status = 404
    PROVE  Absence(q)
<1>1. ASSUME Answer(q, 200, TRUE) PROVE FALSE
  BY <1>1 DEF Answer, IInv, CallType
<1> QED BY <1>1 DEF Execute, Absence

LEMMA HandlerTells ==
    ASSUME IInv, NEW q \in Request, HandlerStep(q),
           call'[q].pc = "answered", call'[q].status = 404
    PROVE  Absence(q)
<1>1. ASSUME Answer(q, 200, FALSE) PROVE FALSE
  BY <1>1 DEF Answer, IInv, CallType
<1>2. CASE GetDevice(q)
  BY <1>1, <1>2 DEF GetDevice, Absence, Present, DeviceOp
<1>3. CASE AuthorizeDevice(q)
  <2>1. call' # [call EXCEPT ![q].pc = "register"]
    BY DEF IInv, CallType
  <2> QED BY <1>1, <1>3, <2>1 DEF AuthorizeDevice, Absence, Present, DeviceOp
<1>4. CASE ListUsers(q)
  <2>1. call[q].op = "getUser" /\ ~ (call[q].form = "plain" /\ users[call[q].id] = "present")
    BY <1>1, <1>4 DEF ListUsers
  <2>2. "getUser" \notin DeviceOp /\ "getUser" \in UserOp
    BY DEF DeviceOp, UserOp, DeviceWrite, Authorize
  <2> QED BY <2>1, <2>2 DEF Absence, Present
<1>5. CASE DeleteDevice(q) \/ ExpireDevice(q) \/ SetDevice(q)
  BY <1>5, ExecutionTells DEF DeleteDevice, ExpireDevice, SetDevice, DeviceOp, DeviceWrite
<1>6. CASE RegisterNode(q)
  <2>1. call[q].op = "authorize"
    BY <1>6 DEF RegisterNode, IInv, RegistersOnlyAuthorized
  <2> QED BY <1>6, <2>1, ExecutionTells DEF RegisterNode, DeviceOp, Authorize
<1>7. CASE DeleteUser(q)
  BY <1>7, ExecutionTells DEF DeleteUser, UserOp
<1>8. CASE Refused(q)
  <2>1. PICK c \in ((Refusal \ {"NotFound"}) \cup Ambiguous) : Error(q, c)
    BY <1>8 DEF Refused, Refusal, Ambiguous
  <2>2. Answer(q, HTTPStatus(c), FALSE)
    BY <2>1 DEF Error
  <2>3. call'[q].status = HTTPStatus(c)
    BY <2>2 DEF Answer, IInv, CallType
  <2> QED BY <2>3, NotFoundTable
<1>9. CASE ListDevices(q)
  BY <1>1, <1>9 DEF ListDevices
<1> QED BY <1>2, <1>3, <1>4, <1>5, <1>6, <1>7, <1>8, <1>9 DEF HandlerStep

\* A step of one request is not one of another.
LEMMA OthersUnanswered ==
    ASSUME IInv, NEW p \in Request, NEW q \in Request, p # q,
           \/ HandlerStep(p) \/ CallFails(p) \/ ClientProceeds(p)
           \/ \E op \in Op, form \in Form : \E id \in Target(op) : Begin(p, op, id, form)
    PROVE  call'[q] = call[q]
<1>1. \A s, d : Answer(p, s, d) => call'[q] = call[q]
  BY DEF Answer, IInv, CallType
<1>2. \A a : call' = [call EXCEPT ![p] = a] => call'[q] = call[q]
  BY DEF IInv, CallType
<1>3. call' = [call EXCEPT ![p].pc = "register"] => call'[q] = call[q]
  BY DEF IInv, CallType
<1>4. CASE HandlerStep(p)
  BY <1>1, <1>3, <1>4 DEF HandlerStep, ListDevices, GetDevice, AuthorizeDevice, ListUsers,
       DeleteDevice, ExpireDevice, SetDevice, RegisterNode, DeleteUser, Refused, Execute, Error
<1>5. CASE CallFails(p)
  BY <1>1, <1>5 DEF CallFails
<1>6. CASE ClientProceeds(p)
  BY <1>2, <1>6 DEF ClientProceeds
<1>7. CASE \E op \in Op, form \in Form : \E id \in Target(op) : Begin(p, op, id, form)
  BY <1>2, <1>7 DEF Begin
<1> QED BY <1>4, <1>5, <1>6, <1>7

LEMMA StepTells ==
    ASSUME IInv, [Next]_vars, NEW q \in Request,
           call[q].pc # "answered", call'[q].pc = "answered", call'[q].status = 404
    PROVE  Absence(q)
<1>1. CASE call' = call
  BY <1>1
<1>2. CASE HandlerStep(q)
  BY <1>2, HandlerTells
<1>3. CASE CallFails(q)
  <2>1. PICK s \in {HTTPStatus(code) : code \in Ambiguous} \cup {Lost} :
           Answer(q, s, FALSE) \/ Answer(q, s, TRUE)
    BY <1>3 DEF CallFails
  <2>2. s = 500 \/ s = Lost
    BY StatusTable
  <2>3. s # 404
    BY <2>2 DEF Lost
  <2>4. call'[q].status = s
    BY <2>1 DEF Answer, IInv, CallType
  <2> QED BY <2>3, <2>4
<1>4. CASE ClientProceeds(q)
  BY <1>4 DEF ClientProceeds
<1>5. ASSUME NEW op \in Op, NEW form \in Form, NEW id \in Target(op), Begin(q, op, id, form)
      PROVE  FALSE
  <2>1. PICK a \in {Attempt("rpc", op, id, Kept(op, form), Lost),
                    Attempt("answered", op, id, "plain", 400)} :
           call' = [call EXCEPT ![q] = a]
    BY <1>5 DEF Begin
  <2>2. a.status # 404
    BY DEF Attempt, Lost
  <2> QED BY <2>1, <2>2 DEF IInv, CallType
<1>6. ASSUME NEW p \in Request, p # q,
             \/ HandlerStep(p) \/ CallFails(p) \/ ClientProceeds(p)
             \/ \E op \in Op, form \in Form : \E id \in Target(op) : Begin(p, op, id, form)
      PROVE  FALSE
  BY <1>6, OthersUnanswered
<1>7. CASE Admin \/ UNCHANGED vars
  BY <1>1, <1>7 DEF Admin, vars
<1> QED BY <1>2, <1>3, <1>4, <1>5, <1>6, <1>7 DEF Next

-------------------------------------------------------------------------------
(* The theorems.                                                            *)

\* The state of the device and user routes keeps its types.
THEOREM DevicesTypeCorrect == Spec => []TypeOK
<1>1. Init => RestType
  BY FaultAssumption DEF Init, RestType, Life
<1>2. IInv /\ RestType => TypeOK
  BY DEF IInv, CallType, RestType, TypeOK
<1> QED BY <1>1, <1>2, NextKeepsRest, Invariance, PTL DEF Spec

\* Whoever is told 404 has named a node or user that does not exist at that
\* moment, whatever others do in between (GetUser, FindUserByID, the handlers
\* of devices.go).
THEOREM NotFoundAbsent == Spec => NotFoundMeansAbsent
<1>1. IInv /\ [Next]_vars =>
         [\A q \in Request :
             call[q].pc # "answered" /\ call'[q].pc = "answered" /\ call'[q].status = 404 =>
                 \/ call[q].op \in DeviceOp \cup UserOp /\ ~ Present(call[q].op, call[q].id)
                 \/ call[q].op = "getUser" /\ call[q].form # "plain"]_vars
  BY StepTells DEF Absence
<1> QED BY <1>1, Invariance, PTL DEF Spec, NotFoundMeansAbsent

\* A request that is answered 200 to a write has itself changed headscale, one
\* that is answered 4xx has not: however many requests run at the same time,
\* fail, or are repeated, only 500 leaves the client in doubt (the handlers of
\* devices.go and users.go, grpcStatusToHTTP).
THEOREM OnlyServerErrors == Spec => []OnlyServerErrorsAreAmbiguous
<1>1. IInv => OnlyServerErrorsAreAmbiguous
  BY DEF IInv
<1> QED BY <1>1, Invariance, PTL
-------------------------------------------------------------------------------
(* How a DELETE of a device that is repeated gets to its end.               *)

\* q is a DELETE of node n that has had no clear answer yet.
Deleting(q, n) ==
    /\ call[q].op = "deleteDevice" /\ call[q].id = n /\ nodes[n] # "unborn"
    /\ \/ call[q].pc = "rpc"
       \/ call[q].pc = "answered" /\ call[q].status \in {Lost, 500}

\* It has been told: headtotails is rejected, or the node is gone.
Told(q, n) ==
    /\ call[q].op = "deleteDevice" /\ call[q].id = n /\ call[q].pc = "answered"
    /\ call[q].status = 401 \/ (call[q].status \in {200, 404} /\ nodes[n] = "gone")

\* What is between the DELETE and its end: each failure that is still to come
\* costs it one more attempt.
Distance(q) == 2 * (MaxFaults - faults) + IF call[q].pc = "answered" THEN 2 ELSE 1

\* Until it has been told, a DELETE of a device is not given up, nothing throws
\* it back, and each step of its own brings it nearer: no answer but 401, and
\* 200 or 404 for a node that is gone, ends it, whichever attempts have taken
\* effect without an answer (DeleteDevice, grpcStatusToHTTP).
DeletionDrawsNear ==
    [][\A q \in Request, n \in NodeId :
          Deleting(q, n) =>
             \/ Told(q, n)'
             \/ /\ Deleting(q, n)'
                /\ Distance(q)' <= Distance(q)
                /\ HandlerStep(q) \/ ClientProceeds(q) => Distance(q)' < Distance(q)]_vars

\* Nodes are never unborn again.
NodesMoveOn == \A n \in NodeId : nodes[n] # "unborn" => nodes'[n] # "unborn"

LEMMA NextMovesNodesOn == ASSUME RestType, [Next]_vars PROVE NodesMoveOn
<1>1. CASE Admin
  BY <1>1 DEF Admin, RestType, NodesMoveOn
<1>2. ASSUME NEW q \in Request, TakesEffect(q) PROVE NodesMoveOn
  BY <1>2 DEF TakesEffect, RestType, NodesMoveOn
<1>3. CASE nodes' = nodes
  BY <1>3 DEF NodesMoveOn
<1>4. ASSUME NEW q \in Request, HandlerStep(q) PROVE TakesEffect(q) \/ nodes' = nodes
  BY <1>4 DEF HandlerStep, ListDevices, GetDevice, AuthorizeDevice, ListUsers, DeleteDevice,
              ExpireDevice, SetDevice, RegisterNode, DeleteUser, Refused, Execute
<1>5. ASSUME NEW q \in Request, CallFails(q) PROVE TakesEffect(q) \/ nodes' = nodes
  BY <1>5 DEF CallFails
<1>6. ASSUME NEW q \in Request,
             \/ ClientProceeds(q)
             \/ \E op \in Op, form \in Form : \E id \in Target(op) : Begin(q, op, id, form)
      PROVE  nodes' = nodes
  BY <1>6 DEF ClientProceeds, Begin
<1>7. CASE UNCHANGED vars
  BY <1>3, <1>7 DEF vars
<1> QED BY <1>1, <1>2, <1>3, <1>4, <1>5, <1>6, <1>7 DEF Next

\* What an answer makes of the request.
LEMMA Answered ==
    ASSUME IInv, NEW q \in Request, NEW s, NEW d \in BOOLEAN, Answer(q, s, d)
    PROVE  /\ call'[q].pc = "answered" /\ call'[q].status = s
           /\ call'[q].op = call[q].op /\ call'[q].id = call[q].id
  BY DEF Answer, IInv, CallType

\* A failure brings whoever it does not hit nearer too.
LEMMA NoFarther ==
    ASSUME NEW m \in Nat, NEW f \in 0 .. m, NEW g \in 0 .. m, g \in {f, f + 1}, NEW s \in {1, 2}
    PROVE  2 * (m - g) + s <= 2 * (m - f) + s
  OBVIOUS

\* The attempt is executed, refused, or found to be late.
LEMMA DeleteIsTold ==
    ASSUME IInv, RestType, NEW q \in Request, NEW n \in NodeId, Deleting(q, n), HandlerStep(q)
    PROVE  Told(q, n)'
<1>1. call[q].op = "deleteDevice" /\ call[q].id = n /\ nodes[n] # "unborn"
  BY DEF Deleting
<1>2. DeleteDevice(q) \/ Refused(q)
  BY <1>1 DEF HandlerStep, ListDevices, GetDevice, AuthorizeDevice, ListUsers, ExpireDevice,
              SetDevice, RegisterNode, DeleteUser, Authorize, IInv, RegistersOnlyAuthorized
<1>3. HTTPStatus("NotFound") = 404 /\ HTTPStatus("Unauthenticated") = 401
  BY DEF HTTPStatus, Case
<1>4. CASE Refused(q)
  <2>1. Error(q, "Unauthenticated")
    BY <1>1, <1>4 DEF Refused
  <2>2. Answer(q, 401, FALSE)
    BY <1>3, <2>1 DEF Error
  <2>3. call'[q].pc = "answered" /\ call'[q].status = 401
        /\ call'[q].op = call[q].op /\ call'[q].id = call[q].id
    BY <2>2 DEF Answer, IInv, CallType
  <2> QED BY <1>1, <2>3 DEF Told
<1>5. "deleteDevice" \in DeviceOp
  BY DEF DeviceOp, DeviceWrite
<1>6. CASE DeleteDevice(q) /\ TakesEffect(q) /\ Answer(q, 200, TRUE)
  <2>1. nodes'[n] = "gone"
    BY <1>1, <1>6 DEF TakesEffect, RestType
  <2>2. call'[q].pc = "answered" /\ call'[q].status = 200
        /\ call'[q].op = call[q].op /\ call'[q].id = call[q].id
    BY <1>6 DEF Answer, IInv, CallType
  <2> QED BY <1>1, <2>1, <2>2 DEF Told
<1>7. CASE ~ Present(call[q].op, call[q].id) /\ Error(q, "NotFound") /\ UNCHANGED nodes
  <2>1. nodes'[n] = "gone"
    BY <1>1, <1>5, <1>7 DEF Present, RestType, Life
  <2>2. Answer(q, 404, FALSE)
    BY <1>3, <1>7 DEF Error
  <2>3. call'[q].pc = "answered" /\ call'[q].status = 404
        /\ call'[q].op = call[q].op /\ call'[q].id = call[q].id
    BY <2>2 DEF Answer, IInv, CallType
  <2> QED BY <1>1, <2>1, <2>3 DEF Told
<1> QED BY <1>2, <1>4, <1>6, <1>7 DEF DeleteDevice, Execute

\* A repeated DELETE of a device is never given up nor thrown back before it
\* has been told: the safety half of DeletionsEnd.
THEOREM DeletesDrawNear == Spec => DeletionDrawsNear
<1>1. IInv /\ RestType /\ RestType' /\ [Next]_vars =>
        [\A q \in Request, n \in NodeId :
            Deleting(q, n) =>
               \/ Told(q, n)'
               \/ /\ Deleting(q, n)'
                  /\ Distance(q)' <= Distance(q)
                  /\ HandlerStep(q) \/ ClientProceeds(q) => Distance(q)' < Distance(q)]_vars
  <2> SUFFICES ASSUME IInv, RestType, RestType', [Next]_vars,
                      NEW q \in Request, NEW n \in NodeId, Deleting(q, n)
               PROVE  \/ Told(q, n)'
                      \/ /\ Deleting(q, n)'
                         /\ Distance(q)' <= Distance(q)
                         /\ HandlerStep(q) \/ ClientProceeds(q) => Distance(q)' < Distance(q)
    OBVIOUS
  <2>1. nodes'[n] # "unborn"
    BY NextMovesNodesOn DEF NodesMoveOn, Deleting
  <2>2. faults \in 0 .. MaxFaults /\ faults' \in 0 .. MaxFaults /\ MaxFaults \in Nat
    BY FaultAssumption DEF RestType
  <2>3. CASE HandlerStep(q)
    BY <2>3, DeleteIsTold
  <2>4. CASE ClientProceeds(q)
    <3>1. call' = [call EXCEPT ![q] = Attempt("rpc", "deleteDevice", n, call[q].form, Lost)]
          /\ call[q].pc = "answered" /\ faults' = faults
      BY <2>4 DEF ClientProceeds, Deleting
    <3>2. call'[q].pc = "rpc" /\ call'[q].op = "deleteDevice" /\ call'[q].id = n
      BY <3>1 DEF Attempt, IInv, CallType
    <3> QED BY <2>1, <2>2, <3>1, <3>2 DEF Deleting, Distance
  <2>5. CASE CallFails(q)
    <3>0. PICK s \in {HTTPStatus(code) : code \in Ambiguous} \cup {Lost} :
             Answer(q, s, FALSE) \/ Answer(q, s, TRUE)
      BY <2>5 DEF CallFails
    <3>1. s = 500 \/ s = Lost
      BY StatusTable
    <3>2. call[q].pc = "rpc" /\ faults' = faults + 1
      BY <2>5 DEF CallFails, Deleting
    <3>3. /\ call'[q].pc = "answered" /\ call'[q].status = s
          /\ call'[q].op = call[q].op /\ call'[q].id = call[q].id
      BY <3>0, Answered
    <3>4. Deleting(q, n)'
      BY <2>1, <3>1, <3>3 DEF Deleting
    <3>5. Distance(q)' < Distance(q)
      BY <2>2, <3>2, <3>3 DEF Distance
    <3>6. Distance(q) \in Nat /\ Distance(q)' \in Nat
      BY <2>2, <3>2 DEF Distance
    <3> QED BY <3>4, <3>5, <3>6
  <2>6. ASSUME call'[q] = call[q], faults' \in {faults, faults + 1},
               ~ HandlerStep(q), ~ ClientProceeds(q)
        PROVE  Deleting(q, n)' /\ Distance(q)' <= Distance(q)
    <3>1. Deleting(q, n)'
      BY <2>1, <2>6 DEF Deleting
    <3> DEFINE stage == IF call[q].pc = "answered" THEN 2 ELSE 1
    <3>2. Distance(q) = 2 * (MaxFaults - faults) + stage
          /\ Distance(q)' = 2 * (MaxFaults - faults') + stage /\ stage \in {1, 2}
      BY <2>6 DEF Distance
    <3> HIDE DEF stage
    <3>3. 2 * (MaxFaults - faults') + stage <= 2 * (MaxFaults - faults) + stage
      BY <2>2, <2>6, <3>2, NoFarther
    <3> QED BY <3>1, <3>2, <3>3
  <2>7. CASE Admin \/ UNCHANGED vars
    <3>1. call' = call /\ faults' = faults
      BY <2>7 DEF Admin, vars
    <3> QED BY <2>3, <2>4, <2>6, <3>1
  <2>8. ASSUME NEW p \in Request, p # q,
               \/ HandlerStep(p) \/ CallFails(p) \/ ClientProceeds(p)
               \/ \E op \in Op, form \in Form : \E id \in Target(op) : Begin(p, op, id, form)
        PROVE  call'[q] = call[q] /\ faults' \in {faults, faults + 1}
    <3>1. call'[q] = call[q]
      BY <2>8, OthersUnanswered
    <3>2. faults' \in {faults, faults + 1}
      BY <2>8 DEF HandlerStep, ListDevices, GetDevice, AuthorizeDevice, ListUsers, DeleteDevice,
                  ExpireDevice, SetDevice, RegisterNode, DeleteUser, Refused, Execute,
                  CallFails, ClientProceeds, Begin
    <3> QED BY <3>1, <3>2
  <2>9. ~ \E op \in Op, form \in Form : \E id \in Target(op) : Begin(q, op, id, form)
    BY DEF Begin, Deleting
  <2> QED BY <2>3, <2>4, <2>5, <2>6, <2>7, <2>8, <2>9 DEF Next
<1>2. Init => RestType
  BY FaultAssumption DEF Init, RestType, Life
<1> QED BY <1>1, <1>2, NextKeepsRest, Invariance, PTL DEF Spec, DeletionDrawsNear
====================================================================================
