--------------------------- MODULE Lifecycle_proofs ---------------------------
(***************************************************************************)
(* Proofs about Lifecycle, for any number of requests in flight.           *)
(***************************************************************************)
EXTENDS Lifecycle, TLAPS

\* What holds of every request: a body that is being read has more to come, a
\* call has been counted, and the age of an exchange whose body came at once is
\* made up of its calls.
RequestOK(x) ==
    /\ x \in ReqState
    /\ x.calls <= MaxCalls[x.kind]
    /\ x.pc = "body" => x.input # "done"
    /\ x.pc = "call" => x.calls >= 1
    /\ x.kind = "exchange" /\ x.body = "prompt" =>
          /\ x.pc \in {"body", "run"} => x.age <= IssuerTimeout * x.calls
          /\ x.pc = "call" => x.age <= IssuerTimeout * (x.calls - 1) + x.wait
          /\ x.pc = "lost" => x.calls = 2

\* A request in flight is at least as old as the drain, or past WriteTimeout.
Covers(x, d) ==
    x.pc \in {"body", "run", "call"} => x.age >= d \/ x.age > WriteTimeout

\* How far main() has got.
PhaseOK ==
    /\ phase \in {"starting", "listening", "serving", "draining", "exited"}
    /\ exit \in {"none", "not started", "stopped", "shutdown error", "server error", "killed"}
    /\ drain \in 0 .. ShutdownLimit
    /\ phase \in {"starting", "listening", "serving"} => drain = 0

IInv ==
    /\ PhaseOK
    /\ req = [q \in Request |-> req[q]]
    /\ \A q \in Request : RequestOK(req[q]) /\ Covers(req[q], drain)

\* Two of the properties follow.
LEMMA Consequences == IInv => TypeOK /\ LostExchangeWaitedTwice
<1> SUFFICES ASSUME IInv PROVE TypeOK /\ LostExchangeWaitedTwice
  OBVIOUS
<1>1. req \in [Request -> ReqState]
  <2>1. \A q \in Request : req[q] \in ReqState
    BY DEF IInv, RequestOK
  <2> QED BY <2>1 DEF IInv
<1>2. TypeOK
  BY <1>1 DEF IInv, PhaseOK, RequestOK, TypeOK
<1>3. LostExchangeWaitedTwice
  BY DEF IInv, RequestOK, LostExchangeWaitedTwice
<1> QED BY <1>2, <1>3

-------------------------------------------------------------------------------
(* What the steps of a handler make of its request.                         *)

\* A request, field by field.
Fields(p, k, a, w, i, b, c, g) ==
    [pc |-> p, kind |-> k, age |-> a, wait |-> w, input |-> i, body |-> b, calls |-> c,
     client |-> g]

\* How many calls a handler of each kind may make.
LEMMA CallLimits ==
    /\ \A k \in Kind : MaxCalls[k] \in Nat
    /\ MaxCalls["local"] = 0 /\ MaxCalls["exchange"] = 2
  BY HeadscaleCallsAssumption DEF Kind, MaxCalls

\* The types of a request's fields.
LEMMA TypesOfFields ==
    ASSUME NEW x, RequestOK(x)
    PROVE  /\ x \in ReqState
           /\ x.pc \in {"idle", "body", "run", "call", "lost"} /\ x.kind \in Kind
           /\ x.age \in 0 .. 4 /\ x.wait \in 0 .. 2 /\ x.body \in {"prompt", "slow"}
           /\ x.input \in {"unread", "rest", "done"}
           /\ x.calls \in Nat /\ x.client \in {"there", "gone"}
           /\ MaxCalls[x.kind] \in Nat /\ x.calls <= MaxCalls[x.kind]
<1>1. /\ x \in ReqState
      /\ x.pc \in {"idle", "body", "run", "call", "lost"} /\ x.kind \in Kind
      /\ x.age \in 0 .. 4 /\ x.wait \in 0 .. 2 /\ x.body \in {"prompt", "slow"}
      /\ x.input \in {"unread", "rest", "done"}
      /\ x.calls \in Nat /\ x.client \in {"there", "gone"} /\ x.calls <= MaxCalls[x.kind]
  BY DEF RequestOK, ReqState, WriteTimeout, IssuerTimeout
<1> QED BY <1>1, CallLimits

\* A request that has just come in, and a slot that is free again.
LEMMA FreshOK ==
    /\ \A k \in Kind, i \in {"unread", "done"} :
          RequestOK([Idle EXCEPT !.pc = "run", !.kind = k, !.input = i])
    /\ RequestOK(Idle) /\ \A d : Covers(Idle, d)
<1>1. ASSUME NEW k \in Kind, NEW i \in {"unread", "done"},
             NEW y, y = [Idle EXCEPT !.pc = "run", !.kind = k, !.input = i]
      PROVE  RequestOK(y)
  <2>1. y = Fields("run", k, 0, 0, i, "prompt", 0, "there")
    BY <1>1 DEF Idle, Fields
  <2>2. y \in ReqState /\ y.pc = "run" /\ y.kind = k /\ y.age = 0 /\ y.calls = 0
    BY <2>1 DEF Fields, ReqState, WriteTimeout, IssuerTimeout
  <2>3. y.calls <= MaxCalls[y.kind]
    BY <2>2, CallLimits
  <2> QED BY <2>2, <2>3 DEF RequestOK, IssuerTimeout
<1>2. RequestOK(Idle) /\ \A d : Covers(Idle, d)
  <2>1. Idle = Fields("idle", "local", 0, 0, "done", "prompt", 0, "there")
    BY DEF Idle, Fields
  <2>2. Idle \in ReqState /\ Idle.pc = "idle" /\ Idle.kind = "local" /\ Idle.calls = 0
    BY <2>1 DEF Fields, ReqState, WriteTimeout, IssuerTimeout, Kind
  <2> QED BY <2>2, CallLimits DEF RequestOK, Covers
<1> QED BY <1>1, <1>2

\* The handler turns to the body.
LEMMA TurnOK ==
    ASSUME NEW x, RequestOK(x), x.pc = "run", x.input # "done",
           NEW y, y = [x EXCEPT !.pc = "body"]
    PROVE  RequestOK(y) /\ y.age = x.age
<1>1. y = Fields("body", x.kind, x.age, x.wait, x.input, x.body, x.calls, x.client)
  BY DEF Fields, RequestOK, ReqState
<1>2. /\ y \in ReqState /\ y.pc = "body" /\ y.kind = x.kind /\ y.calls = x.calls
      /\ y.body = x.body /\ y.age = x.age /\ y.input = x.input
  BY <1>1, TypesOfFields DEF Fields, ReqState, WriteTimeout, IssuerTimeout
<1> QED BY <1>2 DEF RequestOK

\* The body has been read, to its end or not.
LEMMA ReadOK ==
    ASSUME NEW x, RequestOK(x), x.pc = "body", NEW i \in {"rest", "done"},
           NEW y, y = [x EXCEPT !.pc = "run", !.input = i]
    PROVE  RequestOK(y) /\ y.age = x.age
<1>1. y = Fields("run", x.kind, x.age, x.wait, i, x.body, x.calls, x.client)
  BY DEF Fields, RequestOK, ReqState
<1>2. /\ y \in ReqState /\ y.pc = "run" /\ y.kind = x.kind /\ y.calls = x.calls
      /\ y.body = x.body /\ y.age = x.age
  BY <1>1, TypesOfFields DEF Fields, ReqState, WriteTimeout, IssuerTimeout
<1> QED BY <1>2 DEF RequestOK

\* A call begins.
LEMMA CallOK ==
    ASSUME NEW x, RequestOK(x), x.pc = "run", x.calls < MaxCalls[x.kind],
           NEW y, y = [x EXCEPT !.pc = "call", !.wait = 0, !.calls = @ + 1]
    PROVE  RequestOK(y) /\ y.age = x.age
<1>1. /\ x \in ReqState /\ x.age \in 0 .. 4 /\ x.calls \in Nat /\ MaxCalls[x.kind] \in Nat
  BY TypesOfFields
<1>2. y = Fields("call", x.kind, x.age, 0, x.input, x.body, x.calls + 1, x.client)
  BY <1>1 DEF Fields, ReqState
<1>3. /\ y \in ReqState /\ y.pc = "call" /\ y.kind = x.kind /\ y.calls = x.calls + 1
      /\ y.body = x.body /\ y.age = x.age /\ y.wait = 0
  BY <1>2, TypesOfFields DEF Fields, ReqState, WriteTimeout, IssuerTimeout
<1>4. y.calls >= 1 /\ y.calls <= MaxCalls[y.kind]
  BY <1>1, <1>3
<1>5. ASSUME y.kind = "exchange", y.body = "prompt"
      PROVE  y.age <= IssuerTimeout * (y.calls - 1) + y.wait
  <2>1. x.age <= IssuerTimeout * x.calls
    BY <1>3, <1>5 DEF RequestOK
  <2>2. y.calls - 1 = x.calls /\ IssuerTimeout * x.calls \in Int
    BY <1>1, <1>3 DEF IssuerTimeout
  <2> QED BY <1>1, <1>3, <2>1, <2>2
<1> QED BY <1>3, <1>4, <1>5 DEF RequestOK

\* A call ends.
LEMMA AnswerOK ==
    ASSUME NEW x, RequestOK(x), x.pc = "call",
           NEW y, y = [x EXCEPT !.pc = "run", !.wait = 0]
    PROVE  RequestOK(y) /\ y.age = x.age
<1>1. x \in ReqState /\ x.age \in 0 .. 4 /\ x.wait \in 0 .. 2 /\ x.calls \in Nat
  BY TypesOfFields
<1>2. y = Fields("run", x.kind, x.age, 0, x.input, x.body, x.calls, x.client)
  BY <1>1 DEF Fields, ReqState
<1>3. /\ y \in ReqState /\ y.pc = "run" /\ y.kind = x.kind /\ y.calls = x.calls
      /\ y.body = x.body /\ y.age = x.age /\ y.calls <= MaxCalls[y.kind]
  BY <1>2, TypesOfFields DEF Fields, ReqState, WriteTimeout, IssuerTimeout
<1>4. ASSUME y.kind = "exchange", y.body = "prompt"
      PROVE  y.age <= IssuerTimeout * y.calls
  <2>1. x.age <= IssuerTimeout * (x.calls - 1) + x.wait
    BY <1>3, <1>4 DEF RequestOK
  <2>2. IssuerTimeout * (x.calls - 1) + x.wait <= IssuerTimeout * x.calls
    BY <1>1 DEF IssuerTimeout
  <2> QED BY <1>1, <1>3, <2>1, <2>2 DEF IssuerTimeout
<1> QED BY <1>3, <1>4 DEF RequestOK

\* The answer comes too late: an exchange is that old only after two calls.
LEMMA LostOK ==
    ASSUME NEW x, RequestOK(x), x.pc \in {"body", "run", "call"}, x.age >= WriteTimeout,
           NEW y, y = [Idle EXCEPT !.pc = "lost", !.kind = x.kind, !.body = x.body,
                                   !.calls = x.calls]
    PROVE  RequestOK(y) /\ y.pc = "lost"
<1>1. /\ x \in ReqState /\ x.age \in 0 .. 4 /\ x.wait \in 0 .. 2 /\ x.calls \in Nat
      /\ MaxCalls[x.kind] \in Nat /\ x.calls <= MaxCalls[x.kind]
  BY TypesOfFields
<1>2. ASSUME x.kind = "exchange", x.body = "prompt" PROVE x.calls = 2
  <2>1. x.calls <= 2
    BY <1>1, <1>2, CallLimits
  <2>2. x.age <= IssuerTimeout * x.calls
    BY <1>1, <1>2 DEF RequestOK, IssuerTimeout
  <2> QED BY <1>1, <2>1, <2>2 DEF IssuerTimeout, WriteTimeout
<1>3. y = Fields("lost", x.kind, 0, 0, "done", x.body, x.calls, "there")
  BY DEF Idle, Fields
<1>4. /\ y \in ReqState /\ y.pc = "lost" /\ y.kind = x.kind /\ y.calls = x.calls
      /\ y.body = x.body
  <2>1. x.kind \in Kind /\ x.body \in {"prompt", "slow"} /\ x.calls \in Nat
    BY TypesOfFields
  <2>2. Fields("lost", x.kind, 0, 0, "done", x.body, x.calls, "there") \in ReqState
    BY <2>1 DEF Fields, ReqState, WriteTimeout, IssuerTimeout
  <2> QED BY <1>3, <2>1, <2>2 DEF Fields
<1>5. y.calls <= MaxCalls[y.kind]
  BY <1>1, <1>4
<1>6. y.kind = "exchange" /\ y.body = "prompt" => y.calls = 2
  BY <1>2, <1>4
<1> QED BY <1>4, <1>5, <1>6 DEF RequestOK

\* Time passes, and nothing of the request is due.
LEMMA AgedOK ==
    ASSUME NEW x, RequestOK(x), NEW d \in Int, Covers(x, d), x.pc # "run",
           ~ (x.pc = "call" /\ x.kind = "exchange" /\ x.wait = IssuerTimeout)
    PROVE  /\ RequestOK(Aged(x)) /\ Covers(Aged(x), d) /\ Covers(Aged(x), d + 1)
           /\ Aged(x).pc = x.pc /\ Aged(x).kind = x.kind /\ Aged(x).calls = x.calls
           /\ Aged(x).input = x.input
<1>1. /\ x \in ReqState /\ x.age \in 0 .. 4 /\ x.wait \in 0 .. 2 /\ x.calls \in Nat
      /\ x.body \in {"prompt", "slow"}
      /\ x.pc \in {"idle", "body", "run", "call", "lost"}
  BY TypesOfFields
<1>2. CASE x.pc \notin {"body", "run", "call"}
  BY <1>2 DEF Aged, Covers
<1>3. CASE x.pc \in {"body", "call"}
  <2> DEFINE a == IF x.age > WriteTimeout THEN x.age ELSE x.age + 1
             b == IF x.pc = "body" /\ x.kind = "exchange" THEN "slow" ELSE x.body
             w == IF x.pc = "call" /\ x.kind = "exchange" THEN x.wait + 1 ELSE x.wait
             y == Aged(x)
  <2>1. y = Fields(x.pc, x.kind, a, w, x.input, b, x.calls, x.client)
    BY <1>1, <1>3 DEF Aged, Fields, ReqState
  <2>2. a \in 0 .. 4 /\ b \in {"prompt", "slow"} /\ w \in 0 .. 2
    BY <1>1 DEF WriteTimeout, IssuerTimeout
  <2>3. /\ y \in ReqState /\ y.pc = x.pc /\ y.kind = x.kind /\ y.calls = x.calls
        /\ y.age = a /\ y.wait = w /\ y.body = b /\ y.input = x.input
    <3>1. /\ x.kind \in Kind /\ x.input \in {"unread", "rest", "done"}
          /\ x.client \in {"there", "gone"}
      BY TypesOfFields
    <3> HIDE DEF a, b, w, y
    <3> QED BY <1>1, <2>1, <2>2, <3>1 DEF Fields, ReqState, WriteTimeout, IssuerTimeout
  <2>4. Covers(y, d) /\ Covers(y, d + 1)
    BY <1>1, <1>3, <2>3 DEF Covers, WriteTimeout
  <2>5. RequestOK(y)
    <3>1. /\ y.calls <= MaxCalls[y.kind]
          /\ y.pc = "body" => y.input # "done"
          /\ y.pc = "call" => y.calls >= 1
      BY <2>3 DEF RequestOK
    <3>2. ASSUME y.kind = "exchange", y.body = "prompt"
          PROVE  y.pc = "call" /\ y.age <= IssuerTimeout * (y.calls - 1) + y.wait
      BY <1>1, <1>3, <2>3, <3>2 DEF RequestOK, IssuerTimeout
    <3> QED BY <2>3, <3>1, <3>2 DEF RequestOK
  <2> QED BY <2>3, <2>4, <2>5
<1> QED BY <1>1, <1>2, <1>3
-------------------------------------------------------------------------------
(* The invariant is inductive.                                              *)

\* A step that concerns one request, and leaves it in order.
LEMMA OneRequest ==
    ASSUME IInv, UNCHANGED <<phase, exit, drain>>, NEW q \in Request,
           req' = [p \in Request |-> IF p = q THEN req'[q] ELSE req[p]],
           RequestOK(req'[q]), Covers(req'[q], drain)
    PROVE  IInv'
<1>1. PhaseOK'
  BY DEF IInv, PhaseOK
<1>2. \A p \in Request : req'[p] = req[p] \/ p = q
  OBVIOUS
<1>3. \A p \in Request : RequestOK(req'[p]) /\ Covers(req'[p], drain')
  BY <1>2 DEF IInv
<1> QED BY <1>1, <1>3 DEF IInv

\* A request that is in flight stays as old as the drain.
LEMMA CoverStays ==
    ASSUME NEW x, NEW y, NEW d, Covers(x, d), x.pc \in {"body", "run", "call"}, y.age = x.age
    PROVE  Covers(y, d)
  BY DEF Covers

\* A request that is answered, or whose answer is lost.
LEMMA WriteKeeps ==
    ASSUME IInv, NEW q \in Request, InFlight(q), Write(q)
    PROVE  IInv'
<1>1. UNCHANGED <<phase, exit, drain>> /\ RequestOK(req[q]) /\ DOMAIN req = Request
  BY DEF Write, IInv
<1>2. CASE req' = [req EXCEPT ![q] = Idle]
  <2>1. req'[q] = Idle /\ req' = [p \in Request |-> IF p = q THEN req'[q] ELSE req[p]]
    BY <1>1, <1>2 DEF IInv
  <2> QED BY <1>1, <2>1, FreshOK, OneRequest
<1>3. CASE /\ req[q].age >= WriteTimeout
           /\ req' = [req EXCEPT ![q] =
                        [Idle EXCEPT !.pc = "lost", !.kind = req[q].kind,
                                     !.body = req[q].body, !.calls = req[q].calls]]
  <2>1. /\ req'[q] = [Idle EXCEPT !.pc = "lost", !.kind = req[q].kind,
                                  !.body = req[q].body, !.calls = req[q].calls]
        /\ req' = [p \in Request |-> IF p = q THEN req'[q] ELSE req[p]]
    BY <1>1, <1>3 DEF IInv
  <2>2. RequestOK(req'[q]) /\ req'[q].pc = "lost"
    BY <1>1, <1>3, <2>1, LostOK DEF InFlight
  <2>3. Covers(req'[q], drain)
    BY <2>2 DEF Covers
  <2> QED BY <1>1, <2>1, <2>2, <2>3, OneRequest
<1> QED BY <1>2, <1>3 DEF Write

\* The steps of a handler and of those it waits for.
LEMMA HandlerKeeps ==
    ASSUME IInv, NEW q \in Request, HandlerStep(q) \/ Environment(q)
    PROVE  IInv'
<1>1. RequestOK(req[q]) /\ Covers(req[q], drain) /\ DOMAIN req = Request
  BY DEF IInv
<1>2. CASE BodyFails(q) \/ Finish(q) \/ CallCut(q)
  BY <1>2, WriteKeeps DEF BodyFails, Finish, CallCut, InFlight
<1>3. CASE ReadBody(q)
  <2>1. /\ req'[q] = [req[q] EXCEPT !.pc = "body"] /\ req[q].pc = "run"
        /\ req' = [p \in Request |-> IF p = q THEN req'[q] ELSE req[p]]
    BY <1>1, <1>3 DEF IInv, ReadBody
  <2>2. RequestOK(req'[q]) /\ req'[q].age = req[q].age
    BY <1>1, <1>3, <2>1, TurnOK DEF ReadBody
  <2> QED BY <1>1, <1>3, <2>1, <2>2, CoverStays, OneRequest DEF ReadBody
<1>4. CASE Call(q)
  <2>1. /\ req'[q] = [req[q] EXCEPT !.pc = "call", !.wait = 0, !.calls = @ + 1]
        /\ req[q].pc = "run"
        /\ req' = [p \in Request |-> IF p = q THEN req'[q] ELSE req[p]]
    BY <1>1, <1>4 DEF IInv, Call
  <2>2. RequestOK(req'[q]) /\ req'[q].age = req[q].age
    BY <1>1, <1>4, <2>1, CallOK DEF Call
  <2> QED BY <1>1, <1>4, <2>1, <2>2, CoverStays, OneRequest DEF Call
<1>5. ASSUME NEW k \in Kind, Arrive(q, k) PROVE IInv'
  <2>1. PICK i \in {"unread", "done"} :
            req' = [req EXCEPT ![q] = [Idle EXCEPT !.pc = "run", !.kind = k, !.input = i]]
    BY <1>5 DEF Arrive
  <2>2. /\ req'[q] = [Idle EXCEPT !.pc = "run", !.kind = k, !.input = i]
        /\ req' = [p \in Request |-> IF p = q THEN req'[q] ELSE req[p]]
    BY <1>1, <2>1 DEF IInv
  <2>3. RequestOK(req'[q])
    BY <2>2, FreshOK
  <2>4. drain = 0 /\ req'[q].age \in 0 .. 4
    BY <1>5, <2>3, TypesOfFields DEF IInv, PhaseOK, Arrive
  <2>5. Covers(req'[q], drain)
    BY <2>4 DEF Covers
  <2> QED BY <1>5, <2>2, <2>3, <2>5, OneRequest DEF Arrive
<1>6. CASE BodyRead(q)
  <2>1. PICK i \in {"rest", "done"} : req' = [req EXCEPT ![q].pc = "run", ![q].input = i]
    BY <1>6 DEF BodyRead
  <2>2. /\ req'[q] = [req[q] EXCEPT !.pc = "run", !.input = i] /\ req[q].pc = "body"
        /\ req' = [p \in Request |-> IF p = q THEN req'[q] ELSE req[p]]
    BY <1>1, <1>6, <2>1 DEF IInv, BodyRead
  <2>3. RequestOK(req'[q]) /\ req'[q].age = req[q].age
    BY <1>1, <2>2, ReadOK
  <2> QED BY <1>1, <1>6, <2>2, <2>3, CoverStays, OneRequest DEF BodyRead
<1>7. CASE ClientLeaves(q)
  <2>1. /\ req'[q] = [req[q] EXCEPT !.client = "gone"]
        /\ req' = [p \in Request |-> IF p = q THEN req'[q] ELSE req[p]]
    BY <1>1, <1>7 DEF IInv, ClientLeaves
  <2>2. /\ req'[q] \in ReqState
        /\ \A f \in {"pc", "kind", "age", "wait", "input", "body", "calls"} :
              req'[q][f] = req[q][f]
    BY <1>1, <2>1 DEF RequestOK, ReqState
  <2>3. RequestOK(req'[q]) /\ Covers(req'[q], drain)
    BY <1>1, <2>2 DEF RequestOK, Covers
  <2> QED BY <1>7, <2>1, <2>3, OneRequest DEF ClientLeaves
<1>8. CASE UpstreamAnswers(q) /\ ~ Write(q)
  <2>1. /\ req'[q] = [req[q] EXCEPT !.pc = "run", !.wait = 0] /\ req[q].pc = "call"
        /\ req' = [p \in Request |-> IF p = q THEN req'[q] ELSE req[p]]
    BY <1>1, <1>8 DEF IInv, UpstreamAnswers
  <2>2. RequestOK(req'[q]) /\ req'[q].age = req[q].age
    BY <1>1, <2>1, AnswerOK
  <2> QED BY <1>1, <1>8, <2>1, <2>2, CoverStays, OneRequest DEF UpstreamAnswers
<1>9. CASE UpstreamAnswers(q) /\ Write(q)
  BY <1>9, WriteKeeps DEF UpstreamAnswers, InFlight
<1> QED
  BY <1>2, <1>3, <1>4, <1>5, <1>6, <1>7, <1>8, <1>9 DEF HandlerStep, Environment

\* Time passes: what is not due stays in order, and everything in flight ages
\* with the drain.
LEMMA TickKeeps ==
    ASSUME IInv, Tick
    PROVE  IInv'
<1>1. /\ drain \in 0 .. ShutdownLimit /\ drain \in Int /\ UNCHANGED <<phase, exit>>
      /\ phase \in {"serving", "draining"} /\ (phase = "serving" => drain = 0)
  <2>1. /\ drain \in 0 .. ShutdownLimit /\ (phase = "serving" => drain = 0)
        /\ UNCHANGED <<phase, exit>> /\ phase \in {"serving", "draining"}
    BY DEF IInv, PhaseOK, Tick
  <2> QED BY <2>1 DEF ShutdownLimit
<1>2. drain' = drain \/ drain' = drain + 1
  BY DEF Tick
<1>3. PhaseOK'
  <2>1. drain' \in 0 .. ShutdownLimit
    BY <1>1 DEF Tick, ShutdownLimit
  <2>2. phase' \in {"starting", "listening", "serving"} => drain' = 0
    BY <1>1 DEF Tick
  <2> QED BY <1>1, <2>1, <2>2 DEF IInv, PhaseOK
<1>4. ASSUME NEW q \in Request PROVE RequestOK(req'[q]) /\ Covers(req'[q], drain')
  <2>1. req'[q] = Aged(req[q]) /\ ~ Urgent(q) /\ RequestOK(req[q]) /\ Covers(req[q], drain)
    BY DEF Tick, IInv
  <2>2. /\ req[q].pc # "run"
        /\ ~ (req[q].pc = "call" /\ req[q].kind = "exchange" /\ req[q].wait = IssuerTimeout)
    BY <2>1 DEF Urgent, CallOver
  <2> QED BY <1>1, <1>2, <2>1, <2>2, AgedOK
<1>5. req' = [q \in Request |-> req'[q]]
  BY DEF Tick
<1> QED BY <1>3, <1>4, <1>5 DEF IInv

\* The end of the process leaves nothing in flight.
LEMMA EndKeeps ==
    ASSUME IInv, End("not started") \/ End("killed") \/ End("server error") \/ End("stopped")
                 \/ End("shutdown error")
    PROVE  IInv' /\ phase' = "exited" /\ \A q \in Request : ~ InFlight(q)'
<1>1. /\ phase' = "exited" /\ drain' = drain /\ req' = [q \in Request |-> Idle]
      /\ exit' \in {"not started", "stopped", "shutdown error", "server error", "killed"}
  BY DEF End
<1>2. PhaseOK'
  BY <1>1 DEF IInv, PhaseOK
<1>3. \A q \in Request : req'[q] = Idle /\ Idle.pc = "idle"
  BY <1>1 DEF Idle
<1>4. IInv'
  BY <1>1, <1>2, <1>3, FreshOK DEF IInv
<1> QED BY <1>1, <1>3, <1>4 DEF InFlight

\* The steps of main(): on to the next phase, nothing at all (the server has
\* been closed by Shutdown), or the end.
LEMMA MainSteps ==
    ASSUME IInv, Main
    PROVE  \/ /\ UNCHANGED <<exit, drain, req>>
              /\ \/ phase = "starting" /\ phase' = "listening"
                 \/ phase = "listening" /\ phase' = "serving"
                 \/ phase = "serving" /\ phase' = "draining"
           \/ UNCHANGED vars
           \/ /\ \/ End("not started") \/ End("killed") \/ End("server error") \/ End("stopped")
                 \/ End("shutdown error")
              /\ phase = "draining" =>
                    \/ \A q \in Request : ~ InFlight(q)
                    \/ drain = ShutdownLimit
<1>1. CASE Start \/ Notify \/ Signal
  BY <1>1 DEF Start, Notify, Signal
<1>2. CASE Drained \/ DrainTimeout
  BY <1>2 DEF Drained, DrainTimeout
<1>3. CASE ServerReturns
  <2>1. PICK err \in {"closed", "failed"} :
            /\ phase \in IF err = "closed" THEN {"draining"} ELSE {"listening", "serving"}
            /\ IF Fatal(err) THEN End("server error") ELSE UNCHANGED vars
    BY <1>3 DEF ServerReturns
  <2>2. err = "closed" => UNCHANGED vars
    BY <2>1 DEF Fatal
  <2>3. err = "failed" => End("server error") /\ phase # "draining"
    BY <2>1 DEF Fatal
  <2> QED BY <2>2, <2>3
<1> QED BY <1>1, <1>2, <1>3 DEF Main

\* The steps of main().
LEMMA MainKeeps ==
    ASSUME IInv, Main
    PROVE  IInv'
<1>1. CASE UNCHANGED <<exit, drain, req>> /\ phase' \in {"listening", "serving", "draining"}
           /\ phase \in {"starting", "listening", "serving"}
  <2>1. PhaseOK'
    BY <1>1 DEF IInv, PhaseOK
  <2> QED BY <1>1, <2>1 DEF IInv
<1>2. CASE UNCHANGED vars
  BY <1>2 DEF vars, IInv, PhaseOK
<1> QED BY <1>1, <1>2, MainSteps, EndKeeps

\* The invariant holds in every reachable state.
LEMMA Invariance == Spec => []IInv
<1>1. Init => IInv
  <2> SUFFICES ASSUME Init PROVE IInv
    OBVIOUS
  <2>1. PhaseOK
    BY DEF Init, PhaseOK, ShutdownLimit
  <2>2. \A q \in Request : req[q] = Idle
    BY DEF Init
  <2> QED BY <2>1, <2>2, FreshOK DEF Init, IInv
<1>2. IInv /\ [Next]_vars => IInv'
  <2> SUFFICES ASSUME IInv, [Next]_vars PROVE IInv'
    OBVIOUS
  <2>1. CASE UNCHANGED vars
    BY <2>1 DEF vars, IInv, PhaseOK
  <2> QED BY <2>1, HandlerKeeps, TickKeeps, MainKeeps DEF Next, Exited
<1> QED BY <1>1, <1>2, PTL DEF Spec

\* Every reachable state is well typed, and no handler makes more calls than
\* its code has.
THEOREM LifecycleTypeCorrect == Spec => []TypeOK
  BY Invariance, Consequences, PTL

\* The reply of a token exchange is lost on a patient and prompt client only
\* after two slow calls to the issuer.
THEOREM LostExchanges == Spec => []LostExchangeWaitedTwice
  BY Invariance, Consequences, PTL

\* The end of the drain takes no answer from any client: ErrServerClosed does
\* not end the process, 30 s are more than WriteTimeout, and what is in flight
\* is at least as old as the drain.
THEOREM NoAnswerLostToTheDrain == Spec => DrainCostsNoAnswer
<1>1. IInv /\ [Next]_vars =>
        [phase = "draining" /\ phase' = "exited"
            => \A q \in Request : InFlight(q) => req[q].age > WriteTimeout]_vars
  <2> SUFFICES ASSUME IInv, [Next]_vars, phase = "draining", phase' = "exited",
                      NEW q \in Request, InFlight(q)
               PROVE  req[q].age > WriteTimeout
    OBVIOUS
  <2>1. Main
    <3>1. ~ (Tick \/ Exited \/ UNCHANGED vars)
      BY DEF Tick, Exited, vars
    <3>2. \A p \in Request : ~ (HandlerStep(p) \/ Environment(p))
      BY DEF HandlerStep, Environment, ReadBody, BodyFails, Finish, Call, CallCut, Write,
             Arrive, BodyRead, ClientLeaves, UpstreamAnswers
    <3> QED BY <3>1, <3>2 DEF Next
  <2>2. drain = ShutdownLimit
    BY <2>1, MainSteps DEF vars
  <2>3. RequestOK(req[q]) /\ Covers(req[q], drain)
    BY DEF IInv
  <2>4. req[q].age \in 0 .. 4 /\ (req[q].age >= drain \/ req[q].age > WriteTimeout)
    BY <2>3, TypesOfFields DEF Covers, InFlight
  <2> QED BY <2>2, <2>4 DEF ShutdownLimit, WriteTimeout
<1> QED BY <1>1, Invariance, PTL DEF Spec, DrainCostsNoAnswer
-------------------------------------------------------------------------------
(* How handlers and the drain get to their end.                             *)

\* The handler of q is at work.
AtWork(q) == Up /\ InFlight(q)

\* What is between a handler and its answer: each call that it may still make
\* is waited for and returned from, and so is each of two parts of the body.
PcWeight(x) == IF x.pc = "call" THEN 2 ELSE IF x.pc = "run" THEN 1 ELSE 0
InputWeight(x) == IF x.input = "unread" THEN 4 ELSE IF x.input = "rest" THEN 2 ELSE 0
DistanceOf(x) == 2 * (MaxCalls[x.kind] - x.calls) + InputWeight(x) + PcWeight(x)
Distance(q) == DistanceOf(req[q])

\* A handler's distance is finite.  One whose client has gone has something to
\* do at once, whatever it waits for, headscale included, whose calls have no
\* deadline of their own: their context is the request's.  The exception is a
\* call made before the body is at its end, when nobody looks out for the client.
NobodyIsKept ==
    \A q \in Request :
        /\ Distance(q) \in Nat
        /\ AtWork(q) /\ req[q].client = "gone" /\ (req[q].pc = "call" => req[q].input = "done")
              => Urgent(q)

\* Nothing throws a handler back, and each step that it takes, and each answer
\* that it gets, brings it nearer to its end: none of them tries a call again
\* (the handlers of api/, JWKSCache).
HandlersDrawNear ==
    [][\A q \in Request :
          AtWork(q) =>
             \/ ~ AtWork(q)'
             \/ /\ Distance(q)' <= Distance(q)
                /\ HandlerStep(q) \/ BodyRead(q) \/ UpstreamAnswers(q)
                      => Distance(q)' < Distance(q)]_vars

\* While Shutdown waits, its time goes on and the requests it waits for become
\* fewer, never more; only the end of the process ends the drain.
DrainAdvances ==
    [][phase = "draining" =>
          \/ phase' = "exited"
          \/ /\ phase' = "draining"
             /\ \A q \in Request : InFlight(q)' => InFlight(q)
             /\ drain' = IF Tick THEN drain + 1 ELSE drain]_vars

\* The step of one handler concerns no other request.
LEMMA OthersUntouched ==
    ASSUME IInv, NEW q \in Request, HandlerStep(q) \/ Environment(q)
    PROVE  /\ UNCHANGED <<phase, exit, drain>> /\ Up
           /\ \A p \in Request : p # q => req'[p] = req[p]
  BY DEF IInv, HandlerStep, Environment, ReadBody, BodyFails, Finish, Call, CallCut, Write,
         Arrive, BodyRead, ClientLeaves, UpstreamAnswers, Up

\* An answer, written or lost, ends the handler's work.
LEMMA WriteEnds ==
    ASSUME IInv, NEW q \in Request, Write(q)
    PROVE  ~ AtWork(q)'
<1>1. DOMAIN req = Request /\ req[q] \in ReqState
  BY DEF IInv, RequestOK
<1>2. req'[q].pc \in {"idle", "lost"}
  <2>1. CASE req' = [req EXCEPT ![q] = Idle]
    BY <1>1, <2>1 DEF Idle
  <2>2. CASE req' = [req EXCEPT ![q] =
                       [Idle EXCEPT !.pc = "lost", !.kind = req[q].kind,
                                    !.body = req[q].body, !.calls = req[q].calls]]
    BY <1>1, <2>2 DEF Idle
  <2> QED BY <2>1, <2>2 DEF Write
<1> QED BY <1>2 DEF AtWork, InFlight

\* The distance is a number, and nothing is nearer than 0.
LEMMA DistanceIsNat ==
    ASSUME NEW x, RequestOK(x)
    PROVE  DistanceOf(x) \in Nat
<1>1. /\ MaxCalls[x.kind] \in Nat /\ x.calls \in Nat /\ x.calls <= MaxCalls[x.kind]
      /\ InputWeight(x) \in Nat /\ PcWeight(x) \in Nat
  BY TypesOfFields DEF InputWeight, PcWeight
<1> QED BY <1>1 DEF DistanceOf

\* What the steps of a request make of its distance.
LEMMA Nearer ==
    ASSUME NEW x, RequestOK(x), NEW y, RequestOK(y), y.kind = x.kind
    PROVE  /\ (y.calls = x.calls /\ y.input = x.input
               /\ ((x.pc = "call" /\ y.pc = "run") \/ (x.pc = "run" /\ y.pc = "body")))
                 => DistanceOf(y) < DistanceOf(x)
           /\ (y.calls = x.calls /\ x.pc = "body" /\ y.pc = "run"
               /\ ((x.input = "unread" /\ y.input # "unread")
                   \/ (x.input = "rest" /\ y.input = "done")))
                 => DistanceOf(y) < DistanceOf(x)
           /\ (y.calls = x.calls + 1 /\ y.input = x.input /\ x.pc = "run" /\ y.pc = "call")
                 => DistanceOf(y) < DistanceOf(x)
           /\ (y.calls = x.calls /\ y.input = x.input /\ y.pc = x.pc)
                 => DistanceOf(y) = DistanceOf(x)
<1>1. /\ MaxCalls[x.kind] \in Nat /\ x.calls \in Nat /\ y.calls \in Nat
      /\ MaxCalls[y.kind] = MaxCalls[x.kind] /\ y.input \in {"unread", "rest", "done"}
  BY TypesOfFields
<1>2. InputWeight(x) \in Nat /\ PcWeight(x) \in Nat
  BY DEF InputWeight, PcWeight
<1>3. y.input = x.input => InputWeight(y) = InputWeight(x)
  BY DEF InputWeight
<1>4. /\ x.input = "unread" /\ y.input # "unread" => InputWeight(y) + 2 <= InputWeight(x)
      /\ x.input = "rest" /\ y.input = "done" => InputWeight(y) + 2 <= InputWeight(x)
      /\ InputWeight(y) \in Nat
  BY DEF InputWeight
<1>5. /\ x.pc = "call" /\ y.pc = "run" => PcWeight(y) + 1 = PcWeight(x)
      /\ x.pc = "run" /\ y.pc = "body" => PcWeight(y) + 1 = PcWeight(x)
      /\ x.pc = "body" /\ y.pc = "run" => PcWeight(y) = PcWeight(x) + 1
      /\ x.pc = "run" /\ y.pc = "call" => PcWeight(y) = PcWeight(x) + 1
      /\ y.pc = x.pc => PcWeight(y) = PcWeight(x)
      /\ PcWeight(y) \in Nat
  BY DEF PcWeight
<1> DEFINE m == 2 * (MaxCalls[x.kind] - x.calls)
           n == 2 * (MaxCalls[y.kind] - y.calls)
<1>6. /\ m \in Int /\ n \in Int
      /\ y.calls = x.calls => n = m
      /\ y.calls = x.calls + 1 => n + 2 = m
  BY <1>1
<1>7. /\ DistanceOf(x) = m + InputWeight(x) + PcWeight(x)
      /\ DistanceOf(y) = n + InputWeight(y) + PcWeight(y)
  BY DEF DistanceOf
<1> HIDE DEF m, n
<1>8. ASSUME y.calls = x.calls, y.input = x.input,
             (x.pc = "call" /\ y.pc = "run") \/ (x.pc = "run" /\ y.pc = "body")
      PROVE  DistanceOf(y) < DistanceOf(x)
  BY <1>2, <1>3, <1>5, <1>6, <1>7, <1>8
<1>9. ASSUME y.calls = x.calls, x.pc = "body", y.pc = "run",
             \/ x.input = "unread" /\ y.input # "unread"
             \/ x.input = "rest" /\ y.input = "done"
      PROVE  DistanceOf(y) < DistanceOf(x)
  BY <1>2, <1>4, <1>5, <1>6, <1>7, <1>9
<1>10. ASSUME y.calls = x.calls + 1, y.input = x.input, x.pc = "run", y.pc = "call"
       PROVE  DistanceOf(y) < DistanceOf(x)
  BY <1>2, <1>3, <1>5, <1>6, <1>7, <1>10
<1>11. ASSUME y.calls = x.calls, y.input = x.input, y.pc = x.pc
       PROVE  DistanceOf(y) = DistanceOf(x)
  BY <1>2, <1>3, <1>5, <1>6, <1>7, <1>11
<1> QED BY <1>8, <1>9, <1>10, <1>11

\* A step of the handler, of its client, or of those it waits for: it ends the
\* handler's work or brings it nearer; that the client leaves does neither.
LEMMA HandlerDrawsNear ==
    ASSUME IInv, NEW q \in Request, AtWork(q), HandlerStep(q) \/ Environment(q)
    PROVE  \/ ~ AtWork(q)'
           \/ Distance(q)' < Distance(q)
           \/ ClientLeaves(q) /\ Distance(q)' = Distance(q) /\ req'[q].pc = req[q].pc
              /\ req'[q].calls = req[q].calls /\ req'[q].input = req[q].input
<1>1. DOMAIN req = Request /\ req[q] \in ReqState /\ RequestOK(req[q])
  BY DEF IInv, RequestOK
<1>2. RequestOK(req'[q])
  BY HandlerKeeps DEF IInv
<1>3. CASE BodyFails(q) \/ Finish(q) \/ CallCut(q) \/ (UpstreamAnswers(q) /\ Write(q))
  BY <1>3, WriteEnds DEF BodyFails, Finish, CallCut
<1>4. CASE ReadBody(q)
  <2>1. req'[q] = [req[q] EXCEPT !.pc = "body"] /\ req[q].pc = "run"
    BY <1>1, <1>4 DEF ReadBody
  <2>2. /\ req'[q].kind = req[q].kind /\ req'[q].calls = req[q].calls
        /\ req'[q].input = req[q].input /\ req'[q].pc = "body"
    BY <1>1, <2>1 DEF ReqState
  <2> QED BY <1>1, <1>2, <2>1, <2>2, Nearer DEF Distance
<1>5. CASE Call(q)
  <2>1. /\ req'[q] = [req[q] EXCEPT !.pc = "call", !.wait = 0, !.calls = @ + 1]
        /\ req[q].pc = "run"
    BY <1>1, <1>5 DEF Call
  <2>2. /\ req'[q].kind = req[q].kind /\ req'[q].calls = req[q].calls + 1
        /\ req'[q].input = req[q].input /\ req'[q].pc = "call"
    BY <1>1, <2>1 DEF ReqState
  <2> QED BY <1>1, <1>2, <2>1, <2>2, Nearer DEF Distance
<1>6. CASE BodyRead(q)
  <2>1. PICK i \in {"rest", "done"} \ {req[q].input} :
            req' = [req EXCEPT ![q].pc = "run", ![q].input = i]
    BY <1>6 DEF BodyRead
  <2>2. /\ req'[q] = [req[q] EXCEPT !.pc = "run", !.input = i] /\ req[q].pc = "body"
        /\ req[q].input # "done"
    BY <1>1, <1>6, <2>1 DEF BodyRead, RequestOK
  <2>3. /\ req'[q].kind = req[q].kind /\ req'[q].calls = req[q].calls
        /\ req'[q].input = i /\ req'[q].pc = "run"
    BY <1>1, <2>2 DEF ReqState
  <2>4. \/ req[q].input = "unread" /\ req'[q].input # "unread"
        \/ req[q].input = "rest" /\ req'[q].input = "done"
    BY <1>1, <2>2, <2>3 DEF ReqState
  <2> QED BY <1>1, <1>2, <2>2, <2>3, <2>4, Nearer DEF Distance
<1>7. CASE UpstreamAnswers(q) /\ ~ Write(q)
  <2>1. req'[q] = [req[q] EXCEPT !.pc = "run", !.wait = 0] /\ req[q].pc = "call"
    BY <1>1, <1>7 DEF UpstreamAnswers
  <2>2. /\ req'[q].kind = req[q].kind /\ req'[q].calls = req[q].calls
        /\ req'[q].input = req[q].input /\ req'[q].pc = "run"
    BY <1>1, <2>1 DEF ReqState
  <2> QED BY <1>1, <1>2, <2>1, <2>2, Nearer DEF Distance
<1>8. CASE ClientLeaves(q)
  <2>1. req'[q] = [req[q] EXCEPT !.client = "gone"]
    BY <1>1, <1>8 DEF ClientLeaves
  <2>2. /\ req'[q].kind = req[q].kind /\ req'[q].calls = req[q].calls
        /\ req'[q].input = req[q].input /\ req'[q].pc = req[q].pc
    BY <1>1, <2>1 DEF ReqState
  <2> QED BY <1>1, <1>2, <1>8, <2>2, Nearer DEF Distance
<1>9. \A k \in Kind : ~ Arrive(q, k)
  BY DEF Arrive, AtWork
<1> QED
  BY <1>3, <1>4, <1>5, <1>6, <1>7, <1>8, <1>9 DEF HandlerStep, Environment

\* A step of the handler, or of those it waits for, is no departure of the client.
LEMMA StepsMove ==
    ASSUME IInv, NEW q \in Request, AtWork(q), AtWork(q)',
           HandlerStep(q) \/ BodyRead(q) \/ UpstreamAnswers(q)
    PROVE  ~ (req'[q].pc = req[q].pc /\ req'[q].calls = req[q].calls)
<1>1. DOMAIN req = Request /\ req[q] \in ReqState
  BY DEF IInv, RequestOK
<1>2. ~ Write(q)
  BY WriteEnds
<1>3. CASE Call(q)
  BY <1>1, <1>3 DEF Call, ReqState
<1>4. CASE BodyRead(q)
  <2>1. req'[q].pc = "run" /\ req[q].pc = "body"
    BY <1>1, <1>4 DEF BodyRead, ReqState
  <2> QED BY <2>1
<1>5. CASE UpstreamAnswers(q)
  BY <1>1, <1>2, <1>5 DEF UpstreamAnswers, ReqState
<1>6. CASE ReadBody(q)
  BY <1>1, <1>6 DEF ReadBody, ReqState
<1> QED BY <1>2, <1>3, <1>4, <1>5, <1>6 DEF HandlerStep, BodyFails, Finish, CallCut

\* Time brings no handler anywhere, and main() only ends them all.
LEMMA TimeKeepsDistance ==
    ASSUME IInv, NEW q \in Request, Tick \/ Main \/ UNCHANGED vars
    PROVE  /\ InFlight(q)' => InFlight(q)
           /\ InFlight(q)' => Distance(q)' = Distance(q)
<1>1. CASE Main \/ UNCHANGED vars
  <2>1. req' = req \/ ~ InFlight(q)'
    BY <1>1, MainSteps, EndKeeps DEF vars
  <2> QED BY <2>1 DEF InFlight, Distance
<1>2. CASE Tick
  <2>1. req'[q] = Aged(req[q]) /\ ~ Urgent(q) /\ RequestOK(req[q]) /\ Covers(req[q], drain)
    BY <1>2 DEF Tick, IInv
  <2>2. drain \in Int
    <3>1. drain \in 0 .. ShutdownLimit
      BY DEF IInv, PhaseOK
    <3> QED BY <3>1 DEF ShutdownLimit
  <2>3. /\ RequestOK(req'[q]) /\ req'[q].pc = req[q].pc /\ req'[q].kind = req[q].kind
        /\ req'[q].calls = req[q].calls /\ req'[q].input = req[q].input
    <3>1. /\ req[q].pc # "run"
          /\ ~ (req[q].pc = "call" /\ req[q].kind = "exchange" /\ req[q].wait = IssuerTimeout)
      BY <2>1 DEF Urgent, CallOver
    <3> QED BY <2>1, <2>2, <3>1, AgedOK
  <2> QED BY <2>1, <2>3, Nearer DEF InFlight, Distance
<1> QED BY <1>1, <1>2

\* No request keeps its handler for ever, but for a call that headscale never
\* answers, made for a client that never leaves or that nobody looks out for:
\* the safety half of AbandonedHandlersEnd.
THEOREM HandlersEnd == Spec => []NobodyIsKept /\ HandlersDrawNear
<1>1. IInv => NobodyIsKept
  <2> SUFFICES ASSUME IInv, NEW q \in Request
               PROVE  /\ Distance(q) \in Nat
                      /\ AtWork(q) /\ req[q].client = "gone"
                            /\ (req[q].pc = "call" => req[q].input = "done")
                            => Urgent(q)
    BY DEF NobodyIsKept
  <2>1. Distance(q) \in Nat
    BY DistanceIsNat DEF IInv, Distance
  <2> QED BY <2>1 DEF AtWork, InFlight, Urgent, CallOver, BodyOver
<1>2. IInv /\ [Next]_vars =>
        [\A q \in Request :
            AtWork(q) =>
               \/ ~ AtWork(q)'
               \/ /\ Distance(q)' <= Distance(q)
                  /\ HandlerStep(q) \/ BodyRead(q) \/ UpstreamAnswers(q)
                        => Distance(q)' < Distance(q)]_vars
  <2> SUFFICES ASSUME IInv, [Next]_vars, NEW q \in Request, AtWork(q), AtWork(q)'
               PROVE  /\ Distance(q)' <= Distance(q)
                      /\ HandlerStep(q) \/ BodyRead(q) \/ UpstreamAnswers(q)
                            => Distance(q)' < Distance(q)
    OBVIOUS
  <2>1. Distance(q) \in Int /\ Distance(q)' \in Int
    <3>1. RequestOK(req[q]) /\ RequestOK(req'[q])
      BY HandlerKeeps, TickKeeps, MainKeeps DEF Next, Exited, vars, IInv
    <3>2. DistanceOf(req[q]) \in Nat /\ DistanceOf(req'[q]) \in Nat
      BY <3>1, DistanceIsNat
    <3> QED BY <3>2 DEF Distance
  <2>2. ASSUME HandlerStep(q) \/ BodyRead(q) \/ UpstreamAnswers(q)
        PROVE  Distance(q)' < Distance(q)
    <3>1. ~ (req'[q].pc = req[q].pc /\ req'[q].calls = req[q].calls)
      BY <2>2, StepsMove
    <3> QED BY <2>2, <3>1, HandlerDrawsNear DEF Environment
  <2>3. ASSUME ClientLeaves(q) \/ \E k \in Kind : Arrive(q, k)
        PROVE  Distance(q)' <= Distance(q)
    BY <2>1, <2>3, HandlerDrawsNear DEF Environment
  <2>4. ASSUME NEW p \in Request, p # q, HandlerStep(p) \/ Environment(p)
        PROVE  Distance(q)' = Distance(q)
    BY <2>4, OthersUntouched DEF Distance
  <2>5. ASSUME Tick \/ Main \/ UNCHANGED vars PROVE Distance(q)' = Distance(q)
    BY <2>5, TimeKeepsDistance DEF AtWork
  <2>6. Distance(q)' <= Distance(q)
    BY <2>1, <2>2, <2>3, <2>4, <2>5 DEF Next, Exited, Environment
  <2> QED BY <2>2, <2>6
<1> QED BY <1>1, <1>2, Invariance, PTL DEF Spec, HandlersDrawNear

\* A drain goes on until the process ends: the safety half of
\* SignalEndsProcess.
THEOREM DrainGoesOn == Spec => DrainAdvances
<1>1. IInv /\ [Next]_vars =>
        [phase = "draining" =>
            \/ phase' = "exited"
            \/ /\ phase' = "draining"
               /\ \A q \in Request : InFlight(q)' => InFlight(q)
               /\ drain' = IF Tick THEN drain + 1 ELSE drain]_vars
  <2> SUFFICES ASSUME IInv, [Next]_vars, phase = "draining", phase' # "exited"
               PROVE  /\ phase' = "draining"
                      /\ \A q \in Request : InFlight(q)' => InFlight(q)
                      /\ drain' = IF Tick THEN drain + 1 ELSE drain
    OBVIOUS
  <2>1. CASE Tick
    BY <2>1, TimeKeepsDistance DEF Tick
  <2>2. CASE Main /\ ~ Tick
    <3>1. UNCHANGED vars
      BY <2>2, MainSteps, EndKeeps
    <3> QED BY <2>2, <3>1 DEF vars, InFlight
  <2>3. CASE UNCHANGED vars /\ ~ Tick
    BY <2>3 DEF vars, InFlight
  <2>4. ASSUME NEW p \in Request, HandlerStep(p) \/ Environment(p), ~ Tick
        PROVE  /\ UNCHANGED <<phase, drain>>
               /\ \A q \in Request : InFlight(q)' => InFlight(q)
    <3>1. UNCHANGED <<phase, drain>> /\ \A q \in Request : q # p => req'[q] = req[q]
      BY <2>4, OthersUntouched
    <3>2. InFlight(p)' => InFlight(p)
      BY <2>4 DEF HandlerStep, Environment, ReadBody, BodyFails, Finish, Call, CallCut,
                  Arrive, BodyRead, ClientLeaves, UpstreamAnswers, InFlight
    <3> QED BY <3>1, <3>2 DEF InFlight
  <2> QED BY <2>1, <2>2, <2>3, <2>4 DEF Next, Exited
<1> QED BY <1>1, Invariance, PTL DEF Spec, DrainAdvances
================================================================================
