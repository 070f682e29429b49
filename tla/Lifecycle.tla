------------------------------- MODULE Lifecycle -------------------------------
(***************************************************************************)
(* The life of one headtotails process (cmd/headtotails/main.go): start,   *)
(* the HTTP server with its timeouts, the drain that a signal begins, and  *)
(* the ways the process ends, while handlers wait for the body of their    *)
(* request, for the OIDC issuer or for headscale.                          *)
(*                                                                         *)
(* Time passes in ticks of 5 s, the common divisor of the timeouts.  What  *)
(* a handler or main does on its own takes no time: a tick waits for the   *)
(* steps that are due (Urgent, Notify).  The age of a request is counted   *)
(* up to the point where WriteTimeout is over.                             *)
(*                                                                         *)
(* net/http looks out for a client that goes away only once the body of    *)
(* its request has been read to its end.  policy.go and devices.go read it *)
(* before their call, CreateKey after ListUsers; the token endpoints read  *)
(* a form before everything else, and nothing that is not a form; many     *)
(* handlers never read what a client may send them.                        *)
(***************************************************************************)
EXTENDS Integers

CONSTANTS
    Request,         \* the requests that may be in flight at the same time
    HeadscaleCalls   \* the most calls a handler of a headscale route makes

ASSUME HeadscaleCallsAssumption == HeadscaleCalls \in Nat \ {0}

VARIABLES
    phase,   \* how far main() has got
    exit,    \* how the process has ended
    drain,   \* for how long Shutdown has been waiting
    req      \* req[q]: request q, its handler and its client

vars == <<phase, exit, drain, req>>

\* Timeouts, in ticks.  The values of http.Server, of the HTTP client for
\* the issuer, and of the context of Shutdown; a mutant beside them.
ReadTimeout == 3
WriteTimeout10s == 2
WriteTimeout == 3
IssuerTimeout == 2
ShutdownLimit == 6

\* A handler that calls nobody, the token exchange, and the handlers of the
\* headscale routes; how many calls in sequence each may make: discovery and
\* fetch for the exchange, and up to the four of DELETE on a key.
Kind == {"local", "exchange", "headscale"}
MaxCalls == [local |-> 0, exchange |-> 2, headscale |-> HeadscaleCalls]

\* pc "body": the body is being read; "run": the handler is computing; "call":
\* it waits for a call; "lost": it has answered, too late for its client.
\* input: "unread" is a body nobody has read, "rest" one whose end has not been
\* seen, "done" one that has been read to its end, or none at all; body: whether
\* reading it took time; wait: the time spent in the present call to the issuer;
\* client: whether it still waits.
Idle == [pc |-> "idle", kind |-> "local", age |-> 0, wait |-> 0, input |-> "done",
         body |-> "prompt", calls |-> 0, client |-> "there"]
ReqState ==
    [pc : {"idle", "body", "run", "call", "lost"}, kind : Kind,
     age : 0 .. (WriteTimeout + 1), wait : 0 .. IssuerTimeout,
     input : {"unread", "rest", "done"}, body : {"prompt", "slow"},
     calls : Nat, client : {"there", "gone"}]

Up == phase \in {"listening", "serving", "draining"}
InFlight(q) == req[q].pc \in {"body", "run", "call"}

Init ==
    /\ phase = "starting"
    /\ exit = "none"
    /\ drain = 0
    /\ req = [q \in Request |-> Idle]

-------------------------------------------------------------------------------
(* main().                                                                  *)

\* The process ends, and everything in it.
End(how) ==
    /\ phase' = "exited" /\ exit' = how
    /\ req' = [q \in Request |-> Idle]
    /\ UNCHANGED drain

\* Configuration, logging, TLS files and router are in order, and the server's
\* goroutine listens; or one of them is not, and nothing is ever served.
Start ==
    /\ phase = "starting"
    /\ \/ phase' = "listening" /\ UNCHANGED <<exit, drain, req>>
       \/ End("not started")

\* signal.Notify: until then a signal has its default effect.
Notify ==
    /\ phase = "listening"
    /\ phase' = "serving"
    /\ UNCHANGED <<exit, drain, req>>

\* SIGTERM or SIGINT.  Nobody reads a second one.
Signal ==
    \/ phase = "listening" /\ End("killed")
    \/ /\ phase = "serving"
       /\ phase' = "draining"
       /\ UNCHANGED <<exit, drain, req>>

\* Mutant: ErrServerClosed is not told from a failure.
AnyIsFatal(err) == TRUE

Fatal(err) == err # "closed"

\* ListenAndServe returns: it has failed (the port is taken, Accept fails for
\* good), or Shutdown has made it return ErrServerClosed.
ServerReturns ==
    \E err \in {"closed", "failed"} :
        /\ phase \in IF err = "closed" THEN {"draining"} ELSE {"listening", "serving"}
        /\ IF Fatal(err) THEN End("server error") ELSE UNCHANGED vars

\* srv.Shutdown finds every connection idle.
Drained ==
    /\ phase = "draining"
    /\ \A q \in Request : ~ InFlight(q)
    /\ End("stopped")

\* Mutant: Shutdown gets a context without a deadline.
NoLimit == FALSE /\ UNCHANGED vars

\* The context of srv.Shutdown is over.
DrainTimeout == phase = "draining" /\ drain = ShutdownLimit /\ End("shutdown error")

-------------------------------------------------------------------------------
(* The server and its handlers.                                             *)

\* The header of a request has been read; Shutdown lets no more in.  The request
\* has a body or none.
Arrive(q, k) ==
    /\ phase \in {"listening", "serving"}
    /\ ~ InFlight(q)
    /\ \E i \in {"unread", "done"} :
          req' = [req EXCEPT ![q] = [Idle EXCEPT !.pc = "run", !.kind = k, !.input = i]]
    /\ UNCHANGED <<phase, exit, drain>>

\* The handler turns to the body (ParseForm, Decode, ReadAll), or net/http does
\* before it writes the answer, to get rid of what the handler has left.
ReadBody(q) ==
    /\ Up /\ req[q].pc = "run" /\ req[q].input # "done"
    /\ req' = [req EXCEPT ![q].pc = "body"]
    /\ UNCHANGED <<phase, exit, drain>>

\* It has come, if need be from before its client left.  Decode stops at the end
\* of the JSON value, which need not be the end of the body; ParseForm does not.
BodyRead(q) ==
    /\ Up /\ req[q].pc = "body"
    /\ \E i \in {"rest", "done"} \ {req[q].input} :
          /\ req[q].kind = "exchange" => i = "done"
          /\ req' = [req EXCEPT ![q].pc = "run", ![q].input = i]
    /\ UNCHANGED <<phase, exit, drain>>

\* The client goes away, noticed or not.
ClientLeaves(q) ==
    /\ Up /\ InFlight(q)
    /\ req' = [req EXCEPT ![q].client = "gone"]
    /\ UNCHANGED <<phase, exit, drain>>

\* The handler writes its answer: after WriteTimeout it is lost (writeJSON ignores
\* the error); a client that has gone misses nothing.
Write(q) ==
    /\ \/ /\ req[q].client = "gone" \/ req[q].age <= WriteTimeout
          /\ req' = [req EXCEPT ![q] = Idle]
       \/ /\ req[q].client = "there" /\ req[q].age >= WriteTimeout
          /\ req' = [req EXCEPT ![q] =
                        [Idle EXCEPT !.pc = "lost", !.kind = req[q].kind,
                                     !.body = req[q].body, !.calls = req[q].calls]]
    /\ UNCHANGED <<phase, exit, drain>>

\* The body does not come, or not within ReadTimeout of the request's arrival.
BodyOver(q) == req[q].client = "gone" \/ req[q].age >= ReadTimeout

BodyFails(q) == Up /\ req[q].pc = "body" /\ BodyOver(q) /\ Write(q)

Finish(q) == Up /\ req[q].pc = "run" /\ Write(q)

\* Mutant: a failed call is tried again and again.
CallUnbounded(q) ==
    /\ Up /\ req[q].pc = "run" /\ req[q].kind # "local"
    /\ req' = [req EXCEPT ![q].pc = "call", ![q].wait = 0, ![q].calls = @ + 1]
    /\ UNCHANGED <<phase, exit, drain>>

Call(q) ==
    /\ Up /\ req[q].pc = "run"
    /\ req[q].calls < MaxCalls[req[q].kind]
    /\ req' = [req EXCEPT ![q].pc = "call", ![q].wait = 0, ![q].calls = @ + 1]
    /\ UNCHANGED <<phase, exit, drain>>

\* Mutant: the calls are made with a context that is not the request's.
OverOnTimeout(q) == req[q].kind = "exchange" /\ req[q].wait = IssuerTimeout

\* The context of the call is over: the client has gone, which is noticed when
\* the body is at its end, or the timeout of the HTTP client.  The gRPC calls
\* have no deadline.
CallOver(q) ==
    \/ req[q].client = "gone" /\ req[q].input = "done"
    \/ req[q].kind = "exchange" /\ req[q].wait = IssuerTimeout

CallCut(q) == Up /\ req[q].pc = "call" /\ CallOver(q) /\ Write(q)

\* The issuer or headscale answers, with an error maybe, or never.  (The second
\* alternative is also that of net/http ending the request's context itself,
\* as it may once ReadTimeout is over.)
UpstreamAnswers(q) ==
    /\ Up /\ req[q].pc = "call"
    /\ \/ /\ req' = [req EXCEPT ![q].pc = "run", ![q].wait = 0]
          /\ UNCHANGED <<phase, exit, drain>>
       \/ Write(q)

-------------------------------------------------------------------------------
(* Time.                                                                    *)

Urgent(q) ==
    \/ req[q].pc = "run"
    \/ req[q].pc = "body" /\ BodyOver(q)
    \/ req[q].pc = "call" /\ CallOver(q)

Aged(x) ==
    IF x.pc \notin {"body", "run", "call"} THEN x
    ELSE [x EXCEPT !.age = IF @ > WriteTimeout THEN @ ELSE @ + 1,
                   !.body = IF x.pc = "body" /\ x.kind = "exchange" THEN "slow" ELSE @,
                   !.wait = IF x.pc = "call" /\ x.kind = "exchange" THEN @ + 1 ELSE @]

Tick ==
    /\ phase \in {"serving", "draining"}
    /\ \A q \in Request : ~ Urgent(q)
    /\ phase = "draining" => drain < ShutdownLimit /\ \E q \in Request : InFlight(q)
    /\ drain' = IF phase = "draining" THEN drain + 1 ELSE drain
    /\ req' = [q \in Request |-> Aged(req[q])]
    /\ UNCHANGED <<phase, exit>>

-------------------------------------------------------------------------------
Main == Start \/ Notify \/ Signal \/ ServerReturns \/ Drained \/ DrainTimeout

\* The steps a handler takes by itself.
HandlerStep(q) == ReadBody(q) \/ BodyFails(q) \/ Finish(q) \/ Call(q) \/ CallCut(q)

Environment(q) ==
    \/ \E k \in Kind : Arrive(q, k)
    \/ BodyRead(q) \/ ClientLeaves(q) \/ UpstreamAnswers(q)

\* A process that has exited stays so.
Exited == phase = "exited" /\ UNCHANGED vars

Next == Main \/ Tick \/ Exited \/ \E q \in Request : HandlerStep(q) \/ Environment(q)

Spec == Init /\ [][Next]_vars

\* Time passes, what is due is done, and nothing else is promised: headscale
\* may never answer, and a client may never leave.
FairSpec ==
    /\ Spec
    /\ WF_vars(Notify \/ Drained \/ DrainTimeout) /\ WF_vars(Tick)
    /\ \A q \in Request : WF_vars(HandlerStep(q))
-------------------------------------------------------------------------------
(* Properties.                                                              *)

TypeOK ==
    /\ phase \in {"starting", "listening", "serving", "draining", "exited"}
    /\ exit \in {"none", "not started", "stopped", "shutdown error", "server error", "killed"}
    /\ drain \in 0 .. ShutdownLimit
    /\ req \in [Request -> ReqState]
    /\ \A q \in Request : req[q].calls <= MaxCalls[req[q].kind]

\* The drain that a signal begins takes no client's answer: whatever ends the
\* process then, a request that it cuts had outlived WriteTimeout, so that its
\* answer was lost before.  That Shutdown waits for handlers, that its 30 s are
\* more than the 15 s of WriteTimeout, and that ErrServerClosed, which Shutdown
\* provokes, does not end the process all have a part in it (main.go).
DrainCostsNoAnswer ==
    [][phase = "draining" /\ phase' = "exited"
          => \A q \in Request : InFlight(q) => req[q].age > WriteTimeout]_vars

\* A token exchange whose reply is lost though its client has stayed and sent
\* the body at once has waited for two slow calls to the issuer: one alone,
\* cut after 10 s, leaves WriteTimeout time for the answer.  (The token of a
\* lost reply stays in the store until it lapses.)
LostExchangeWaitedTwice ==
    \A q \in Request :
        req[q].pc = "lost" /\ req[q].kind = "exchange" /\ req[q].body = "prompt"
            => req[q].calls = 2

\* A signal ends the process, even if headscale hangs and no client leaves.
SignalEndsProcess == phase = "draining" ~> phase = "exited"

\* A handler whose client has gone does not wait for headscale for ever, if the
\* body has been read to its end: its gRPC calls, which have no deadline, end
\* with the context of the request.  Not so before: CreateKey's ListUsers, and
\* the calls of a handler that leaves a body unread, may hang without a client.
AbandonedHandlersEnd ==
    \A q \in Request :
        (Up /\ InFlight(q) /\ req[q].client = "gone" /\ req[q].input = "done")
            ~> (~ InFlight(q) \/ ~ Up)
================================================================================
