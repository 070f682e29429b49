-------------------------------- MODULE PolicyApi --------------------------------
(***************************************************************************)
(* The policy routes (internal/api/policy.go) under clients that do what   *)
(* such an interface is for: GET the policy, add a rule, POST the result.  *)
(* The interface has no version or ETag to guard the POST.  A POST whose   *)
(* call fails is answered 500, yet headscale may execute it later.         *)
(*                                                                         *)
(* A policy is the set of its rules.  headtotails keeps nothing between    *)
(* two requests, so that for these routes a crash is the failure of every  *)
(* call in flight.                                                         *)
(***************************************************************************)
EXTENDS Upstream, Naturals

CONSTANTS
    Client,
    Rule,
    NoRule,     \* no member of Rule
    FaultCode,  \* codes that failing calls end with
    MaxFaults   \* bound on failed calls in a run

ASSUME NoRuleAssumption == NoRule \notin Rule
ASSUME FaultAssumption == FaultCode \subseteq Ambiguous /\ MaxFaults \in Nat

VARIABLES
    policy,      \* what headscale has stored
    late,        \* policies of POSTs answered 500 that may still be executed
    cycle,       \* cycle[c]: where client c is in its GET, edit, POST
    faults,      \* failed calls so far
    kept,        \* history: the rules whose addition was answered 200
    overlapped,  \* history: has a cycle begun while another, or a late POST, was on?
    unknown      \* history: has a GetPolicy call failed with the code Unknown?

\* headscale has no policy.
Unset == {NoRule}

vars == <<policy, late, cycle, faults, kept, overlapped, unknown>>

\* read: the answer of the GET; rule: the rule to be added.
Idle == [pc |-> "idle", read |-> {}, rule |-> NoRule]

Init ==
    /\ policy \in {Unset} \cup SUBSET Rule
    /\ late = {}
    /\ cycle = [c \in Client |-> Idle]
    /\ faults = 0
    /\ kept = {}
    /\ overlapped = FALSE /\ unknown = FALSE

Begin(c, r) ==
    /\ cycle[c].pc = "idle"
    /\ cycle' = [cycle EXCEPT ![c] = [Idle EXCEPT !.pc = "get", !.rule = r]]
    /\ overlapped' = (overlapped \/ late # {} \/ \E d \in Client : cycle[d].pc # "idle")
    /\ UNCHANGED <<policy, late, faults, kept, unknown>>

\* The client gives up.
GiveUp(c) == cycle' = [cycle EXCEPT ![c] = Idle]

-------------------------------------------------------------------------------
(* GetPolicy.                                                               *)

\* Mutant: every failure of the call yields the default.
EmptyIfFailed == {"NotFound"} \cup Ambiguous

\* The codes that are answered with the policy "{}" and 200.
EmptyFor == {"NotFound", "Unknown"}

Got(c, p) == cycle' = [cycle EXCEPT ![c].pc = "set", ![c].read = p]

\* Mutant: the error is not looked at.
GetUnchecked(c) ==
    /\ cycle[c].pc = "get"
    /\ Got(c, policy)
    /\ UNCHANGED <<policy, late, faults, kept, overlapped, unknown>>

\* headscale answers NotFound if it has no policy.
GetPolicy(c) ==
    /\ cycle[c].pc = "get"
    /\ IF policy # Unset THEN Got(c, policy)
       ELSE IF "NotFound" \in EmptyFor THEN Got(c, {}) ELSE GiveUp(c)
    /\ UNCHANGED <<policy, late, faults, kept, overlapped, unknown>>

GetFails(c) ==
    /\ cycle[c].pc = "get"
    /\ faults < MaxFaults
    /\ faults' = faults + 1
    /\ \E code \in FaultCode :
          /\ IF code \in EmptyFor THEN Got(c, {}) ELSE GiveUp(c)
          /\ unknown' = (unknown \/ code = "Unknown")
    /\ UNCHANGED <<policy, late, kept, overlapped>>

-------------------------------------------------------------------------------
(* SetPolicy: the body as it is, and an answer once headscale has given one. *)

Body(c) == cycle[c].read \cup {cycle[c].rule}

SetPolicy(c) ==
    /\ cycle[c].pc = "set"
    /\ policy' = Body(c)
    /\ kept' = kept \cup {cycle[c].rule}
    /\ cycle' = [cycle EXCEPT ![c] = Idle]
    /\ UNCHANGED <<late, faults, overlapped, unknown>>

\* The body cannot be read (400), or headscale rejects the policy.
SetRefused(c) ==
    /\ cycle[c].pc = "set"
    /\ GiveUp(c)
    /\ UNCHANGED <<policy, late, faults, kept, overlapped, unknown>>

\* The call fails, and the client is told 500.
SetFails(c) ==
    /\ cycle[c].pc = "set"
    /\ faults < MaxFaults
    /\ faults' = faults + 1
    /\ late' = late \cup {Body(c)}
    /\ GiveUp(c)
    /\ UNCHANGED <<policy, kept, overlapped, unknown>>

\* headscale executes such a call after all, or never will.
Late(p) ==
    /\ p \in late
    /\ late' = late \ {p}
    /\ policy' \in {p, policy}
    /\ UNCHANGED <<cycle, faults, kept, overlapped, unknown>>

-------------------------------------------------------------------------------
Next ==
    \/ \E c \in Client :
          \/ \E r \in Rule : Begin(c, r)
          \/ GetPolicy(c) \/ GetFails(c)
          \/ SetPolicy(c) \/ SetRefused(c) \/ SetFails(c)
    \/ \E p \in late : Late(p)

Spec == Init /\ [][Next]_vars
-------------------------------------------------------------------------------
(* Properties.                                                              *)

TypeOK ==
    /\ policy \in {Unset} \cup SUBSET Rule
    /\ late \subseteq SUBSET Rule
    /\ cycle \in [Client -> [pc : {"idle", "get", "set"}, read : SUBSET Rule,
                            rule : Rule \cup {NoRule}]]
    /\ faults \in 0 .. MaxFaults
    /\ kept \subseteq Rule
    /\ overlapped \in BOOLEAN /\ unknown \in BOOLEAN

\* As long as clients take turns, wait out a POST that has failed, and no call
\* of GetPolicy fails with Unknown, no rule whose addition was answered 200 is
\* lost: a GET whose call fails in any other way yields an error and not a
\* policy to build on, and what a failed POST may still do to headscale takes
\* nothing away (GetPolicy, SetPolicy).  Of clients that overlap, of a POST that
\* takes effect after another's, and of Unknown nothing is said: there rules
\* are lost.
TurnsKeepRules == ~ overlapped /\ ~ unknown => kept \subseteq policy

\* GetPolicy, lines 21 and 22: "headscale 0.28 returns NotFound when no policy
\* has been set yet. Return an empty default policy": a client that is given
\* an empty policy deals with a headscale that has none, or an empty one.
EmptyMeansUnset ==
    [][\A c \in Client :
          cycle[c].pc = "get" /\ cycle'[c].pc = "set" /\ cycle'[c].read = {}
             => policy \in {Unset, {}}]_vars
==================================================================================
