----------------------------- MODULE PolicyApi_proofs -----------------------------
(***************************************************************************)
(* TurnsKeepRules for any number of clients and rules.  The invariant is   *)
(* not inductive: a rule may also be lost by what a client in the middle   *)
(* of its cycle has read, or by a POST that headscale has yet to execute.  *)
(* As long as clients take turns, and no failed GET is taken for an empty  *)
(* policy, neither lacks an acknowledged rule.                             *)
(***************************************************************************)
EXTENDS PolicyApi, TLAPS

\* A client in the middle of its cycle has a rule to add.
RulesChosen == \A c \in Client : cycle[c].pc # "idle" => cycle[c].rule \in Rule

\* One cycle at a time, and none while a failed POST may still be executed.
InTurns ==
    /\ \A c, d \in Client : cycle[c].pc # "idle" /\ cycle[d].pc # "idle" => c = d
    /\ late # {} => \A c \in Client : cycle[c].pc = "idle"

\* Whatever may become the policy has all acknowledged rules.
NothingLost ==
    /\ kept \subseteq policy
    /\ \A p \in late : kept \subseteq p
    /\ \A c \in Client : cycle[c].pc = "set" => kept \subseteq cycle[c].read

WellFormed == TypeOK /\ RulesChosen
IInv == WellFormed /\ (~ overlapped /\ ~ unknown => InTurns /\ NothingLost)

\* Every initial state is well formed.
LEMMA WellFormedInit == Init => WellFormed
<1> SUFFICES ASSUME Init PROVE WellFormed
  OBVIOUS
<1>1. faults \in 0 .. MaxFaults
  BY FaultAssumption DEF Init
<1>2. Idle \in [pc : {"idle", "get", "set"}, read : SUBSET Rule, rule : Rule \cup {NoRule}]
  BY DEF Idle
<1>3. cycle \in [Client -> [pc : {"idle", "get", "set"}, read : SUBSET Rule,
                          rule : Rule \cup {NoRule}]]
  BY <1>2 DEF Init
<1>4. RulesChosen
  BY DEF Init, RulesChosen, Idle
<1> QED BY <1>1, <1>3, <1>4 DEF Init, WellFormed, TypeOK

\* Every step leaves the model well formed.
LEMMA WellFormedStep == WellFormed /\ [Next]_vars => WellFormed'
<1> SUFFICES ASSUME WellFormed, [Next]_vars PROVE WellFormed'
  OBVIOUS
<1> USE DEF WellFormed, TypeOK, RulesChosen, Idle
<1>1. ASSUME NEW c \in Client, NEW r \in Rule, Begin(c, r) PROVE WellFormed'
  BY <1>1 DEF Begin
<1>2. ASSUME NEW c \in Client, GetPolicy(c) PROVE WellFormed'
  <2>1. CASE policy # Unset
    BY <1>2, <2>1 DEF GetPolicy, Got
  <2>2. CASE policy = Unset
    BY <1>2, <2>2 DEF GetPolicy, Got, GiveUp
  <2> QED BY <2>1, <2>2
<1>3. ASSUME NEW c \in Client, GetFails(c) PROVE WellFormed'
  <2>1. faults' \in 0 .. MaxFaults
    BY <1>3, FaultAssumption DEF GetFails
  <2>2. Got(c, {}) \/ GiveUp(c)
    BY <1>3 DEF GetFails
  <2> QED BY <1>3, <2>1, <2>2 DEF GetFails, Got, GiveUp
<1>4. ASSUME NEW c \in Client, SetPolicy(c) PROVE WellFormed'
  BY <1>4 DEF SetPolicy, Body
<1>5. ASSUME NEW c \in Client, SetRefused(c) PROVE WellFormed'
  BY <1>5 DEF SetRefused, GiveUp
<1>6. ASSUME NEW c \in Client, SetFails(c) PROVE WellFormed'
  <2>1. faults' \in 0 .. MaxFaults
    BY <1>6, FaultAssumption DEF SetFails
  <2>2. Body(c) \in SUBSET Rule
    BY <1>6 DEF SetFails, Body
  <2> QED BY <1>6, <2>1, <2>2 DEF SetFails, GiveUp
<1>7. ASSUME NEW p \in late, Late(p) PROVE WellFormed'
  BY <1>7 DEF Late
<1>8. CASE UNCHANGED vars
  BY <1>8 DEF vars
<1> QED BY <1>1, <1>2, <1>3, <1>4, <1>5, <1>6, <1>7, <1>8 DEF Next

\* As long as GetPolicy tells a failed call from a missing policy, clients that
\* take turns lose nothing in any step.
LEMMA TurnsStep ==
    ASSUME WellFormed, [Next]_vars, ~ overlapped', ~ unknown',
           ~ overlapped /\ ~ unknown => InTurns /\ NothingLost
    PROVE  InTurns' /\ NothingLost'
<1> USE DEF WellFormed, TypeOK, InTurns, NothingLost, Idle
<1>0. ~ overlapped /\ ~ unknown
  BY DEF Next, vars, Begin, GetPolicy, GetFails, SetPolicy, SetRefused, SetFails, Late
<1> USE <1>0
<1>1. ASSUME NEW c \in Client, NEW r \in Rule, Begin(c, r) PROVE InTurns' /\ NothingLost'
  <2>1. late = {} /\ \A d \in Client : cycle[d].pc = "idle"
    BY <1>1 DEF Begin
  <2>2. \A d \in Client \ {c} : cycle'[d].pc = "idle"
    BY <1>1, <2>1 DEF Begin
  <2>3. cycle'[c].pc = "get"
    BY <1>1 DEF Begin
  <2> QED BY <1>1, <2>1, <2>2, <2>3 DEF Begin
<1>2. ASSUME NEW c \in Client, GetPolicy(c) PROVE InTurns' /\ NothingLost'
  <2>1. CASE policy # Unset
    BY <1>2, <2>1 DEF GetPolicy, Got
  <2>2. CASE policy = Unset
    <3>1. kept = {}
      BY <2>2, NoRuleAssumption DEF Unset
    <3> QED BY <1>2, <2>2, <3>1 DEF GetPolicy, Got, GiveUp
  <2> QED BY <2>1, <2>2
<1>3. ASSUME NEW c \in Client, GetFails(c) PROVE InTurns' /\ NothingLost'
  <2>1. PICK code \in FaultCode :
            /\ IF code \in EmptyFor THEN Got(c, {}) ELSE GiveUp(c)
            /\ unknown' = (unknown \/ code = "Unknown")
    BY <1>3 DEF GetFails
  <2>2. code \notin EmptyFor
    BY <2>1, FaultAssumption DEF EmptyFor, Ambiguous
  <2> QED BY <1>3, <2>1, <2>2 DEF GetFails, GiveUp
<1>4. ASSUME NEW c \in Client, SetPolicy(c) PROVE InTurns' /\ NothingLost'
  <2>1. late = {}
    BY <1>4 DEF SetPolicy
  <2>2. \A d \in Client : cycle'[d].pc = "idle"
    BY <1>4 DEF SetPolicy
  <2> QED BY <1>4, <2>1, <2>2 DEF SetPolicy, Body
<1>5. ASSUME NEW c \in Client, SetRefused(c) PROVE InTurns' /\ NothingLost'
  BY <1>5 DEF SetRefused, GiveUp
<1>6. ASSUME NEW c \in Client, SetFails(c) PROVE InTurns' /\ NothingLost'
  <2>1. \A d \in Client : cycle'[d].pc = "idle"
    BY <1>6 DEF SetFails, GiveUp
  <2> QED BY <1>6, <2>1 DEF SetFails, GiveUp, Body
<1>7. ASSUME NEW p \in late, Late(p) PROVE InTurns' /\ NothingLost'
  BY <1>7 DEF Late
<1>8. CASE UNCHANGED vars
  BY <1>8 DEF vars
<1> QED BY <1>1, <1>2, <1>3, <1>4, <1>5, <1>6, <1>7, <1>8 DEF Next

\* The model is well typed: headscale never stores anything but rules that
\* were there or that a client has sent (GetPolicy, SetPolicy).
THEOREM PolicyTypeCorrect == Spec => []TypeOK
<1>1. Init => WellFormed
  BY WellFormedInit
<1>2. WellFormed => TypeOK
  BY DEF WellFormed
<1> QED BY <1>1, <1>2, WellFormedStep, PTL DEF Spec

\* Clients that take turns, and wait out a POST that has failed, never lose a
\* rule whose addition was answered 200, unless a call of GetPolicy has failed
\* with Unknown (GetPolicy, SetPolicy).
THEOREM RulesAreKept == Spec => []TurnsKeepRules
<1>1. Init => IInv
  BY WellFormedInit DEF Init, IInv, InTurns, NothingLost, Idle
<1>2. IInv /\ [Next]_vars => IInv'
  BY WellFormedStep, TurnsStep DEF IInv
<1>3. IInv => TurnsKeepRules
  BY DEF IInv, NothingLost, TurnsKeepRules
<1> QED BY <1>1, <1>2, <1>3, PTL DEF Spec
==================================================================================
