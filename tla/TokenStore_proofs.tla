--------------------------- MODULE TokenStore_proofs ---------------------------
(***************************************************************************)
(* Proofs about TokenStore, for every number of replicas, tokens and       *)
(* request goroutines, every TTL and every length of a run.                *)
(***************************************************************************)
EXTENDS TokenStore, TLAPS

\* Request q is inside a token endpoint, with a token it has generated.
Issuing(q) == req[q].pc \in {"store", "reply"}

\* A purge judges by a time that is not in the future.
SweepsLookBack == \A r \in Replica : sweep[r] # Absent => sweep[r] <= clock

\* Every expiry that is stored is the one its token was generated with.
StoredExpiries ==
    \A r \in Replica, t \in Token :
        tokens[r][t] # Absent => minted[t] # Absent /\ tokens[r][t] = minted[t] + TTL

\* A token being issued is new: nobody else issues it, nobody has been told it.
FreshIssues ==
    \A q \in Request :
        Issuing(q) =>
            /\ minted[req[q].cred] # Absent
            /\ req[q].exp = minted[req[q].cred] + TTL
            /\ grant[req[q].cred] = Absent
            /\ \A p \in Request \ {q} : Issuing(p) => req[p].cred # req[q].cred

\* The token table of r has t with expiry e, or has lost it only to time.
KeptUntil(r, t, e) ==
    \/ tokens[r][t] = e
    \/ tokens[r][t] = Absent /\ clock > e

StoredBeforeReply ==
    \A q \in Request :
        req[q].pc = "reply" => KeptUntil(req[q].at, req[q].cred, req[q].exp)

GrantsKept ==
    \A t \in Token :
        grant[t] # Absent =>
            /\ minted[t] # Absent
            /\ KeptUntil(grant[t].by, t, grant[t].until)

\* What the middleware knows of a request it has been handed.
JudgedRightly ==
    \A q \in Request :
        /\ req[q].pc = "decide" =>
              /\ minted[req[q].cred] # Absent
              /\ req[q].exp = minted[req[q].cred] + TTL
        /\ req[q].vouched =>
              /\ req[q].cred \in Token
              /\ grant[req[q].cred] # Absent
              /\ grant[req[q].cred].by = req[q].at
              /\ req[q].pc = "decide" => req[q].exp = grant[req[q].cred].until
              /\ req[q].pc = "unauthorized" => clock > grant[req[q].cred].until

IInv ==
    /\ TypesOK
    /\ SweepsLookBack
    /\ StoredExpiries
    /\ FreshIssues
    /\ StoredBeforeReply
    /\ GrantsKept
    /\ JudgedRightly

-------------------------------------------------------------------------------
(* Type correctness.                                                        *)

\* The initial state of every replica has the types of TypesOK.
LEMMA InitTypesOK == Init => TypesOK
  BY TimeAssumption
     DEF Init, TypesOK, Time, Expiry, ReqState, Idle, EmptyMap, Credential

\* What a look-up that finds an entry leaves in the locals of its request.
LEMMA EntryFound ==
    ASSUME req \in [Request -> ReqState], NEW q \in Request, NEW e \in Expiry,
           req' = [req EXCEPT ![q].pc = "decide", ![q].exp = e]
    PROVE  /\ req' \in [Request -> ReqState]
           /\ req'[q].pc = "decide" /\ req'[q].exp = e
           /\ req'[q].at = req[q].at /\ req'[q].cred = req[q].cred
           /\ req'[q].vouched = req[q].vouched
           /\ \A p \in Request : p # q => req'[p] = req[p]
<1>1. req[q] \in ReqState
  OBVIOUS
<1>2. req' = [req EXCEPT ![q] = [req[q] EXCEPT !.pc = "decide", !.exp = e]]
  OBVIOUS
<1>3. [req[q] EXCEPT !.pc = "decide", !.exp = e] \in ReqState
  BY <1>1 DEF ReqState
<1>4. req' \in [Request -> ReqState]
  BY <1>2, <1>3
<1>5. req'[q] = [req[q] EXCEPT !.pc = "decide", !.exp = e]
  BY <1>2
<1>6. /\ req'[q].pc = "decide" /\ req'[q].exp = e
      /\ req'[q].at = req[q].at /\ req'[q].cred = req[q].cred
      /\ req'[q].vouched = req[q].vouched
  BY <1>1, <1>5 DEF ReqState
<1>7. QED
  BY <1>2, <1>4, <1>6

\* No section of any goroutine, no tick and no restart breaks a type; above
\* all no expiry that is ever computed lies beyond the present plus TTL.
LEMMA NextTypesOK == TypesOK /\ [Next]_vars => TypesOK'
<1> SUFFICES ASSUME TypesOK, [Next]_vars PROVE TypesOK'
  OBVIOUS
<1> USE TimeAssumption DEF TypesOK, Time, Expiry, ReqState, Credential, Idle
<1>1. CASE Tick
  BY <1>1 DEF Tick
<1>2. ASSUME NEW q \in Request, NEW r \in Replica, NEW t \in Token, Mint(q, r, t)
      PROVE  TypesOK'
  BY <1>2 DEF Mint, Deadline
<1>3. ASSUME NEW q \in Request, Store(q) PROVE TypesOK'
  <2>1. req[q].at \in Replica /\ req[q].cred \in Token /\ req[q].exp \in 0 .. (MaxClock + TTL)
    BY <1>3 DEF Store
  <2>2. tokens' \in [Replica -> [Token -> 0 .. (MaxClock + TTL) \cup {Absent}]]
    BY <1>3, <2>1 DEF Store
  <2>3. req' = [req EXCEPT ![q].pc = "reply"]
    BY <1>3 DEF Store
  <2>4. QED
    BY <1>3, <2>1, <2>2, <2>3 DEF Store
<1>4. ASSUME NEW q \in Request, Reply(q) PROVE TypesOK'
  BY <1>4 DEF Reply, Idle
<1>5. ASSUME NEW q \in Request, ReplyLost(q) PROVE TypesOK'
  BY <1>5 DEF ReplyLost, Idle
<1>6. ASSUME NEW q \in Request, NEW r \in Replica, NEW c \in Credential, Arrive(q, r, c)
      PROVE  TypesOK'
  BY <1>6 DEF Arrive
<1>7. ASSUME NEW q \in Request, CheckStatic(q) PROVE TypesOK'
  <2>1. PICK v \in {"admitted", "unauthorized"} : req' = [req EXCEPT ![q].pc = v]
    BY <1>7 DEF CheckStatic
  <2>2. QED
    BY <1>7, <2>1 DEF CheckStatic
<1>8. ASSUME NEW q \in Request, Lookup(q) PROVE TypesOK'
  <2>1. CASE tokens[req[q].at][req[q].cred] = Absent
    <3>1. req' = [req EXCEPT ![q].pc = "unauthorized"]
      BY <1>8, <2>1 DEF Lookup
    <3>2. QED
      BY <1>8, <3>1 DEF Lookup
  <2>2. CASE tokens[req[q].at][req[q].cred] # Absent
    <3>1. req' = [req EXCEPT ![q].pc = "decide",
                             ![q].exp = tokens[req[q].at][req[q].cred]]
      BY <1>8, <2>2 DEF Lookup
    <3>2. tokens[req[q].at][req[q].cred] \in 0 .. (MaxClock + TTL)
      BY <1>8, <2>2 DEF Lookup
    <3>3. req[q].at \in Replica /\ req[q].cred \in Token
      BY <1>8 DEF Lookup
    <3> DEFINE entry == tokens[req[q].at][req[q].cred]
    <3>4. entry \in 0 .. (MaxClock + TTL)
      BY <3>2
    <3>5. req' = [req EXCEPT ![q].pc = "decide", ![q].exp = entry]
      BY <3>1
    <3> HIDE DEF entry
    <3>6. /\ req' \in [Request -> ReqState]
          /\ req'[q].pc = "decide" /\ req'[q].exp = entry
          /\ req'[q].at = req[q].at /\ req'[q].cred = req[q].cred
          /\ \A p \in Request : p # q => req'[p] = req[p]
      BY <3>4, <3>5, EntryFound
    <3>9. UNCHANGED <<clock, tokens, sweep, minted, grant>>
      BY <1>8 DEF Lookup
    <3>10. QED
      BY <3>3, <3>4, <3>6, <3>9
  <2>3. QED
    BY <2>1, <2>2
<1>9. ASSUME NEW q \in Request, Decide(q) PROVE TypesOK'
  BY <1>9 DEF Decide
<1>10. ASSUME NEW q \in Request, Respond(q) PROVE TypesOK'
  BY <1>10 DEF Respond, Idle
<1>11. ASSUME NEW r \in Replica, PurgeRead(r) PROVE TypesOK'
  BY <1>11 DEF PurgeRead
<1>12. ASSUME NEW r \in Replica, PurgeSweep(r) PROVE TypesOK'
  BY <1>12 DEF PurgeSweep, Swept
<1>13. ASSUME NEW r \in Replica, Restart(r) PROVE TypesOK'
  BY <1>13 DEF Restart, EmptyMap, Idle
<1>14. CASE UNCHANGED vars
  BY <1>14 DEF vars
<1>15. QED
  BY <1>1, <1>2, <1>3, <1>4, <1>5, <1>6, <1>7, <1>8, <1>9, <1>10, <1>11, <1>12,
     <1>13, <1>14 DEF Next, TokenEndpoint, Middleware, PurgeLoop

-------------------------------------------------------------------------------
(* The inductive invariant.                                                 *)

LEMMA InitIInv == Init => IInv
<1> SUFFICES ASSUME Init PROVE IInv
  OBVIOUS
<1>1. TypesOK
  BY InitTypesOK
<1>2. SweepsLookBack /\ StoredExpiries /\ GrantsKept
  BY DEF Init, SweepsLookBack, StoredExpiries, GrantsKept, EmptyMap
<1>3. FreshIssues /\ StoredBeforeReply /\ JudgedRightly
  BY DEF Init, Idle, FreshIssues, Issuing, StoredBeforeReply, JudgedRightly
<1>4. QED
  BY <1>1, <1>2, <1>3 DEF IInv

LEMMA NextIInv == IInv /\ [Next]_vars => IInv'
<1> SUFFICES ASSUME IInv, [Next]_vars PROVE IInv'
  OBVIOUS
<1> USE TimeAssumption, AbsentAssumption, CredentialAssumption
<1>0. TypesOK /\ TypesOK'
  BY NextTypesOK DEF IInv
<1> USE <1>0 DEF TypesOK, Time, Expiry, ReqState, Credential
<1>1. CASE Tick
  <2>1. SweepsLookBack'
    BY <1>1 DEF Tick, IInv, SweepsLookBack
  <2>2. StoredExpiries'
    BY <1>1 DEF Tick, IInv, StoredExpiries
  <2>3. FreshIssues'
    BY <1>1 DEF Tick, IInv, FreshIssues, Issuing
  <2>4. StoredBeforeReply'
    BY <1>1 DEF Tick, IInv, StoredBeforeReply, KeptUntil
  <2>5. GrantsKept'
    BY <1>1 DEF Tick, IInv, GrantsKept, KeptUntil
  <2>6. JudgedRightly'
    BY <1>1 DEF Tick, IInv, JudgedRightly
  <2>7. QED
    BY <2>1, <2>2, <2>3, <2>4, <2>5, <2>6 DEF IInv
<1>2. ASSUME NEW q \in Request, NEW r \in Replica, NEW t \in Token, Mint(q, r, t)
      PROVE  IInv'
  <2>1. SweepsLookBack'
    BY <1>2 DEF Mint, Deadline, IInv, SweepsLookBack
  <2>2. StoredExpiries'
    BY <1>2 DEF Mint, Deadline, IInv, StoredExpiries
  <2>3. FreshIssues'
    BY <1>2 DEF Mint, Deadline, IInv, FreshIssues, Issuing, GrantsKept
  <2>4. StoredBeforeReply'
    BY <1>2 DEF Mint, Deadline, IInv, StoredBeforeReply, KeptUntil
  <2>5. GrantsKept'
    BY <1>2 DEF Mint, Deadline, IInv, GrantsKept, KeptUntil
  <2>6. JudgedRightly'
    BY <1>2 DEF Mint, Deadline, IInv, JudgedRightly
  <2>7. QED
    BY <2>1, <2>2, <2>3, <2>4, <2>5, <2>6 DEF IInv
<1>3. ASSUME NEW q \in Request, Store(q)
      PROVE  IInv'
  <2>1. SweepsLookBack'
    BY <1>3 DEF Store, IInv, SweepsLookBack
  <2>2. StoredExpiries'
    BY <1>3 DEF Store, IInv, StoredExpiries, FreshIssues, Issuing
  <2>3. FreshIssues'
    BY <1>3 DEF Store, IInv, FreshIssues, Issuing
  <2>4. StoredBeforeReply'
    BY <1>3 DEF Store, IInv, StoredBeforeReply, KeptUntil, FreshIssues, Issuing
  <2>5. GrantsKept'
    BY <1>3 DEF Store, IInv, GrantsKept, KeptUntil, FreshIssues, Issuing
  <2>6. JudgedRightly'
    BY <1>3 DEF Store, IInv, JudgedRightly
  <2>7. QED
    BY <2>1, <2>2, <2>3, <2>4, <2>5, <2>6 DEF IInv
<1>4. ASSUME NEW q \in Request, Reply(q)
      PROVE  IInv'
  <2>1. SweepsLookBack'
    BY <1>4 DEF Reply, Idle, IInv, SweepsLookBack
  <2>2. StoredExpiries'
    BY <1>4 DEF Reply, Idle, IInv, StoredExpiries
  <2>3. FreshIssues'
    BY <1>4 DEF Reply, Idle, IInv, FreshIssues, Issuing
  <2>4. StoredBeforeReply'
    BY <1>4 DEF Reply, Idle, IInv, StoredBeforeReply, KeptUntil
  <2>5. GrantsKept'
    BY <1>4 DEF Reply, Idle, IInv, GrantsKept, KeptUntil, StoredBeforeReply,
                FreshIssues, Issuing
  <2>6. JudgedRightly'
    BY <1>4 DEF Reply, Idle, IInv, JudgedRightly, FreshIssues, Issuing
  <2>7. QED
    BY <2>1, <2>2, <2>3, <2>4, <2>5, <2>6 DEF IInv
<1>5. ASSUME NEW q \in Request, ReplyLost(q)
      PROVE  IInv'
  <2>1. SweepsLookBack'
    BY <1>5 DEF ReplyLost, Idle, IInv, SweepsLookBack
  <2>2. StoredExpiries'
    BY <1>5 DEF ReplyLost, Idle, IInv, StoredExpiries
  <2>3. FreshIssues'
    BY <1>5 DEF ReplyLost, Idle, IInv, FreshIssues, Issuing
  <2>4. StoredBeforeReply'
    BY <1>5 DEF ReplyLost, Idle, IInv, StoredBeforeReply, KeptUntil
  <2>5. GrantsKept'
    BY <1>5 DEF ReplyLost, Idle, IInv, GrantsKept, KeptUntil
  <2>6. JudgedRightly'
    BY <1>5 DEF ReplyLost, Idle, IInv, JudgedRightly
  <2>7. QED
    BY <2>1, <2>2, <2>3, <2>4, <2>5, <2>6 DEF IInv
<1>6. ASSUME NEW q \in Request, NEW r \in Replica, NEW c \in Credential, Arrive(q, r, c)
      PROVE  IInv'
  <2>1. SweepsLookBack'
    BY <1>6 DEF Arrive, IInv, SweepsLookBack
  <2>2. StoredExpiries'
    BY <1>6 DEF Arrive, IInv, StoredExpiries
  <2>3. FreshIssues'
    BY <1>6 DEF Arrive, IInv, FreshIssues, Issuing
  <2>4. StoredBeforeReply'
    BY <1>6 DEF Arrive, IInv, StoredBeforeReply, KeptUntil
  <2>5. GrantsKept'
    BY <1>6 DEF Arrive, IInv, GrantsKept, KeptUntil
  <2>6. JudgedRightly'
    BY <1>6 DEF Arrive, IInv, JudgedRightly
  <2>7. QED
    BY <2>1, <2>2, <2>3, <2>4, <2>5, <2>6 DEF IInv
<1>7. ASSUME NEW q \in Request, CheckStatic(q)
      PROVE  IInv'
  <2>1. SweepsLookBack'
    BY <1>7 DEF CheckStatic, IInv, SweepsLookBack
  <2>2. StoredExpiries'
    BY <1>7 DEF CheckStatic, IInv, StoredExpiries
  <2>3. FreshIssues'
    <3>1. \A p \in Request : Issuing(p)' => p # q /\ Issuing(p)
      BY <1>7 DEF CheckStatic, Issuing
    <3>2. \A p \in Request : p # q => req'[p] = req[p]
      BY <1>7 DEF CheckStatic
    <3>3. UNCHANGED <<minted, grant>> /\ FreshIssues
      BY <1>7 DEF CheckStatic, IInv
    <3> HIDE <1>0 DEF TypesOK
    <3>4. ASSUME NEW p \in Request, Issuing(p)'
          PROVE  /\ minted'[req'[p].cred] # Absent
                 /\ req'[p].exp = minted'[req'[p].cred] + TTL
                 /\ grant'[req'[p].cred] = Absent
                 /\ \A o \in Request \ {p} : Issuing(o)' => req'[o].cred # req'[p].cred
      <4>1. Issuing(p) /\ req'[p] = req[p]
        BY <3>1, <3>2, <3>4
      <4>2. \A o \in Request : Issuing(o)' => Issuing(o) /\ req'[o] = req[o]
        BY <3>1, <3>2
      <4>3. QED
        BY <3>3, <4>1, <4>2 DEF FreshIssues
    <3>5. QED
      BY <3>4 DEF FreshIssues
  <2>4. StoredBeforeReply'
    BY <1>7 DEF CheckStatic, IInv, StoredBeforeReply, KeptUntil
  <2>5. GrantsKept'
    BY <1>7 DEF CheckStatic, IInv, GrantsKept, KeptUntil
  <2>6. JudgedRightly'
    BY <1>7 DEF CheckStatic, IInv, JudgedRightly
  <2>7. QED
    BY <2>1, <2>2, <2>3, <2>4, <2>5, <2>6 DEF IInv
<1>8. ASSUME NEW q \in Request, Lookup(q)
      PROVE  IInv'
  <2>1. SweepsLookBack'
    BY <1>8 DEF Lookup, IInv, SweepsLookBack
  <2>2. StoredExpiries'
    BY <1>8 DEF Lookup, IInv, StoredExpiries
  <2>3. FreshIssues'
    <3>1. \A p \in Request : Issuing(p)' => p # q /\ Issuing(p)
      BY <1>8 DEF Lookup, Issuing
    <3>2. \A p \in Request : p # q => req'[p] = req[p]
      BY <1>8 DEF Lookup
    <3>3. UNCHANGED <<minted, grant>> /\ FreshIssues
      BY <1>8 DEF Lookup, IInv
    <3> HIDE <1>0 DEF TypesOK
    <3>4. ASSUME NEW p \in Request, Issuing(p)'
          PROVE  /\ minted'[req'[p].cred] # Absent
                 /\ req'[p].exp = minted'[req'[p].cred] + TTL
                 /\ grant'[req'[p].cred] = Absent
                 /\ \A o \in Request \ {p} : Issuing(o)' => req'[o].cred # req'[p].cred
      <4>1. Issuing(p) /\ req'[p] = req[p]
        BY <3>1, <3>2, <3>4
      <4>2. \A o \in Request : Issuing(o)' => Issuing(o) /\ req'[o] = req[o]
        BY <3>1, <3>2
      <4>3. QED
        BY <3>3, <4>1, <4>2 DEF FreshIssues
    <3>5. QED
      BY <3>4 DEF FreshIssues
  <2>4. StoredBeforeReply'
    <3>1. \A p \in Request : req'[p].pc = "reply" => req'[p] = req[p]
      BY <1>8 DEF Lookup
    <3>2. QED
      BY <1>8, <3>1 DEF Lookup, IInv, StoredBeforeReply, KeptUntil
  <2>5. GrantsKept'
    BY <1>8 DEF Lookup, IInv, GrantsKept, KeptUntil
  <2>6. JudgedRightly'
    <3>1. \A p \in Request : p # q => req'[p] = req[p]
      BY <1>8 DEF Lookup
    <3>2. CASE tokens[req[q].at][req[q].cred] = Absent
      <4>1. req' = [req EXCEPT ![q].pc = "unauthorized"]
        BY <1>8, <3>2 DEF Lookup
      <4>2. QED
        BY <1>8, <3>1, <3>2, <4>1 DEF Lookup, IInv, JudgedRightly, GrantsKept, KeptUntil
    <3>3. CASE tokens[req[q].at][req[q].cred] # Absent
      <4>1. req' = [req EXCEPT ![q].pc = "decide",
                               ![q].exp = tokens[req[q].at][req[q].cred]]
        BY <1>8, <3>3 DEF Lookup
      <4>2. /\ req'[q].pc = "decide"
            /\ req'[q].at = req[q].at
            /\ req'[q].cred = req[q].cred
            /\ req'[q].vouched = req[q].vouched
            /\ req'[q].exp = tokens[req[q].at][req[q].cred]
        <5> DEFINE entry == tokens[req[q].at][req[q].cred]
        <5>1. req[q].at \in Replica /\ req[q].cred \in Token
          BY <1>8 DEF Lookup
        <5>2. entry \in Expiry
          BY <3>3, <5>1
        <5>3. req \in [Request -> ReqState] /\ req' = [req EXCEPT ![q].pc = "decide", ![q].exp = entry]
          BY <4>1
        <5> HIDE <1>0 DEF entry, TypesOK, ReqState, Expiry
        <5>4. /\ req'[q].pc = "decide" /\ req'[q].at = req[q].at /\ req'[q].cred = req[q].cred
              /\ req'[q].vouched = req[q].vouched /\ req'[q].exp = entry
          BY <5>2, <5>3, EntryFound
        <5> QED
          BY <5>4 DEF entry
      <4>3. req[q].cred \in Token /\ req[q].at \in Replica
        BY <1>8 DEF Lookup
      <4>4. tokens[req[q].at][req[q].cred] = minted[req[q].cred] + TTL
             /\ minted[req[q].cred] # Absent
        BY <3>3, <4>3 DEF IInv, StoredExpiries
      <4>5. ASSUME req[q].vouched
            PROVE  /\ grant[req[q].cred] # Absent
                   /\ grant[req[q].cred].by = req[q].at
                   /\ tokens[req[q].at][req[q].cred] = grant[req[q].cred].until
        BY <3>3, <4>3, <4>5 DEF IInv, JudgedRightly, GrantsKept, KeptUntil
      <4>6. minted' = minted /\ grant' = grant /\ clock' = clock
        BY <1>8 DEF Lookup
      <4>7. ASSUME NEW p \in Request, p # q
            PROVE  req'[p] = req[p] /\ req'[p] \in ReqState
        BY <3>1, <4>7
      <4> DEFINE Judged(p) ==
            /\ req[p].pc = "decide" =>
                  /\ minted[req[p].cred] # Absent
                  /\ req[p].exp = minted[req[p].cred] + TTL
            /\ req[p].vouched =>
                  /\ req[p].cred \in Token
                  /\ grant[req[p].cred] # Absent
                  /\ grant[req[p].cred].by = req[p].at
                  /\ req[p].pc = "decide" => req[p].exp = grant[req[p].cred].until
                  /\ req[p].pc = "unauthorized" => clock > grant[req[p].cred].until
      <4>8. Judged(q)'
        BY <4>2, <4>3, <4>4, <4>5, <4>6
      <4>9. ASSUME NEW p \in Request, p # q PROVE Judged(p)'
        <5>1. Judged(p)
          BY DEF IInv, JudgedRightly
        <5>2. req'[p] = req[p]
          BY <4>7, <4>9
        <5>3. QED
          BY <5>1, <5>2, <4>6
      <4>10. QED
        <5>1. ASSUME NEW p \in Request PROVE Judged(p)'
          BY <4>8, <4>9
        <5>2. QED
          BY <5>1 DEF JudgedRightly
    <3>4. QED
      BY <3>2, <3>3
  <2>7. QED
    BY <2>1, <2>2, <2>3, <2>4, <2>5, <2>6 DEF IInv
<1>9. ASSUME NEW q \in Request, Decide(q)
      PROVE  IInv'
  <2>1. SweepsLookBack'
    BY <1>9 DEF Decide, IInv, SweepsLookBack
  <2>2. StoredExpiries'
    BY <1>9 DEF Decide, IInv, StoredExpiries
  <2>3. FreshIssues'
    BY <1>9 DEF Decide, IInv, FreshIssues, Issuing
  <2>4. StoredBeforeReply'
    BY <1>9 DEF Decide, IInv, StoredBeforeReply, KeptUntil
  <2>5. GrantsKept'
    BY <1>9 DEF Decide, IInv, GrantsKept, KeptUntil
  <2>6. JudgedRightly'
    BY <1>9 DEF Decide, IInv, JudgedRightly
  <2>7. QED
    BY <2>1, <2>2, <2>3, <2>4, <2>5, <2>6 DEF IInv
<1>10. ASSUME NEW q \in Request, Respond(q)
      PROVE  IInv'
  <2>1. SweepsLookBack'
    BY <1>10 DEF Respond, Idle, IInv, SweepsLookBack
  <2>2. StoredExpiries'
    BY <1>10 DEF Respond, Idle, IInv, StoredExpiries
  <2>3. FreshIssues'
    BY <1>10 DEF Respond, Idle, IInv, FreshIssues, Issuing
  <2>4. StoredBeforeReply'
    BY <1>10 DEF Respond, Idle, IInv, StoredBeforeReply, KeptUntil
  <2>5. GrantsKept'
    BY <1>10 DEF Respond, Idle, IInv, GrantsKept, KeptUntil
  <2>6. JudgedRightly'
    BY <1>10 DEF Respond, Idle, IInv, JudgedRightly
  <2>7. QED
    BY <2>1, <2>2, <2>3, <2>4, <2>5, <2>6 DEF IInv
<1>11. ASSUME NEW r \in Replica, PurgeRead(r)
      PROVE  IInv'
  <2>1. SweepsLookBack'
    BY <1>11 DEF PurgeRead, IInv, SweepsLookBack
  <2>2. StoredExpiries'
    BY <1>11 DEF PurgeRead, IInv, StoredExpiries
  <2>3. FreshIssues'
    BY <1>11 DEF PurgeRead, IInv, FreshIssues, Issuing
  <2>4. StoredBeforeReply'
    BY <1>11 DEF PurgeRead, IInv, StoredBeforeReply, KeptUntil
  <2>5. GrantsKept'
    BY <1>11 DEF PurgeRead, IInv, GrantsKept, KeptUntil
  <2>6. JudgedRightly'
    BY <1>11 DEF PurgeRead, IInv, JudgedRightly
  <2>7. QED
    BY <2>1, <2>2, <2>3, <2>4, <2>5, <2>6 DEF IInv
<1>12. ASSUME NEW r \in Replica, PurgeSweep(r)
      PROVE  IInv'
  <2>1. SweepsLookBack'
    BY <1>12 DEF PurgeSweep, Swept, IInv, SweepsLookBack
  <2>2. StoredExpiries'
    BY <1>12 DEF PurgeSweep, Swept, IInv, StoredExpiries
  <2>3. FreshIssues'
    BY <1>12 DEF PurgeSweep, Swept, IInv, FreshIssues, Issuing
  <2>4. StoredBeforeReply'
    BY <1>12 DEF PurgeSweep, Swept, IInv, StoredBeforeReply, KeptUntil, SweepsLookBack
  <2>5. GrantsKept'
    BY <1>12 DEF PurgeSweep, Swept, IInv, GrantsKept, KeptUntil, SweepsLookBack
  <2>6. JudgedRightly'
    BY <1>12 DEF PurgeSweep, Swept, IInv, JudgedRightly
  <2>7. QED
    BY <2>1, <2>2, <2>3, <2>4, <2>5, <2>6 DEF IInv
<1>13. ASSUME NEW r \in Replica, Restart(r)
      PROVE  IInv'
  <2>1. SweepsLookBack'
    BY <1>13 DEF Restart, EmptyMap, Idle, IInv, SweepsLookBack
  <2>2. StoredExpiries'
    BY <1>13 DEF Restart, EmptyMap, Idle, IInv, StoredExpiries
  <2>3. FreshIssues'
    BY <1>13 DEF Restart, EmptyMap, Idle, IInv, FreshIssues, Issuing
  <2>4. StoredBeforeReply'
    BY <1>13 DEF Restart, EmptyMap, Idle, IInv, StoredBeforeReply, KeptUntil
  <2>5. GrantsKept'
    BY <1>13 DEF Restart, EmptyMap, Idle, IInv, GrantsKept, KeptUntil
  <2>6. JudgedRightly'
    BY <1>13 DEF Restart, EmptyMap, Idle, IInv, JudgedRightly
  <2>7. QED
    BY <2>1, <2>2, <2>3, <2>4, <2>5, <2>6 DEF IInv
<1>14. CASE UNCHANGED vars
  BY <1>14 DEF vars, IInv, SweepsLookBack, StoredExpiries, FreshIssues, Issuing,
               StoredBeforeReply, GrantsKept, KeptUntil, JudgedRightly
<1>15. QED
  BY <1>1, <1>2, <1>3, <1>4, <1>5, <1>6, <1>7, <1>8, <1>9, <1>10, <1>11, <1>12,
     <1>13, <1>14 DEF Next, TokenEndpoint, Middleware, PurgeLoop

-------------------------------------------------------------------------------
(* What follows from it.                                                    *)

\* The inductive invariant holds in every reachable state.
THEOREM Invariance == Spec => []IInv
  BY InitIInv, NextIInv, PTL DEF Spec

\* A delivered token stays in its replica's map until it has lapsed: the
\* early clock reading of purge() cannot remove it, and no reply precedes
\* its store().
THEOREM DeliveredTokensAreKept == Spec => []DeliveredTokensKept
<1>1. IInv => DeliveredTokensKept
  BY DEF IInv, TypesOK, Time, Expiry, GrantsKept, KeptUntil, DeliveredTokensKept
<1>2. QED
  BY <1>1, Invariance, PTL

\* The middleware answers 401 to a token its replica has delivered only
\* after the token has lapsed.
THEOREM NoSpuriousRejections == Spec => []NoSpuriousRejection
<1>1. IInv => NoSpuriousRejection
  BY DEF IInv, JudgedRightly, NoSpuriousRejection
<1>2. QED
  BY <1>1, Invariance, PTL

\* No request is let through with a token older than oauthTokenTTL.
THEOREM AdmittedTokensAreYoung == Spec => AdmittedWithinTTL
<1> DEFINE Young ==
       \A q \in Request :
          req[q].pc \in {"auth", "decide"} /\ req'[q].pc = "admitted" /\ req[q].cred \in Token
              => /\ minted[req[q].cred] # Absent
                 /\ clock <= minted[req[q].cred] + TTL
<1>1. IInv /\ [Next]_vars => [Young]_vars
  <2> SUFFICES ASSUME IInv, Next, NEW p \in Request, req[p].pc \in {"auth", "decide"},
                      req'[p].pc = "admitted", req[p].cred \in Token
               PROVE  minted[req[p].cred] # Absent /\ clock <= minted[req[p].cred] + TTL
    BY DEF Young, vars
  <2> USE DEF IInv, TypesOK, Time, Expiry, ReqState
  <2>1. CASE Decide(p)
    BY <2>1 DEF Decide, JudgedRightly
  <2>2. CASE CheckStatic(p)
    BY <2>2, CredentialAssumption DEF CheckStatic
  <2>3. ASSUME NEW q \in Request, TokenEndpoint(q) PROVE FALSE
    BY <2>3 DEF TokenEndpoint, Mint, Store, Reply, ReplyLost, Idle
  <2>4. ASSUME NEW q \in Request, NEW r \in Replica, NEW c \in Credential, Arrive(q, r, c)
        PROVE  FALSE
    BY <2>4 DEF Arrive
  <2>5. ASSUME NEW q \in Request, q # p, CheckStatic(q) \/ Decide(q) PROVE FALSE
    BY <2>5 DEF CheckStatic, Decide
  <2>6. ASSUME NEW q \in Request, Lookup(q) \/ Respond(q) PROVE FALSE
    BY <2>6 DEF Lookup, Respond, Idle
  <2>7. ASSUME NEW r \in Replica, PurgeLoop(r) \/ Restart(r) PROVE FALSE
    BY <2>7 DEF PurgeLoop, PurgeRead, PurgeSweep, Restart, Idle
  <2>8. ~ Tick
    BY DEF Tick
  <2>9. QED
    BY <2>1, <2>2, <2>3, <2>4, <2>5, <2>6, <2>7, <2>8 DEF Next, Middleware
<1>2. QED
  BY <1>1, Invariance, PTL DEF Spec, AdmittedWithinTTL

\* An entry is never changed.  It goes when it has lapsed, or with its replica,
\* and a purge leaves no token that was more than TTL old when it read the time
\* (purge, newTokenStore).
EntriesOnlyLapse ==
    [][\A r \in Replica, t \in Token :
          tokens[r][t] # Absent =>
             \/ /\ tokens'[r][t] = tokens[r][t]
                /\ PurgeSweep(r) => sweep[r] <= minted[t] + TTL
             \/ /\ tokens'[r][t] = Absent
                /\ clock > minted[t] + TTL \/ Restart(r)]_vars

\* The map holds what it has to, and each purge takes away what has lapsed by
\* then: the safety half of LapsedTokensPurged.
THEOREM EntriesLapse == Spec => EntriesOnlyLapse
<1>1. IInv /\ [Next]_vars =>
        [\A r \in Replica, t \in Token :
            tokens[r][t] # Absent =>
               \/ /\ tokens'[r][t] = tokens[r][t]
                  /\ PurgeSweep(r) => sweep[r] <= minted[t] + TTL
               \/ /\ tokens'[r][t] = Absent
                  /\ clock > minted[t] + TTL \/ Restart(r)]_vars
  <2> SUFFICES ASSUME IInv, [Next]_vars,
                      NEW r \in Replica, NEW t \in Token, tokens[r][t] # Absent
               PROVE  \/ /\ tokens'[r][t] = tokens[r][t]
                         /\ PurgeSweep(r) => sweep[r] <= minted[t] + TTL
                      \/ /\ tokens'[r][t] = Absent
                         /\ clock > minted[t] + TTL \/ Restart(r)
    OBVIOUS
  <2>1. /\ TypesOK /\ tokens[r][t] = minted[t] + TTL
        /\ minted[t] # Absent /\ minted[t] \in Int /\ clock \in Int
    BY DEF IInv, StoredExpiries, TypesOK, Time
  <2>2. ASSUME PurgeSweep(r)
        PROVE  \/ tokens'[r][t] = tokens[r][t] /\ sweep[r] <= minted[t] + TTL
               \/ tokens'[r][t] = Absent /\ clock > minted[t] + TTL
    <3>1. sweep[r] \in Int /\ sweep[r] <= clock
      BY <2>2 DEF IInv, SweepsLookBack, PurgeSweep, TypesOK, Time
    <3>2. tokens'[r][t] = IF sweep[r] > tokens[r][t] THEN Absent ELSE tokens[r][t]
      BY <2>1, <2>2 DEF PurgeSweep, Swept, TypesOK
    <3> QED BY <2>1, <3>1, <3>2, TimeAssumption
  <2>3. ASSUME Restart(r) PROVE tokens'[r][t] = Absent
    BY <2>1, <2>3 DEF Restart, EmptyMap, TypesOK
  <2>4. ASSUME NEW s \in Replica, s # r, PurgeSweep(s) \/ Restart(s)
        PROVE  tokens'[r][t] = tokens[r][t]
    BY <2>1, <2>4 DEF PurgeSweep, Restart, TypesOK
  <2>5. ASSUME NEW q \in Request, Store(q) PROVE tokens'[r][t] = tokens[r][t]
    <3>1. CASE req[q].at = r /\ req[q].cred = t
      <4>1. req[q].exp = minted[t] + TTL
        BY <2>5, <3>1 DEF IInv, FreshIssues, Issuing, Store
      <4> QED BY <2>1, <2>5, <3>1, <4>1 DEF Store, TypesOK
    <3>2. CASE req[q].at # r \/ req[q].cred # t
      BY <2>1, <2>5, <3>2 DEF Store, TypesOK
    <3> QED BY <3>1, <3>2
  <2>6. ASSUME tokens' = tokens PROVE tokens'[r][t] = tokens[r][t]
    BY <2>6
  <2>7. \/ tokens' = tokens
        \/ \E q \in Request : Store(q)
        \/ \E s \in Replica : PurgeSweep(s) \/ Restart(s)
    BY DEF Next, vars, Tick, TokenEndpoint, Mint, Reply, ReplyLost, Middleware, Arrive,
           CheckStatic, Lookup, Decide, Respond, PurgeLoop, PurgeRead
  <2> QED BY <2>2, <2>3, <2>4, <2>5, <2>6, <2>7
<1> QED BY <1>1, Invariance, PTL DEF Spec, EntriesOnlyLapse
-------------------------------------------------------------------------------
(* TokenStore implements LiveTokens: initial states map to initial states,   *)
(* and every step to a step of LiveTokens or to no step at all.              *)

\* An entry the middleware has found is still in the map, unless it has lapsed
\* while the middleware was between the look-up and its clock reading.
FoundEntriesKept ==
    \A q \in Request :
        req[q].pc = "decide" => KeptUntil(req[q].at, req[q].cred, req[q].exp)

\* No token was generated in the future.
MintsLookBack == \A t \in Token : minted[t] # Absent => minted[t] <= clock

RInv == IInv /\ FoundEntriesKept /\ MintsLookBack

\* Every step keeps it: between a look-up and the clock reading that follows, an
\* entry can be swept away or lost in a restart, but not be overwritten.
LEMMA NextFoundEntriesKept ==
    ASSUME IInv, FoundEntriesKept, [Next]_vars
    PROVE  FoundEntriesKept'
<1>0. TypesOK /\ TypesOK'
  BY NextTypesOK DEF IInv
<1> SUFFICES ASSUME NEW p \in Request, req'[p].pc = "decide"
             PROVE  KeptUntil(req[p].at, req[p].cred, req[p].exp)'
  BY DEF FoundEntriesKept
<1>1. PICK r \in Replica, t \in Token, e \in Expiry :
          r = req'[p].at /\ t = req'[p].cred /\ e = req'[p].exp
  BY <1>0 DEF TypesOK
<1>2. clock \in Int /\ clock' \in Int /\ e \in Int
  BY <1>0, TimeAssumption DEF TypesOK, Time, Expiry
<1>3. SUFFICES tokens'[r][t] = e \/ (tokens'[r][t] = Absent /\ clock' > e)
  BY <1>1 DEF KeptUntil
<1>4. ASSUME req'[p] = req[p]
      PROVE  /\ req[p].pc = "decide" /\ req[p].at = r /\ req[p].cred = t /\ req[p].exp = e
             /\ tokens[r][t] = e \/ (tokens[r][t] = Absent /\ clock > e)
  BY <1>1, <1>4 DEF FoundEntriesKept, KeptUntil
<1>5. ASSUME req'[p] = req[p], UNCHANGED <<tokens, clock>>
      PROVE  tokens'[r][t] = e \/ (tokens'[r][t] = Absent /\ clock' > e)
  BY <1>4, <1>5
<1>6. CASE Tick
  BY <1>2, <1>4, <1>6, <1>0 DEF Tick, TypesOK, Time
<1>7. ASSUME NEW q \in Request, TokenEndpoint(q), ~ Store(q)
      PROVE  req'[p] = req[p] /\ UNCHANGED <<tokens, clock>>
  BY <1>0, <1>7 DEF TokenEndpoint, Mint, Reply, ReplyLost, Idle, TypesOK
<1>8. ASSUME NEW q \in Request, Store(q)
      PROVE  tokens'[r][t] = e \/ (tokens'[r][t] = Absent /\ clock' > e)
  <2>1. req'[p] = req[p] /\ clock' = clock
    BY <1>0, <1>8 DEF Store, TypesOK
  <2>2. e = minted[t] + TTL
    BY <1>4, <2>1 DEF IInv, JudgedRightly
  <2>3. req[q].exp = minted[req[q].cred] + TTL
    BY <1>8 DEF Store, IInv, FreshIssues, Issuing
  <2>4. tokens'[r][t] = tokens[r][t] \/ (t = req[q].cred /\ tokens'[r][t] = req[q].exp)
    BY <1>0, <1>8 DEF Store, TypesOK
  <2> QED BY <1>4, <2>1, <2>2, <2>3, <2>4
<1>9. ASSUME NEW q \in Request, Middleware(q), ~ Lookup(q)
      PROVE  req'[p] = req[p] /\ UNCHANGED <<tokens, clock>>
  <2>1. req \in [Request -> ReqState]
    BY <1>0 DEF TypesOK
  <2>2. CASE \E s \in Replica, c \in Credential : Arrive(q, s, c)
    BY <2>1, <2>2 DEF Arrive
  <2>3. CASE CheckStatic(q)
    <3>1. PICK v \in {"unauthorized", "admitted"} : req' = [req EXCEPT ![q].pc = v]
      BY <2>3 DEF CheckStatic
    <3>2. req'[q].pc = v
      BY <2>1, <3>1 DEF ReqState
    <3> QED BY <2>1, <2>3, <3>1, <3>2 DEF CheckStatic
  <2>4. CASE Decide(q)
    <3>1. req'[q].pc \in {"unauthorized", "admitted"}
      BY <2>1, <2>4 DEF Decide, ReqState
    <3> QED BY <2>1, <2>4, <3>1 DEF Decide
  <2>5. CASE Respond(q)
    BY <2>1, <2>5 DEF Respond, Idle
  <2> QED BY <1>9, <2>2, <2>3, <2>4, <2>5 DEF Middleware
<1>10. ASSUME NEW q \in Request, Lookup(q)
       PROVE  tokens'[r][t] = e \/ (tokens'[r][t] = Absent /\ clock' > e)
  <2>1. CASE p = q
    <3>1. tokens' = tokens /\ tokens[req[q].at][req[q].cred] # Absent
          /\ req' = [req EXCEPT ![q].pc = "decide", ![q].exp = tokens[req[q].at][req[q].cred]]
      <4>1. CASE tokens[req[q].at][req[q].cred] = Absent
        <5>1. req' = [req EXCEPT ![q].pc = "unauthorized"]
          BY <1>10, <4>1 DEF Lookup
        <5>2. req \in [Request -> ReqState]
          BY <1>0 DEF TypesOK
        <5>3. req'[q].pc = "unauthorized"
          BY <5>1, <5>2 DEF ReqState
        <5> QED BY <2>1, <5>3
      <4> QED BY <1>10, <4>1 DEF Lookup
    <3>2. req[q].at \in Replica /\ req[q].cred \in Token
      BY <1>0, <1>10 DEF Lookup, TypesOK
    <3>3. tokens[req[q].at][req[q].cred] \in Expiry
      BY <1>0, <3>1, <3>2 DEF TypesOK
    <3>4. req \in [Request -> ReqState]
      BY <1>0 DEF TypesOK
    <3> DEFINE found == tokens[req[q].at][req[q].cred]
    <3>5. found \in Expiry /\ req' = [req EXCEPT ![q].pc = "decide", ![q].exp = found]
      BY <3>1, <3>3
    <3> HIDE DEF found
    <3>6. req'[q].exp = found /\ req'[q].at = req[q].at /\ req'[q].cred = req[q].cred
      BY <3>4, <3>5, EntryFound
    <3> QED BY <1>1, <2>1, <3>1, <3>6 DEF found
  <2>2. CASE p # q
    <3>1. req'[p] = req[p] /\ UNCHANGED <<tokens, clock>>
      BY <1>0, <1>10, <2>2 DEF Lookup, TypesOK
    <3> QED BY <3>1, <1>5
  <2> QED BY <2>1, <2>2
<1>11. ASSUME NEW s \in Replica, PurgeRead(s)
       PROVE  req'[p] = req[p] /\ UNCHANGED <<tokens, clock>>
  BY <1>11 DEF PurgeRead
<1>12. ASSUME NEW s \in Replica, PurgeSweep(s)
       PROVE  tokens'[r][t] = e \/ (tokens'[r][t] = Absent /\ clock' > e)
  <2>1. req'[p] = req[p] /\ clock' = clock /\ sweep[s] \in Int /\ sweep[s] <= clock
    BY <1>0, <1>12, TimeAssumption DEF PurgeSweep, TypesOK, Time, IInv, SweepsLookBack
  <2>2. \/ tokens'[r][t] = tokens[r][t]
        \/ tokens'[r][t] = Absent /\ (tokens[r][t] # Absent => sweep[s] > tokens[r][t])
    BY <1>0, <1>12 DEF PurgeSweep, Swept, TypesOK
  <2> QED BY <1>2, <1>4, <2>1, <2>2
<1>13. ASSUME NEW s \in Replica, Restart(s)
       PROVE  tokens'[r][t] = e \/ (tokens'[r][t] = Absent /\ clock' > e)
  <2>1. req'[p] = req[p] /\ req[p].at # s /\ clock' = clock
    BY <1>13 DEF Restart, Idle
  <2>2. tokens'[r] = tokens[r]
    BY <1>0, <1>4, <1>13, <2>1 DEF Restart, TypesOK
  <2> QED BY <1>4, <2>1, <2>2
<1>14. CASE UNCHANGED vars
  BY <1>5, <1>14 DEF vars
<1> QED
  BY <1>5, <1>6, <1>7, <1>8, <1>9, <1>10, <1>11, <1>12, <1>13, <1>14 DEF Next, PurgeLoop

\* The clock does not run backwards, and only Mint gives a token its time.
LEMMA NextMintsLookBack ==
    ASSUME TypesOK, MintsLookBack, [Next]_vars
    PROVE  MintsLookBack'
<1> USE TimeAssumption DEF TypesOK, Time, MintsLookBack
<1>1. CASE Tick
  BY <1>1 DEF Tick
<1>2. ASSUME NEW q \in Request, NEW r \in Replica, NEW t \in Token, Mint(q, r, t)
      PROVE  MintsLookBack'
  BY <1>2 DEF Mint
<1>3. ASSUME UNCHANGED <<clock, minted>> PROVE MintsLookBack'
  BY <1>3
<1>4. ASSUME NEW q \in Request, Store(q) \/ Reply(q) \/ ReplyLost(q) \/ Middleware(q)
      PROVE  UNCHANGED <<clock, minted>>
  BY <1>4 DEF Store, Reply, ReplyLost, Middleware, Arrive, CheckStatic, Lookup, Decide, Respond
<1>5. ASSUME NEW r \in Replica, PurgeLoop(r) \/ Restart(r) PROVE UNCHANGED <<clock, minted>>
  BY <1>5 DEF PurgeLoop, PurgeRead, PurgeSweep, Restart
<1>6. CASE UNCHANGED vars
  BY <1>6 DEF vars
<1> QED BY <1>1, <1>2, <1>3, <1>4, <1>5, <1>6 DEF Next, TokenEndpoint

\* The strengthened invariant holds in every reachable state.
LEMMA RefinementInvariance == Spec => []RInv
<1>1. Init => RInv
  <2>1. Init => FoundEntriesKept /\ MintsLookBack
    BY DEF Init, Idle, FoundEntriesKept, EmptyMap, MintsLookBack
  <2> QED BY <2>1, InitIInv DEF RInv
<1>2. RInv /\ [Next]_vars => RInv'
  BY NextIInv, NextFoundEntriesKept, NextMintsLookBack DEF RInv, IInv
<1> QED BY <1>1, <1>2, PTL DEF Spec

\* The store is well typed for ever, and no expiry in any map is further away
\* than TTL from the present, for every TTL and however long it runs: an entry
\* holds the mint time of its token plus TTL, and no mint lies in the future.
THEOREM TypeCorrect == Spec => []TypeOK
<1>1. RInv => TypeOK
  <2> SUFFICES ASSUME RInv PROVE TypeOK
    OBVIOUS
  <2>1. TypesOK /\ StoredExpiries /\ MintsLookBack
    BY DEF RInv, IInv
  <2>2. ASSUME NEW r \in Replica, NEW t \in Token, tokens[r][t] # Absent
        PROVE  tokens[r][t] <= clock + TTL
    <3>1. minted[t] # Absent /\ tokens[r][t] = minted[t] + TTL /\ minted[t] <= clock
      BY <2>1, <2>2 DEF StoredExpiries, MintsLookBack
    <3> QED BY <2>1, <3>1, TimeAssumption DEF TypesOK, Time
  <2> QED BY <2>1, <2>2 DEF TypeOK, ExpiriesInReach
<1> QED BY <1>1, RefinementInvariance, PTL

-------------------------------------------------------------------------------
(* The refinement mapping.                                                  *)

\* What the abstract table holds for a token, and the abstract call of a request.
LEMMA Mapping ==
    /\ DOMAIN LiveEntries = Replica /\ DOMAIN Calls = Request
    /\ \A r \in Replica : DOMAIN LiveEntries[r] = Token
    /\ \A r \in Replica, t \in Token :
          LiveEntries[r][t] = IF tokens[r][t] # Absent /\ clock <= tokens[r][t]
                              THEN tokens[r][t] ELSE Absent
    /\ \A q \in Request : Calls[q] = CallOf(req[q])
  BY DEF LiveEntries, Calls

\* A step that leaves the clock and the tables alone leaves the abstract table alone.
LEMMA SameEntries == UNCHANGED <<clock, tokens>> => LiveEntries' = LiveEntries
  BY DEF LiveEntries

\* A token stays fresh, or stays spent, while nobody starts or stops to store one.
LEMMA SameFresh ==
    ASSUME UNCHANGED minted,
           \A q \in Request : req[q].pc = "store" \/ req'[q].pc = "store" => req'[q] = req[q]
    PROVE  FreshTokens' = FreshTokens
  BY DEF FreshTokens

\* A step of one request is a step of its abstract call only.
LEMMA OneCall ==
    ASSUME NEW q \in Request, \A p \in Request : p # q => req'[p] = req[p]
    PROVE  Calls' = [Calls EXCEPT ![q] = CallOf(req'[q])]
<1>1. \A p \in Request : p # q => CallOf(req'[p]) = CallOf(req[p])
  OBVIOUS
<1> QED BY <1>1 DEF Calls

\* The two ends of a judgement.
LEMMA Judged ==
    ASSUME NEW q \in Request, req[q].pc \in Judging,
           NEW v \in {"admitted", "unauthorized"},
           req'[q].pc = v, req'[q].at = req[q].at, req'[q].cred = req[q].cred,
           \A p \in Request : p # q => req'[p] = req[p],
           UNCHANGED <<clock, tokens, minted>>,
           v = "admitted" <=> Live!Honours(req[q].at, req[q].cred)
    PROVE  Live!Judge(q)
<1>1. LiveEntries' = LiveEntries
  BY SameEntries
<1>2. Calls[q] = [verdict |-> "pending", at |-> req[q].at, cred |-> req[q].cred]
  BY DEF Calls, CallOf, InMiddleware
<1>3. CallOf(req'[q]) = [verdict |-> v, at |-> req[q].at, cred |-> req[q].cred]
  BY DEF CallOf, InMiddleware, Judging
<1>4. CallOf(req'[q]) = [Calls[q] EXCEPT !.verdict = v]
  BY <1>2, <1>3
<1>5. Calls' = [Calls EXCEPT ![q].verdict = v]
  BY <1>4, OneCall
<1>6. /\ Calls[q].verdict = "pending" /\ Calls[q].at = req[q].at
      /\ Calls[q].cred = req[q].cred
  BY <1>2
<1>7. v = IF Live!Honours(Calls[q].at, Calls[q].cred) THEN "admitted" ELSE "unauthorized"
  BY <1>6
<1>8. FreshTokens' = FreshTokens
  BY SameFresh DEF Judging
<1> QED BY <1>1, <1>5, <1>6, <1>7, <1>8 DEF Live!Judge

\* The initial states map to initial states: no token, no call.
LEMMA InitMaps == Init => Live!Init
<1> SUFFICES ASSUME Init PROVE Live!Init
  OBVIOUS
<1>1. LiveEntries = [r \in Replica |-> [t \in Token |-> Absent]]
  BY DEF Init, LiveEntries, EmptyMap
<1>2. Calls = [q \in Request |-> Live!NoCall]
  BY DEF Init, Idle, Calls, CallOf, InMiddleware, Judging, Live!NoCall
<1>3. FreshTokens = Token
  BY DEF Init, EmptyMap, FreshTokens
<1> QED BY <1>1, <1>2, <1>3 DEF Init, Live!Init

\* A tick lets tokens lapse and does nothing else.
LEMMA TickMaps ==
    ASSUME TypesOK, Tick
    PROVE  Live!Tick
<1>1. clock \in Int /\ \A r \in Replica, t \in Token : tokens[r][t] # Absent => tokens[r][t] \in Int
  BY TimeAssumption DEF TypesOK, Time, Expiry
<1>2. clock' = clock + 1 /\ tokens' = tokens /\ req' = req
  BY DEF Tick
<1>3. Calls' = Calls /\ FreshTokens' = FreshTokens
  BY <1>2, SameFresh DEF Tick, Calls
<1>4. ASSUME NEW r \in Replica
      PROVE  LiveEntries'[r] = Live!Unlapsed(LiveEntries[r], clock')
  BY <1>1, <1>2 DEF LiveEntries, Live!Unlapsed
<1>5. LiveEntries' = [r \in Replica |-> Live!Unlapsed(LiveEntries[r], clock')]
  BY <1>4 DEF LiveEntries
<1> QED BY <1>2, <1>3, <1>5 DEF Live!Tick

\* store() is the grant; what is past its time by then is granted for no time.
LEMMA StoreMaps ==
    ASSUME IInv, MintsLookBack, NEW q \in Request, Store(q)
    PROVE  \E r \in Replica, t \in Token, e \in Expiry : Live!Grant(r, t, e)
<1>0. TypesOK
  BY DEF IInv
<1>1. PICK r \in Replica, t \in Token, e \in Expiry :
          r = req[q].at /\ t = req[q].cred /\ e = req[q].exp
  BY <1>0 DEF Store, TypesOK
<1>2. e # Absent /\ \A s \in Replica, u \in Token : tokens[s][u] # Absent => tokens[s][u] \in Int
  BY <1>0, TimeAssumption, AbsentAssumption DEF TypesOK, Time, Expiry
<1>3. tokens' = [tokens EXCEPT ![r][t] = e] /\ clock' = clock
  BY <1>1 DEF Store
<1>4. \A s \in Replica, u \in Token :
          tokens'[s][u] = IF s = r /\ u = t THEN e ELSE tokens[s][u]
  BY <1>0, <1>3 DEF TypesOK
<1>5. Calls' = Calls
  <2>1. req' = [req EXCEPT ![q].pc = "reply"]
    BY DEF Store
  <2>2. req \in [Request -> ReqState]
    BY <1>0 DEF TypesOK
  <2>3. req'[q].pc = "reply" /\ \A p \in Request : p # q => req'[p] = req[p]
    BY <2>1, <2>2 DEF ReqState
  <2>4. CallOf(req'[q]) = CallOf(req[q])
    BY <2>3 DEF Store, CallOf, InMiddleware, Judging
  <2> QED BY <2>3, <2>4 DEF Calls
<1>6. \A s \in Replica : s # r => LiveEntries'[s] = LiveEntries[s]
  BY <1>3, <1>4 DEF LiveEntries
<1>7. LiveEntries'[r] = Live!Unlapsed([LiveEntries[r] EXCEPT ![t] = e], clock)
  <2> DEFINE f == [LiveEntries[r] EXCEPT ![t] = e]
  <2>1. DOMAIN f = Token /\ \A u \in Token : f[u] = IF u = t THEN e ELSE LiveEntries[r][u]
    BY Mapping
  <2>2. \A u \in Token :
           LiveEntries'[r][u] = IF f[u] # Absent /\ clock <= f[u] THEN f[u] ELSE Absent
    BY <1>2, <1>3, <1>4, <2>1 DEF LiveEntries
  <2>3. LiveEntries'[r] = [u \in Token |-> LiveEntries'[r][u]]
    BY DEF LiveEntries
  <2> HIDE DEF f
  <2>4. LiveEntries'[r] = Live!Unlapsed(f, clock)
    BY <2>2, <2>3 DEF Live!Unlapsed
  <2> QED BY <2>4 DEF f
<1>8. LiveEntries' = [LiveEntries EXCEPT ![r] = Live!Unlapsed([LiveEntries[r] EXCEPT ![t] = e], clock)]
  BY <1>6, <1>7 DEF LiveEntries
<1>9. t \in FreshTokens
  BY <1>1 DEF Store, FreshTokens
<1>10. FreshTokens' = FreshTokens \ {t}
  <2>1. /\ \A p \in Request \ {q} : req'[p] = req[p]
        /\ req'[q].pc = "reply" /\ minted' = minted
    BY <1>0 DEF Store, TypesOK, ReqState
  <2>2. minted[t] # Absent /\ \A p \in Request \ {q} : req[p].pc = "store" => req[p].cred # t
    BY <1>1 DEF Store, IInv, FreshIssues, Issuing
  <2> QED BY <1>1, <2>1, <2>2 DEF Store, FreshTokens
<1>11. e <= clock + TTL
  <2>1. e = minted[t] + TTL /\ minted[t] # Absent
    BY <1>1 DEF Store, IInv, FreshIssues, Issuing
  <2>2. clock \in Int /\ minted[t] \in Int /\ minted[t] <= clock
    BY <1>0, <2>1, TimeAssumption DEF TypesOK, Time, MintsLookBack
  <2> QED BY <2>1, <2>2, TimeAssumption
<1>12. Live!Grant(r, t, e)
  BY <1>3, <1>5, <1>8, <1>9, <1>10, <1>11 DEF Live!Grant
<1> QED BY <1>12

\* The steps of a token endpoint before and after store() are invisible.
LEMMA IssuingIsInvisible ==
    ASSUME TypesOK, NEW q \in Request,
           \/ \E r \in Replica, t \in Token : Mint(q, r, t)
           \/ Reply(q)
           \/ ReplyLost(q)
    PROVE  UNCHANGED <<clock, FreshTokens, LiveEntries, Calls>>
<1>1. /\ UNCHANGED <<clock, tokens>>
      /\ req'[q].pc \notin InMiddleware /\ req[q].pc \notin InMiddleware
      /\ \A p \in Request : p # q => req'[p] = req[p]
  BY DEF Mint, Reply, ReplyLost, Idle, InMiddleware, Judging, TypesOK
<1>2. CallOf(req'[q]) = CallOf(req[q])
  BY <1>1 DEF CallOf
<1>3. Calls' = Calls
  BY <1>1, <1>2 DEF Calls
<1>4. FreshTokens' = FreshTokens
  <2>1. CASE \E r \in Replica, t \in Token : Mint(q, r, t)
    <3>0. PICK r \in Replica, t \in Token : Mint(q, r, t)
      BY <2>1
    <3>1. /\ req[q].pc = "idle" /\ minted[t] = Absent
          /\ minted' = [minted EXCEPT ![t] = clock]
          /\ req'[q].pc = "store" /\ req'[q].cred = t
      BY <3>0 DEF Mint, TypesOK
    <3>2. \A u \in Token \ {t} : minted'[u] = minted[u]
      BY <3>1 DEF TypesOK
    <3>3. t \in FreshTokens /\ t \in FreshTokens'
      BY <3>1 DEF FreshTokens
    <3>4. \A p \in Request : \A u \in Token \ {t} :
              (req'[p].pc = "store" /\ req'[p].cred = u) <=> (req[p].pc = "store" /\ req[p].cred = u)
      BY <1>1, <3>1
    <3> QED BY <3>2, <3>3, <3>4 DEF FreshTokens
  <2>2. CASE Reply(q) \/ ReplyLost(q)
    <3>1. minted' = minted /\ req[q].pc = "reply" /\ req'[q].pc = "idle"
      BY <2>2 DEF Reply, ReplyLost, Idle, TypesOK
    <3> QED BY <1>1, <3>1, SameFresh
  <2> QED BY <2>1, <2>2
<1> QED BY <1>1, <1>3, <1>4, SameEntries

\* A request that comes in is a call of the abstract table.
LEMMA ArriveMaps ==
    ASSUME TypesOK, NEW q \in Request, NEW r \in Replica, NEW c \in Credential, Arrive(q, r, c)
    PROVE  Live!Arrive(q, r, c)
<1>1. /\ req[q].pc = "idle" /\ UNCHANGED <<clock, tokens>>
      /\ req'[q].pc = "auth" /\ req'[q].at = r /\ req'[q].cred = c
      /\ \A p \in Request : p # q => req'[p] = req[p]
  BY DEF Arrive, TypesOK
<1>2. CallOf(req'[q]) = [verdict |-> "pending", at |-> r, cred |-> c]
  BY <1>1 DEF CallOf, InMiddleware, Judging
<1>3. Calls' = [Calls EXCEPT ![q] = [verdict |-> "pending", at |-> r, cred |-> c]]
  BY <1>1, <1>2, OneCall
<1>4. Calls[q].verdict = "none"
  BY <1>1 DEF Calls, CallOf, InMiddleware, Judging
<1>5. FreshTokens' = FreshTokens
  BY <1>1, SameFresh DEF Arrive
<1> QED BY <1>1, <1>3, <1>4, <1>5, SameEntries DEF Live!Arrive

\* The reply of a bearer request ends the call, that of a token endpoint is invisible.
LEMMA RespondMaps ==
    ASSUME TypesOK, NEW q \in Request, Respond(q)
    PROVE  Live!Answer(q)
<1>1. /\ req[q].pc \in {"admitted", "unauthorized"} /\ UNCHANGED <<clock, tokens>>
      /\ req'[q].pc = "idle" /\ \A p \in Request : p # q => req'[p] = req[p]
  BY DEF Respond, Idle, TypesOK
<1>2. CallOf(req'[q]) = Live!NoCall
  BY <1>1 DEF CallOf, InMiddleware, Judging, Live!NoCall
<1>3. Calls' = [Calls EXCEPT ![q] = Live!NoCall]
  BY <1>1, <1>2, OneCall
<1>4. Calls[q].verdict \in {"admitted", "unauthorized"}
  BY <1>1 DEF Calls, CallOf, InMiddleware, Judging
<1>5. FreshTokens' = FreshTokens
  BY <1>1, SameFresh DEF Respond
<1> QED BY <1>1, <1>3, <1>4, <1>5, SameEntries DEF Live!Answer

\* The static checks judge: no credential is honoured nowhere, the API key everywhere.
LEMMA CheckStaticMaps ==
    ASSUME TypesOK, NEW q \in Request, CheckStatic(q)
    PROVE  Live!Judge(q)
<1>1. req \in [Request -> ReqState] /\ UNCHANGED <<clock, tokens, minted>> /\ req[q].pc \in Judging
  BY DEF TypesOK, CheckStatic, Judging
<1>2. PICK v \in {"admitted", "unauthorized"} :
          /\ req' = [req EXCEPT ![q].pc = v]
          /\ v = "admitted" <=> Live!Honours(req[q].at, req[q].cred)
  <2>1. CASE req[q].cred = NoCredential /\ req' = [req EXCEPT ![q].pc = "unauthorized"]
    BY <2>1, CredentialAssumption DEF Live!Honours
  <2>2. CASE req[q].cred = ApiKey /\ req' = [req EXCEPT ![q].pc = "admitted"]
    BY <2>2 DEF Live!Honours
  <2> QED BY <2>1, <2>2 DEF CheckStatic
<1>3. /\ req'[q].pc = v /\ req'[q].at = req[q].at /\ req'[q].cred = req[q].cred
      /\ \A p \in Request : p # q => req'[p] = req[p]
  BY <1>1, <1>2 DEF ReqState
<1> QED BY <1>1, <1>2, <1>3, Judged

\* A look-up that fails judges; one that succeeds is invisible.
LEMMA LookupMaps ==
    ASSUME TypesOK, NEW q \in Request, Lookup(q)
    PROVE  Live!Judge(q) \/ UNCHANGED <<clock, FreshTokens, LiveEntries, Calls>>
<1>1. /\ req \in [Request -> ReqState] /\ UNCHANGED <<clock, tokens, minted>> /\ req[q].pc = "auth"
      /\ req[q].at \in Replica /\ req[q].cred \in Token
  BY DEF TypesOK, Lookup
<1> DEFINE entry == tokens[req[q].at][req[q].cred]
<1>2. CASE entry = Absent
  <2>1. req' = [req EXCEPT ![q].pc = "unauthorized"]
    BY <1>2 DEF Lookup
  <2>2. /\ req'[q].pc = "unauthorized" /\ req'[q].at = req[q].at /\ req'[q].cred = req[q].cred
        /\ \A p \in Request : p # q => req'[p] = req[p]
    BY <1>1, <2>1 DEF ReqState
  <2>3. LiveEntries[req[q].at][req[q].cred] = Absent
    BY <1>1, <1>2, Mapping
  <2>4. ~ Live!Honours(req[q].at, req[q].cred)
    BY <1>1, <2>3, CredentialAssumption DEF Live!Honours
  <2>5. req[q].pc \in Judging /\ "unauthorized" \in {"admitted", "unauthorized"}
    BY <1>1 DEF Judging
  <2> QED BY <1>1, <2>2, <2>4, <2>5, Judged
<1>3. CASE entry # Absent
  <2>1. req' = [req EXCEPT ![q].pc = "decide", ![q].exp = entry] /\ entry \in Expiry
    BY <1>1, <1>3 DEF Lookup, TypesOK
  <2> HIDE DEF entry
  <2>2. /\ req'[q].pc = "decide" /\ req'[q].at = req[q].at /\ req'[q].cred = req[q].cred
        /\ \A p \in Request : p # q => req'[p] = req[p]
    BY <1>1, <2>1, EntryFound
  <2>3. CallOf(req'[q]) = CallOf(req[q])
    BY <1>1, <2>2 DEF CallOf, InMiddleware, Judging
  <2>4. Calls' = Calls
    BY <2>2, <2>3 DEF Calls
  <2>5. FreshTokens' = FreshTokens
    BY <1>1, <2>2, SameFresh
  <2> QED BY <1>1, <2>4, <2>5, SameEntries
<1> QED BY <1>2, <1>3

\* The clock reading after the look-up judges: by then the entry is what the
\* look-up has found, or it has lapsed.
LEMMA DecideMaps ==
    ASSUME TypesOK, FoundEntriesKept, NEW q \in Request, Decide(q)
    PROVE  Live!Judge(q)
<1>1. /\ req \in [Request -> ReqState] /\ UNCHANGED <<clock, tokens, minted>> /\ req[q].pc = "decide"
      /\ req[q].at \in Replica /\ req[q].cred \in Token
      /\ req[q].exp \in Int /\ req[q].exp # Absent /\ clock \in Int
  BY TimeAssumption, AbsentAssumption DEF TypesOK, Decide, Expiry, Time
<1>2. KeptUntil(req[q].at, req[q].cred, req[q].exp)
  BY <1>1 DEF FoundEntriesKept
<1>3. LiveEntries[req[q].at][req[q].cred] # Absent <=> ~ clock > req[q].exp
  BY <1>1, <1>2, Mapping DEF KeptUntil
<1>4. Live!Honours(req[q].at, req[q].cred) <=> ~ clock > req[q].exp
  BY <1>1, <1>3, CredentialAssumption DEF Live!Honours
<1>5. PICK v \in {"admitted", "unauthorized"} :
          req' = [req EXCEPT ![q].pc = v] /\ (v = "admitted" <=> ~ clock > req[q].exp)
  BY DEF Decide
<1>6. /\ req'[q].pc = v /\ req'[q].at = req[q].at /\ req'[q].cred = req[q].cred
      /\ \A p \in Request : p # q => req'[p] = req[p]
  BY <1>1, <1>5 DEF ReqState
<1>7. req[q].pc \in Judging
  BY <1>1 DEF Judging
<1> QED BY <1>1, <1>4, <1>5, <1>6, <1>7, Judged

\* A sweep takes only what has lapsed, by a time that is not in the future.
LEMMA PurgeIsInvisible ==
    ASSUME IInv, NEW r \in Replica, PurgeLoop(r)
    PROVE  UNCHANGED <<clock, FreshTokens, LiveEntries, Calls>>
<1>0. TypesOK /\ SweepsLookBack
  BY DEF IInv
<1>1. CASE PurgeRead(r)
  BY <1>1, SameEntries, SameFresh DEF PurgeRead, Calls
<1>2. CASE PurgeSweep(r)
  <2>1. /\ UNCHANGED <<clock, req>> /\ sweep[r] <= clock /\ sweep[r] \in Int /\ clock \in Int
        /\ tokens' = [tokens EXCEPT ![r] = Swept(tokens[r], sweep[r])]
    BY <1>0, <1>2, TimeAssumption DEF PurgeSweep, SweepsLookBack, TypesOK, Time
  <2>2. ASSUME NEW s \in Replica, NEW t \in Token
        PROVE  /\ tokens[s][t] # Absent => tokens[s][t] \in Int
               /\ \/ tokens'[s][t] = tokens[s][t]
                  \/ tokens'[s][t] = Absent /\ tokens[s][t] # Absent /\ sweep[r] > tokens[s][t]
    BY <1>0, <2>1, TimeAssumption DEF Swept, TypesOK, Expiry
  <2>3. ASSUME NEW s \in Replica, NEW t \in Token
        PROVE  LiveEntries'[s][t] = LiveEntries[s][t]
    BY <2>1, <2>2 DEF LiveEntries
  <2>4. LiveEntries' = LiveEntries
    BY <2>3 DEF LiveEntries
  <2>5. FreshTokens' = FreshTokens
    BY <1>2, SameFresh DEF PurgeSweep
  <2> QED BY <2>1, <2>4, <2>5 DEF Calls
<1> QED BY <1>1, <1>2 DEF PurgeLoop

\* A restart empties the replica's table and drops the calls it was serving.
LEMMA RestartMaps ==
    ASSUME TypesOK, NEW r \in Replica, Restart(r)
    PROVE  Live!Restart(r)
<1>1. /\ clock' = clock
      /\ tokens' = [tokens EXCEPT ![r] = EmptyMap]
      /\ req' = [q \in Request |-> IF req[q].at = r THEN Idle ELSE req[q]]
  BY DEF Restart
<1>2. LiveEntries' = [LiveEntries EXCEPT ![r] = [t \in Token |-> Absent]]
  BY <1>1 DEF LiveEntries, EmptyMap, TypesOK
<1>3. CallOf(Idle) = Live!NoCall
  BY DEF CallOf, Idle, InMiddleware, Judging, Live!NoCall
<1>4. ASSUME NEW q \in Request
      PROVE  Calls'[q] = IF Calls[q].at = r THEN Live!NoCall ELSE Calls[q]
  <2>1. Calls'[q] = CallOf(req'[q]) /\ Calls[q] = CallOf(req[q])
    BY DEF Calls
  <2>2. CASE req[q].pc \in InMiddleware
    <3>1. Calls[q].at = req[q].at
      BY <2>1, <2>2 DEF CallOf
    <3> QED BY <1>1, <1>3, <2>1, <3>1
  <2>3. CASE req[q].pc \notin InMiddleware
    <3>1. Calls[q] = Live!NoCall /\ Calls[q].at = Absent
      BY <2>1, <2>3 DEF CallOf, Live!NoCall
    <3> QED BY <1>1, <1>3, <2>1, <3>1, AbsentAssumption
  <2> QED BY <2>2, <2>3
<1>5. Calls' = [q \in Request |-> IF Calls[q].at = r THEN Live!NoCall ELSE Calls[q]]
  BY <1>4 DEF Calls
<1>6. FreshTokens' \in SUBSET FreshTokens
  BY <1>1 DEF Restart, Idle, FreshTokens
<1> QED BY <1>1, <1>2, <1>5, <1>6 DEF Live!Restart

\* Every step of the implementation is a step of the abstract table or a stutter.
LEMMA StepMaps == RInv /\ [Next]_vars => [Live!Next]_(Live!vars)
<1> SUFFICES ASSUME RInv, [Next]_vars
             PROVE  Live!Next \/ UNCHANGED <<clock, FreshTokens, LiveEntries, Calls>>
  BY DEF Live!vars
<1>0. IInv /\ TypesOK /\ FoundEntriesKept /\ MintsLookBack
  BY DEF RInv, IInv
<1>1. CASE Tick
  BY <1>0, <1>1, TickMaps DEF Live!Next
<1>2. ASSUME NEW q \in Request, TokenEndpoint(q)
      PROVE  Live!Next \/ UNCHANGED <<clock, FreshTokens, LiveEntries, Calls>>
  <2>1. CASE Store(q)
    BY <1>0, <2>1, StoreMaps DEF Live!Next
  <2> QED BY <1>0, <1>2, <2>1, IssuingIsInvisible DEF TokenEndpoint
<1>3. ASSUME NEW q \in Request, Middleware(q)
      PROVE  Live!Next \/ UNCHANGED <<clock, FreshTokens, LiveEntries, Calls>>
  <2>1. ASSUME NEW r \in Replica, NEW c \in Credential, Arrive(q, r, c) PROVE Live!Next
    BY <1>0, <2>1, ArriveMaps DEF Live!Next, Credential
  <2>2. CASE CheckStatic(q)
    BY <1>0, <2>2, CheckStaticMaps DEF Live!Next
  <2>3. CASE Lookup(q)
    BY <1>0, <2>3, LookupMaps DEF Live!Next
  <2>4. CASE Decide(q)
    BY <1>0, <2>4, DecideMaps DEF Live!Next
  <2>5. CASE Respond(q)
    BY <1>0, <2>5, RespondMaps DEF Live!Next
  <2> QED BY <1>3, <2>1, <2>2, <2>3, <2>4, <2>5 DEF Middleware
<1>4. ASSUME NEW r \in Replica, PurgeLoop(r)
      PROVE  UNCHANGED <<clock, FreshTokens, LiveEntries, Calls>>
  BY <1>0, <1>4, PurgeIsInvisible
<1>5. ASSUME NEW r \in Replica, Restart(r) PROVE Live!Next
  BY <1>0, <1>5, RestartMaps DEF Live!Next
<1>6. CASE UNCHANGED vars
  BY <1>6 DEF vars, FreshTokens, LiveEntries, Calls
<1> QED BY <1>1, <1>2, <1>3, <1>4, <1>5, <1>6 DEF Next

\* The token store implements LiveTokens: every verdict of the middleware is
\* the right one at one instant between the arrival of the request and its
\* answer, whatever purge, expiry, the token endpoints and restarts do between
\* the middleware's look-up and its reading of the clock; and a token is granted
\* once, by one replica, for at most TTL from then.
THEOREM TokenStoreImplementsLiveTokens == Spec => ImplementsLiveTokens
<1>1. RInv /\ [Next]_vars => [Live!Next]_(Live!vars)
  BY StepMaps
<1> QED
  BY InitMaps, <1>1, RefinementInvariance, PTL DEF Spec, ImplementsLiveTokens, Live!Spec
=============================================================================
