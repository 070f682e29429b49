------------------------------ MODULE KeysApi_proofs ------------------------------
(***************************************************************************)
(* The safety properties of KeysApi for any number of users, keys,         *)
(* requests and faults.  Between two calls of a handler the keys may       *)
(* change, but in one direction only (Steady); what a handler has learnt   *)
(* from its earlier calls stays true in that direction (Good).             *)
(***************************************************************************)
EXTENDS KeysApi, FiniteSetTheorems, TLAPS

KeyRecord == {NoKey} \cup [owner : UserId, status : {"valid", "expired", "deleted"}]
CallRecord ==
    [pc : {"idle", "answered"} \cup InRPC, op : Op, tailnet : Tailnet \cup {"-"},
     key : KeyId \cup {Absent}, user : UserId \cup {Absent}, status : Status]

\* A path that names another user than the dedicated one.
Foreign(tn) == tailnetName # "-" /\ tn # "-" /\ tn # tailnetName

Alive(k, ks) == ks[k].status \in {"valid", "expired"}

\* Why a 404 is true for good: the key is no more, or its owner has not the
\* name that the tailnet stands for.
Hidden(c, ks) ==
    \/ ~ Alive(c.key, ks)
    \/ /\ Resolved(c.tailnet) # "-"
       /\ Foreign(c.tailnet) \/ NameOf[ks[c.key].owner] # Resolved(c.tailnet)

Named == {"get", "delete"}                          \* requests that name a key
Knowing == {"list", "create", "expire", "delete"}   \* the user has been resolved

\* What the handler of c has learnt and relies on.
Good(c, ks) ==
    /\ c.op \in Named => c.key \in KeyId /\ ks[c.key].status # "unborn"
    /\ c.pc \in {"expire", "delete"} => c.op = "delete"
    /\ c.pc = "create" => c.op = "create"
    /\ c.pc \in Knowing =>
          /\ c.user \in UserId
          /\ Resolved(c.tailnet) # "-" =>
                NameOf[c.user] = Resolved(c.tailnet) /\ ~ Foreign(c.tailnet)
    /\ c.pc \in Knowing /\ c.op \in Named /\ Resolved(c.tailnet) = "-" /\ Alive(c.key, ks)
          => ks[c.key].owner = c.user
    /\ c.pc \in {"expire", "delete"} /\ NameOf[c.user] # Nameless
          => NameOf[ks[c.key].owner] = NameOf[c.user]
    /\ c.pc = "delete" => ks[c.key].status # "valid"
    /\ c.pc = "answered" /\ c.op = "delete" /\ c.status = 200 => ks[c.key].status = "deleted"
    /\ c.pc = "answered" /\ c.op \in Named /\ c.status = 404 => Hidden(c, ks)

\* headscale removes the keys of a user with the user.
OwnersPresent == \A k \in KeyId : Exists(k) => keys[k].owner \in Users

KeysType == keys \in [KeyId -> KeyRecord]
CallsType == call \in [Request -> CallRecord]

RestType ==
    /\ tailnetName \in TailnetNames
    /\ users \in [UserId -> {"unborn", "present", "gone"}]
    /\ faults \in 0 .. MaxFaults

Relying == \A q \in Request : Good(call[q], keys)

IInv == RestType /\ KeysType /\ CallsType /\ OwnersPresent /\ Relying

-------------------------------------------------------------------------------
(* The keys.                                                                *)

\* How the keys may change under a handler that waits.
Steady ==
    \A k \in KeyId : keys[k].status # "unborn" =>
        /\ keys'[k].owner = keys[k].owner
        /\ keys'[k].status # "unborn"
        /\ keys[k].status # "valid" => keys'[k].status # "valid"
        /\ keys[k].status = "deleted" => keys'[k].status = "deleted"
        /\ Alive(k, keys') => Alive(k, keys)

LEMMA StandStill == ASSUME KeysType, keys' = keys PROVE KeysType' /\ Steady
BY DEF KeysType, Steady, KeyRecord, NoKey, Alive

LEMMA Creating ==
    ASSUME KeysType, NEW k \in KeyId, Unborn(k), NEW u \in UserId, keys' = KeyCreated(k, u)
    PROVE  /\ KeysType' /\ Steady
           /\ keys'[k] = [owner |-> u, status |-> "valid"]
           /\ \A l \in KeyId : l # k => keys'[l] = keys[l]
<1>1. \A l \in KeyId : keys'[l] = IF l = k THEN [owner |-> u, status |-> "valid"] ELSE keys[l]
  BY DEF KeyCreated, KeysType
<1>2. [owner |-> u, status |-> "valid"] \in KeyRecord
  BY DEF KeyRecord
<1>3. KeysType'
  BY <1>1, <1>2 DEF KeysType, KeyCreated
<1>4. keys[k].status = "unborn"
  BY DEF Unborn
<1>5. Steady
  BY <1>1, <1>4 DEF Steady, Alive
<1> QED BY <1>1, <1>3, <1>5

\* A key that is not alive stays what it is, whatever is done to it.
LEMMA Marking ==
    ASSUME KeysType, NEW k \in KeyId, NEW s \in {"expired", "deleted"},
           keys' = [keys EXCEPT ![k].status = IF Exists(k) THEN s ELSE @]
    PROVE  /\ KeysType' /\ Steady
           /\ keys'[k].owner = keys[k].owner
           /\ keys'[k].status = IF Exists(k) THEN s ELSE keys[k].status
           /\ \A l \in KeyId : l # k => keys'[l] = keys[l]
<1>1. \A l \in KeyId : l # k => keys'[l] = keys[l]
  BY DEF KeysType
<1>2. CASE Exists(k)
  <2>1. keys[k] = [owner |-> keys[k].owner, status |-> keys[k].status] /\ keys[k].owner \in UserId
        /\ keys[k].status \in {"valid", "expired"}
    BY <1>2 DEF KeysType, KeyRecord, NoKey, Exists
  <2>2. keys'[k] = [owner |-> keys[k].owner, status |-> s]
    BY <1>2, <2>1 DEF KeysType
  <2>3. keys'[k] \in KeyRecord
    BY <2>1, <2>2 DEF KeyRecord
  <2>4. KeysType'
    BY <1>1, <2>3 DEF KeysType
  <2>5. Steady
    BY <1>1, <2>1, <2>2 DEF Steady, Alive
  <2> QED BY <1>1, <1>2, <2>2, <2>4, <2>5
<1>3. CASE ~ Exists(k)
  <2>1. keys[k] = [owner |-> keys[k].owner, status |-> keys[k].status]
    BY DEF KeysType, KeyRecord, NoKey
  <2>2. keys'[k] = keys[k]
    BY <1>3, <2>1 DEF KeysType
  <2>3. keys' = keys
    BY <1>1, <2>2 DEF KeysType
  <2> QED BY <1>3, <2>3, StandStill
<1> QED BY <1>2, <1>3

-------------------------------------------------------------------------------
LEMMA Statuses ==
    /\ {200, 400, 401, 403, 404, 409, 500} \subseteq Status
    /\ Lost \in Status /\ Lost # 200 /\ Lost # 400 /\ Lost # 404
BY DEF Status, Lost

LEMMA Ending ==
    ASSUME NEW c \in CallRecord, NEW s \in Status
    PROVE  /\ [c EXCEPT !.pc = "answered", !.status = s] \in CallRecord
           /\ [c EXCEPT !.pc = "resolve", !.user = Absent, !.status = s] \in CallRecord
BY DEF CallRecord, InRPC

LEMMA EndingWith ==
    ASSUME NEW c \in CallRecord, NEW s \in Status, NEW k \in KeyId
    PROVE  [c EXCEPT !.pc = "answered", !.status = s, !.key = k] \in CallRecord
BY DEF CallRecord

LEMMA Beginning ==
    ASSUME NEW c \in CallRecord, NEW op \in Op, NEW tn \in Tailnet, NEW k \in KeyId \cup {Absent}
    PROVE  [c EXCEPT !.pc = "resolve", !.op = op, !.tailnet = tn, !.key = k] \in CallRecord
BY DEF CallRecord, InRPC

LEMMA IdleTyped == Idle \in CallRecord
BY Statuses DEF Idle, CallRecord, Op

-------------------------------------------------------------------------------
(* Requests that wait, and those that are served.                           *)

\* What a request has learnt stays true while the keys move.
LEMMA GoodStays ==
    ASSUME NEW c, Good(c, keys), Steady
    PROVE  Good(c, keys')
<1>1. c.op \in Named => /\ c.key \in KeyId /\ keys[c.key].status # "unborn"
                        /\ keys'[c.key].status # "unborn"
                        /\ keys'[c.key].owner = keys[c.key].owner
                        /\ keys[c.key].status # "valid" => keys'[c.key].status # "valid"
                        /\ keys[c.key].status = "deleted" => keys'[c.key].status = "deleted"
                        /\ Alive(c.key, keys') => Alive(c.key, keys)
  BY DEF Good, Steady
<1>2. c.pc \in {"expire", "delete"} => c.op \in Named
  BY DEF Good, Named
<1>3. c.op = "delete" => c.op \in Named
  BY DEF Named
<1>4. c.op \in Named => (Hidden(c, keys) => Hidden(c, keys'))
  BY <1>1 DEF Hidden
<1> QED BY <1>1, <1>2, <1>3, <1>4 DEF Good

\* One request takes a step: its locals become r.
LEMMA Stepping ==
    ASSUME IInv, NEW q \in Request, NEW r \in CallRecord, call' = [call EXCEPT ![q] = r],
           tailnetName' = tailnetName, Steady, Good(r, keys')
    PROVE  CallsType' /\ Relying'
<1>1. CallsType'
  BY DEF IInv, CallsType
<1>2. \A p \in Request : Good(call'[p], keys')
  <2> TAKE p \in Request
  <2>1. CASE p = q
    <3>1. call'[p] = r
      BY <2>1 DEF IInv, CallsType
    <3> QED BY <3>1
  <2>2. CASE p # q
    <3>1. call'[p] = call[p] /\ Good(call[p], keys)
      BY <2>2 DEF IInv, CallsType, Relying
    <3> QED BY <3>1, GoodStays
  <2> QED BY <2>1, <2>2
<1>3. Relying'
  BY <1>2 DEF Relying, Good, Hidden, Foreign, Resolved
<1> QED BY <1>1, <1>3
\* The handler answers.
LEMMA Answering ==
    ASSUME IInv, NEW q \in Request, NEW s \in Status, Answer(q, s),
           tailnetName' = tailnetName, Steady,
           call[q].op = "delete" /\ s = 200 => keys'[call[q].key].status = "deleted",
           call[q].op \in Named /\ s = 404 => Hidden(call[q], keys')
    PROVE  CallsType' /\ Relying'
<1> DEFINE c == call[q]
           r == [c EXCEPT !.pc = "answered", !.status = s]
<1>1. c \in CallRecord /\ Good(c, keys)
  BY DEF IInv, CallsType, Relying
<1>2. r \in CallRecord
  BY <1>1 DEF CallRecord
<1>3. call' = [call EXCEPT ![q] = r]
  <2>1. call \in [Request -> CallRecord]
    BY DEF IInv, CallsType
  <2>2. call' = [call EXCEPT ![q].pc = "answered", ![q].status = s]
    BY DEF Answer
  <2> QED BY <2>1, <2>2
<1>4. Good(c, keys')
  BY <1>1, GoodStays
<1>5. r.pc = "answered" /\ r.status = s /\ r.op = c.op /\ r.key = c.key /\ r.tailnet = c.tailnet
  BY <1>1 DEF CallRecord
<1> HIDE DEF r
<1>6. Hidden(c, keys') => Hidden(r, keys')
  BY <1>5 DEF Hidden
<1>7. Good(r, keys')
  BY <1>4, <1>5, <1>6 DEF Good, Knowing
<1> QED BY <1>2, <1>3, <1>7, Stepping

\* The handler goes on to its next call.
LEMMA GoingOn ==
    ASSUME IInv, NEW q \in Request, Goto(q, "delete") \/ Goto(q, "expire"),
           call[q].pc \in Knowing, call[q].op = "delete",
           tailnetName' = tailnetName, Steady,
           NameOf[call[q].user] # Nameless => NameOf[keys'[call[q].key].owner] = NameOf[call[q].user],
           Goto(q, "delete") => keys'[call[q].key].status # "valid"
    PROVE  CallsType' /\ Relying'
<1> DEFINE c == call[q]
           r(pc) == [pc |-> pc, op |-> c.op, tailnet |-> c.tailnet, key |-> c.key,
                     user |-> c.user, status |-> c.status]
<1>1. c \in CallRecord /\ Good(c, keys)
  BY DEF IInv, CallsType, Relying
<1>2. PICK pc \in {"delete", "expire"} : Goto(q, pc)
  OBVIOUS
<1>3. r(pc) \in CallRecord
  BY <1>1 DEF CallRecord, InRPC
<1>4. call' = [call EXCEPT ![q] = r(pc)]
  BY <1>1, <1>2 DEF Goto, CallRecord, IInv, CallsType
<1>5. Good(c, keys')
  BY <1>1, GoodStays
<1>6. pc = "delete" => keys'[c.key].status # "valid"
  BY <1>2
<1>7. Good(r(pc), keys')
  BY <1>5, <1>6 DEF Good, Knowing, Named
<1> HIDE DEF r
<1> QED BY <1>3, <1>4, <1>7, Stepping

Kept == KeysType' /\ CallsType' /\ OwnersPresent' /\ Relying'

-------------------------------------------------------------------------------
(* The calls of the handlers.                                               *)

LEMMA ListingKeeps ==
    ASSUME IInv, NEW q \in Request, ListPreAuthKeys(q), tailnetName' = tailnetName
    PROVE  Kept
<1>1. keys' = keys /\ users' = users
  BY DEF ListPreAuthKeys
<1>2. KeysType' /\ Steady
  BY <1>1, StandStill DEF IInv
<1>3. OwnersPresent'
  BY <1>1 DEF IInv, OwnersPresent, Exists, Users
<1>4. call[q] \in CallRecord /\ Good(call[q], keys) /\ call[q].pc = "list"
  BY DEF IInv, CallsType, Relying, ListPreAuthKeys
<1>5. {200, 404} \subseteq Status
  BY DEF Status
<1>6. call[q].op \in Named /\ ~ Find(q) => Hidden(call[q], keys')
  <2> SUFFICES ASSUME call[q].op \in Named, ~ Find(q), Alive(call[q].key, keys)
               PROVE  /\ Resolved(call[q].tailnet) # "-"
                      /\ NameOf[keys[call[q].key].owner] # Resolved(call[q].tailnet)
    BY <1>1 DEF Hidden
  <2>1. NameOf[keys[call[q].key].owner] # NameOf[call[q].user]
    BY <1>4 DEF Find, KeysOfName, Exists, Alive, Good
  <2>2. Resolved(call[q].tailnet) # "-"
    BY <1>4, <2>1 DEF Good, Knowing
  <2> QED BY <1>4, <2>1, <2>2 DEF Good, Knowing
<1>7. CASE call[q].op = "list" /\ Answer(q, 200)
  BY <1>2, <1>3, <1>5, <1>7, Answering DEF Kept, Named
<1>8. CASE call[q].op = "get" /\ Answer(q, IF Find(q) THEN 200 ELSE 404)
  <2>1. CASE Find(q)
    BY <1>2, <1>3, <1>5, <1>8, <2>1, Answering DEF Kept
  <2>2. CASE ~ Find(q)
    BY <1>2, <1>3, <1>5, <1>6, <1>8, <2>2, Answering DEF Kept
  <2> QED BY <2>1, <2>2
<1>9. CASE call[q].op = "delete" /\ ~ Find(q) /\ Answer(q, 404)
  BY <1>2, <1>3, <1>5, <1>6, <1>9, Answering DEF Kept
<1>10. CASE call[q].op = "delete" /\ Find(q) /\ Goto(q, "expire")
  <2>1. NameOf[call[q].user] # Nameless => NameOf[keys'[call[q].key].owner] = NameOf[call[q].user]
    BY <1>1, <1>10 DEF Find, KeysOfName
  <2>2. ~ Goto(q, "delete")
    BY <1>10 DEF Goto, IInv, CallsType, CallRecord
  <2> QED BY <1>2, <1>3, <1>4, <1>10, <2>1, <2>2, GoingOn DEF Kept, Knowing
<1> QED BY <1>7, <1>8, <1>9, <1>10 DEF ListPreAuthKeys
\* What a failed call may have done: it moves the keys in the one direction,
\* removes none that is valid, and touches no other tailnet's.
Gently ==
    /\ KeysType' /\ Steady
    /\ \A k \in KeyId : keys[k].status = "valid" => keys'[k].status # "deleted"
    /\ \A k \in KeyId : keys'[k] # keys[k] /\ tailnetName \notin {"-", Nameless}
          => NameOf[keys'[k].owner] = tailnetName

\* A dedicated TAILNET_NAME holds for every user a request has resolved.
LEMMA Dedicated ==
    ASSUME IInv, NEW q \in Request, call[q].pc \in Knowing, tailnetName # "-"
    PROVE  call[q].user \in UserId /\ NameOf[call[q].user] = tailnetName
<1>1. Good(call[q], keys)
  BY DEF IInv, Relying
<1>2. /\ Resolved(call[q].tailnet) # "-"
      /\ call[q].tailnet = "-" => Resolved(call[q].tailnet) = tailnetName
      /\ call[q].tailnet # "-" => Resolved(call[q].tailnet) = call[q].tailnet
  BY DEF Resolved
<1>3. ~ Foreign(call[q].tailnet) /\ NameOf[call[q].user] = Resolved(call[q].tailnet)
      /\ call[q].user \in UserId
  BY <1>1, <1>2 DEF Good
<1> QED BY <1>2, <1>3 DEF Foreign

LEMMA CreatingKeeps ==
    ASSUME IInv, NEW q \in Request, NEW k \in KeyId, Unborn(k),
           call[q].pc = "create", call[q].user \in Users,
           keys' = KeyCreated(k, call[q].user), users' = users
    PROVE  Gently /\ OwnersPresent'
<1>1. call[q].user \in UserId
  BY DEF Users
<1>2. /\ KeysType' /\ Steady
      /\ keys'[k] = [owner |-> call[q].user, status |-> "valid"]
      /\ \A l \in KeyId : l # k => keys'[l] = keys[l]
  BY <1>1, Creating DEF IInv
<1>3. OwnersPresent'
  BY <1>2 DEF IInv, OwnersPresent, Exists, Users
<1>4. tailnetName # "-" => NameOf[call[q].user] = tailnetName
  BY Dedicated DEF Knowing
<1>5. \A l \in KeyId : keys[l].status = "valid" => keys'[l].status # "deleted"
  <2>1. keys'[k].status = "valid"
    BY <1>2
  <2> QED BY <1>2, <2>1
<1>6. \A l \in KeyId : keys'[l] # keys[l] /\ tailnetName \notin {"-", Nameless}
          => NameOf[keys'[l].owner] = tailnetName
  BY <1>2, <1>4
<1> QED BY <1>2, <1>3, <1>5, <1>6 DEF Gently

LEMMA MarkingKeeps ==
    ASSUME IInv, NEW q \in Request, NEW s \in {"expired", "deleted"}, users' = users,
           call[q].pc \in {"expire", "delete"}, s = "deleted" => call[q].pc = "delete",
           keys' = [keys EXCEPT ![call[q].key].status = IF Exists(call[q].key) THEN s ELSE @]
    PROVE  /\ Gently /\ OwnersPresent'
           /\ call[q].key \in KeyId /\ call[q].op = "delete"
           /\ keys'[call[q].key].status =
                 IF Exists(call[q].key) THEN s ELSE keys[call[q].key].status
           /\ NameOf[call[q].user] # Nameless => NameOf[keys'[call[q].key].owner] = NameOf[call[q].user]
<1> DEFINE k == call[q].key
<1>1. /\ k \in KeyId /\ call[q].op = "delete"
      /\ NameOf[call[q].user] # Nameless => NameOf[keys[k].owner] = NameOf[call[q].user]
      /\ call[q].pc = "delete" => keys[k].status # "valid"
  BY DEF IInv, Relying, Good, Named
<1> HIDE DEF k
<1>2. keys' = [keys EXCEPT ![k].status = IF Exists(k) THEN s ELSE @]
  BY DEF k
<1>3. /\ KeysType' /\ Steady
      /\ keys'[k].owner = keys[k].owner
      /\ keys'[k].status = IF Exists(k) THEN s ELSE keys[k].status
      /\ \A l \in KeyId : l # k => keys'[l] = keys[l]
  BY <1>1, <1>2, Marking DEF IInv
<1>4. OwnersPresent'
  BY <1>3 DEF IInv, OwnersPresent, Exists, Users
<1>5. tailnetName \notin {"-", Nameless} => NameOf[keys'[k].owner] = tailnetName
  BY <1>1, <1>3, Dedicated DEF Knowing
<1>6. keys[k].status = "valid" => keys'[k].status # "deleted"
  BY <1>1, <1>3 DEF Exists
<1>7. Gently
  BY <1>3, <1>5, <1>6 DEF Gently
<1> QED BY <1>1, <1>3, <1>4, <1>7 DEF k
LEMMA BeginKeeps ==
    ASSUME IInv, NEW q \in Request, NEW op \in Op, NEW tn \in Tailnet,
           NEW k \in KeyId \cup {Absent}, Begin(q, op, tn, k), tailnetName' = tailnetName
    PROVE  Kept
<1> DEFINE r == [Idle EXCEPT !.pc = "resolve", !.op = op, !.tailnet = tn, !.key = k]
<1>1. keys' = keys /\ users' = users /\ call' = [call EXCEPT ![q] = r]
  BY DEF Begin
<1>2. KeysType' /\ Steady
  BY <1>1, StandStill DEF IInv
<1>3. OwnersPresent'
  BY <1>1 DEF IInv, OwnersPresent, Exists, Users
<1>4. r.pc = "resolve" /\ r.op = op /\ r.key = k
  BY DEF Idle
<1>5. op \in Named => k \in KeyId /\ keys'[k].status # "unborn"
  BY <1>1 DEF Begin, Named, Unborn
<1>6. r \in CallRecord
  BY IdleTyped, Beginning
<1> HIDE DEF r
<1>7. Good(r, keys')
  BY <1>4, <1>5 DEF Good, Knowing
<1> QED BY <1>1, <1>2, <1>3, <1>6, <1>7, Stepping DEF Kept

LEMMA ResolvingKeeps ==
    ASSUME IInv, NEW q \in Request, ResolveUser(q), tailnetName' = tailnetName
    PROVE  Kept
<1> DEFINE c == call[q]
<1>1. keys' = keys /\ users' = users
  BY DEF ResolveUser
<1>2. KeysType' /\ Steady
  BY <1>1, StandStill DEF IInv
<1>3. OwnersPresent'
  BY <1>1 DEF IInv, OwnersPresent, Exists, Users
<1>4. c \in CallRecord /\ Good(c, keys) /\ Good(c, keys') /\ c.pc = "resolve"
  BY <1>2, GoodStays DEF IInv, CallsType, Relying, ResolveUser
<1>5. \A k \in KeyId : Alive(k, keys') => keys'[k].owner \in Users /\ keys'[k].owner \in UserId
  BY <1>1 DEF IInv, OwnersPresent, Exists, Alive, Users
<1>6. ASSUME NEW u \in Candidates(c.tailnet),
             call' = [call EXCEPT ![q].pc = IF c.op = "create" THEN "create" ELSE "list",
                                  ![q].user = u]
      PROVE  Kept
  <2> DEFINE pc == IF c.op = "create" THEN "create" ELSE "list"
             r == [c EXCEPT !.pc = pc, !.user = u]
  <2>1. u \in UserId /\ u \in Users
    BY <1>6 DEF Candidates, Users
  <2>2. Resolved(c.tailnet) # "-" => NameOf[u] = Resolved(c.tailnet) /\ ~ Foreign(c.tailnet)
    BY <1>6 DEF Candidates, Foreign
  <2>3. Resolved(c.tailnet) = "-" => Users = {u}
    <3> SUFFICES ASSUME Resolved(c.tailnet) = "-" PROVE Users = {u}
      OBVIOUS
    <3>1. Cardinality(Users) = 1
      BY <1>6 DEF Candidates
    <3>2. IsFiniteSet(Users)
      BY UserAssumption, FS_Subset DEF Users
    <3>3. PICK v : Users = {v}
      BY <3>1, <3>2, FS_Singleton
    <3> QED BY <2>1, <3>3
  <2>4. Resolved(c.tailnet) = "-" => \A k \in KeyId : Alive(k, keys') => keys'[k].owner = u
    BY <1>5, <2>3
  <2>5. pc \in {"create", "list"} /\ (pc = "create" => c.op = "create")
    OBVIOUS
  <2> HIDE DEF pc
  <2>6. /\ r.pc = pc /\ r.user = u /\ r.op = c.op /\ r.key = c.key /\ r.tailnet = c.tailnet
        /\ r.status = c.status
    BY <1>4 DEF CallRecord
  <2>7. r \in CallRecord
    BY <1>4, <2>1, <2>5 DEF CallRecord, InRPC
  <2>8. call' = [call EXCEPT ![q] = r]
    <3>1. call \in [Request -> CallRecord]
      BY DEF IInv, CallsType
    <3>2. call' = [call EXCEPT ![q].pc = pc, ![q].user = u]
      BY <1>6 DEF pc
    <3> QED BY <3>1, <3>2
  <2> HIDE DEF r
  <2>9. Good(r, keys')
    BY <1>4, <2>1, <2>2, <2>4, <2>5, <2>6 DEF Good
  <2> QED BY <1>2, <1>3, <2>7, <2>8, <2>9, Stepping DEF Kept
<1>7. ASSUME Candidates(c.tailnet) = {}, Answer(q, ResolveError(c.tailnet))
      PROVE  Kept
  <2>1. ResolveError(c.tailnet) \in {400, 404}
    BY DEF ResolveError
  <2>2. {400, 404} \subseteq Status
    BY DEF Status
  <2>3. ASSUME ResolveError(c.tailnet) = 404, c.op \in Named, Alive(c.key, keys')
        PROVE  /\ Resolved(c.tailnet) # "-"
               /\ Foreign(c.tailnet) \/ NameOf[keys'[c.key].owner] # Resolved(c.tailnet)
    <3>1. c.key \in KeyId
      BY <1>4, <2>3 DEF Good
    <3>2. keys'[c.key].owner \in Users
      BY <1>5, <2>3, <3>1
    <3>3. Resolved(c.tailnet) # "-"
      BY <2>3, <3>2 DEF ResolveError
    <3>4. CASE Foreign(c.tailnet)
      BY <3>3, <3>4
    <3>5. CASE ~ Foreign(c.tailnet)
      BY <1>7, <3>2, <3>3, <3>5 DEF Candidates, Foreign
    <3> QED BY <3>4, <3>5
  <2>4. c.op \in Named /\ ResolveError(c.tailnet) = 404 => Hidden(c, keys')
    BY <2>3 DEF Hidden
  <2>5. ResolveError(c.tailnet) # 200
    BY <2>1
  <2> QED BY <1>2, <1>3, <1>7, <2>1, <2>2, <2>4, <2>5, Answering DEF Kept
<1> QED BY <1>6, <1>7 DEF ResolveUser
LEMMA BadBodyKeeps ==
    ASSUME IInv, NEW q \in Request, BadBody(q), tailnetName' = tailnetName
    PROVE  Kept
<1>1. keys' = keys /\ users' = users /\ Answer(q, 400)
  BY DEF BadBody
<1>2. KeysType' /\ Steady
  BY <1>1, StandStill DEF IInv
<1>3. OwnersPresent'
  BY <1>1 DEF IInv, OwnersPresent, Exists, Users
<1>4. 400 \in Status
  BY DEF Status
<1>5. call[q].op \notin Named
  BY DEF BadBody, IInv, Relying, Good, Named
<1> QED BY <1>1, <1>2, <1>3, <1>4, <1>5, Answering DEF Kept, Named

\* A create is answered: with the new key, or not at all.
LEMMA CreateKeeps ==
    ASSUME IInv, NEW q \in Request, CreatePreAuthKey(q), tailnetName' = tailnetName
    PROVE  Kept
<1> DEFINE c == call[q]
<1>1. users' = users /\ c.pc = "create"
  BY DEF CreatePreAuthKey
<1>2. c \in CallRecord /\ c.op = "create"
  BY <1>1 DEF IInv, CallsType, Relying, Good
<1>3. ASSUME c.user \in Users, NEW k \in KeyId, Unborn(k), keys' = KeyCreated(k, c.user),
             call' = [call EXCEPT ![q].pc = "answered", ![q].status = 200, ![q].key = k]
      PROVE  Kept
  <2> DEFINE r == [c EXCEPT !.pc = "answered", !.status = 200, !.key = k]
  <2>1. Gently /\ OwnersPresent'
    BY <1>1, <1>3, CreatingKeeps
  <2>2. r \in CallRecord
    <3>1. 200 \in Status
      BY Statuses
    <3> QED BY <1>2, <1>3, <3>1, EndingWith
  <2>3. r.pc = "answered" /\ r.op = "create"
    BY <1>2 DEF CallRecord
  <2>4. call' = [call EXCEPT ![q] = r]
    <3>1. call \in [Request -> CallRecord]
      BY DEF IInv, CallsType
    <3>2. call' = [call EXCEPT ![q].pc = "answered", ![q].status = 200, ![q].key = k]
      BY <1>3
    <3> QED BY <3>1, <3>2
  <2> HIDE DEF r
  <2>5. Good(r, keys')
    BY <2>3 DEF Good, Named, Knowing
  <2> QED BY <2>1, <2>2, <2>4, <2>5, Stepping DEF Kept, Gently
<1>4. ASSUME NEW s \in {404, 500}, Answer(q, s), keys' = keys
      PROVE  Kept
  <2>1. KeysType' /\ Steady /\ OwnersPresent'
    BY <1>1, <1>4, StandStill DEF IInv, OwnersPresent, Exists, Users
  <2>2. s \in Status
    BY DEF Status
  <2> QED BY <1>2, <1>4, <2>1, <2>2, Answering DEF Kept, Named
<1> QED BY <1>3, <1>4 DEF CreatePreAuthKey

LEMMA ExpireKeeps ==
    ASSUME IInv, NEW q \in Request, ExpirePreAuthKey(q), tailnetName' = tailnetName
    PROVE  Kept
<1> DEFINE c == call[q]
<1>1. users' = users /\ c.pc = "expire" /\ keys' = KeyExpired(c.key)
  BY DEF ExpirePreAuthKey
<1>2. /\ Gently /\ OwnersPresent'
      /\ c.key \in KeyId /\ c.op = "delete"
      /\ keys'[c.key].status = IF Exists(c.key) THEN "expired" ELSE keys[c.key].status
      /\ NameOf[c.user] # Nameless => NameOf[keys'[c.key].owner] = NameOf[c.user]
  BY <1>1, MarkingKeeps DEF KeyExpired
<1>3. CASE Goto(q, "delete")
  <2>1. keys'[c.key].status # "valid"
    BY <1>2 DEF Exists
  <2> QED BY <1>1, <1>2, <1>3, <2>1, GoingOn DEF Kept, Gently, Knowing
<1>4. ASSUME ~ Exists(c.key), NEW s \in {404, 500}, Answer(q, s)
      PROVE  Kept
  <2>1. Hidden(c, keys')
    BY <1>2, <1>4 DEF Hidden, Alive, Exists
  <2>2. s \in Status /\ s # 200
    BY DEF Status
  <2> QED BY <1>2, <1>4, <2>1, <2>2, Answering DEF Kept, Gently
<1> QED BY <1>3, <1>4 DEF ExpirePreAuthKey

LEMMA DeleteKeeps ==
    ASSUME IInv, NEW q \in Request, DeletePreAuthKey(q), tailnetName' = tailnetName
    PROVE  Kept
<1> DEFINE c == call[q]
<1>1. users' = users /\ c.pc = "delete" /\ keys' = KeyDeleted(c.key)
  BY DEF DeletePreAuthKey
<1>2. /\ Gently /\ OwnersPresent'
      /\ c.key \in KeyId /\ c.op = "delete"
      /\ keys'[c.key].status = IF Exists(c.key) THEN "deleted" ELSE keys[c.key].status
  BY <1>1, MarkingKeeps DEF KeyDeleted
<1>3. keys[c.key].status \in {"unborn", "valid", "expired", "deleted"}
      /\ keys[c.key].status # "unborn"
  BY <1>2 DEF IInv, KeysType, KeyRecord, NoKey, Relying, Good, Named
<1>4. keys'[c.key].status = "deleted"
  BY <1>2, <1>3 DEF Exists
<1>5. Hidden(c, keys')
  BY <1>4 DEF Hidden, Alive
<1>6. PICK s \in {200, 404, 500} : Answer(q, s)
  BY DEF DeletePreAuthKey
<1>7. s \in Status
  BY DEF Status
<1> QED BY <1>2, <1>4, <1>5, <1>6, <1>7, Answering DEF Kept, Gently
LEMMA StandingGently ==
    ASSUME KeysType, keys' = keys
    PROVE  Gently
BY StandStill DEF Gently

LEMMA EffectsKeep ==
    ASSUME IInv, NEW q \in Request, users' = users, keys' \in {keys} \cup Effects(q)
    PROVE  Gently /\ OwnersPresent'
<1>1. CASE keys' = keys
  BY <1>1, StandingGently DEF IInv, OwnersPresent, Exists, Users
<1>2. CASE keys' \in Effects(q) /\ call[q].pc = "expire"
  <2>1. keys' = KeyExpired(call[q].key)
    BY <1>2 DEF Effects
  <2> QED BY <1>2, <2>1, MarkingKeeps DEF KeyExpired
<1>3. CASE keys' \in Effects(q) /\ call[q].pc = "delete"
  <2>1. keys' = KeyDeleted(call[q].key)
    BY <1>3 DEF Effects
  <2> QED BY <1>3, <2>1, MarkingKeeps DEF KeyDeleted
<1>4. CASE keys' \in Effects(q) /\ call[q].pc = "create" /\ call[q].user \in Users
  <2>1. PICK k \in KeyId : Unborn(k) /\ keys' = KeyCreated(k, call[q].user)
    BY <1>4 DEF Effects
  <2> QED BY <1>4, <2>1, CreatingKeeps
<1>5. CASE /\ call[q].pc # "expire" /\ call[q].pc # "delete"
           /\ ~ (call[q].pc = "create" /\ call[q].user \in Users)
  <2>1. Effects(q) = {}
    BY <1>5, Zenon DEF Effects
  <2> QED BY <1>1, <2>1
<1> QED BY <1>1, <1>2, <1>3, <1>4, <1>5

\* What a failed call is answered with: never with success, and never with a 404.
LEMMA Failures ==
    ASSUME NEW c \in RefusalCodes \cup Ambiguous
    PROVE  HTTPStatus(c) \in {400, 401, 403, 409, 500}
BY RefusalAssumption DEF Refusal, Ambiguous, HTTPStatus, Case

LEMMA FailingKeeps ==
    ASSUME IInv, NEW q \in Request, RPCFails(q), tailnetName' = tailnetName
    PROVE  Kept
<1>1. Gently /\ OwnersPresent'
  BY EffectsKeep DEF RPCFails
<1>2. PICK s \in {400, 401, 403, 409, 500} : Answer(q, s)
  BY Failures DEF RPCFails
<1>3. s \in Status /\ s # 200 /\ s # 404
  BY Statuses
<1> QED BY <1>1, <1>2, <1>3, Answering DEF Kept, Gently

-------------------------------------------------------------------------------
(* Crashes, the client, and the administrator.                              *)

LEMMA CrashKeeps ==
    ASSUME IInv, Crash, tailnetName' = tailnetName
    PROVE  Kept
<1> DEFINE Fallen(c) == [c EXCEPT !.pc = "answered", !.status = Lost]
<1>1. keys' = keys /\ users' = users
  BY DEF Crash
<1>2. KeysType' /\ OwnersPresent'
  BY <1>1, StandStill DEF IInv, OwnersPresent, Exists, Users
<1>3. ASSUME NEW p \in Request
      PROVE  Fallen(call[p]) \in CallRecord /\ Good(Fallen(call[p]), keys)
  <2>1. call[p] \in CallRecord /\ Good(call[p], keys)
    BY DEF IInv, CallsType, Relying
  <2> DEFINE r == Fallen(call[p])
  <2>2. r \in CallRecord
    BY <2>1, Statuses, Ending
  <2>3. r.pc = "answered" /\ r.op = call[p].op /\ r.key = call[p].key /\ r.status = Lost
    BY <2>1, SMTT(30) DEF CallRecord
  <2> HIDE DEF r
  <2>4. Good(r, keys)
    BY <2>1, <2>3, Statuses DEF Good, Knowing
  <2> QED BY <2>2, <2>4 DEF r
<1>4. call' = [q \in Request |-> IF call[q].pc \in InRPC THEN Fallen(call[q]) ELSE call[q]]
  BY DEF Crash
<1> HIDE DEF Fallen
<1>5. \A p \in Request : call'[p] \in CallRecord /\ Good(call'[p], keys)
  BY <1>3, <1>4 DEF IInv, CallsType, Relying
<1>6. CallsType'
  BY <1>4, <1>5 DEF CallsType
<1>7. Relying'
  BY <1>1, <1>5 DEF Relying, Good, Hidden, Foreign, Resolved
<1> QED BY <1>2, <1>6, <1>7 DEF Kept

LEMMA ClientKeeps ==
    ASSUME IInv, NEW q \in Request, ClientProceeds(q), tailnetName' = tailnetName
    PROVE  Kept
<1> DEFINE c == call[q]
           again == [c EXCEPT !.pc = "resolve", !.user = Absent, !.status = Lost]
<1>1. keys' = keys /\ users' = users
  BY DEF ClientProceeds
<1>2. KeysType' /\ OwnersPresent' /\ Steady
  BY <1>1, StandStill DEF IInv, OwnersPresent, Exists, Users
<1>3. c \in CallRecord /\ Good(c, keys')
  BY <1>2, GoodStays DEF IInv, CallsType, Relying
<1>4. again \in CallRecord
  BY <1>3, Statuses, Ending
<1>5. again.pc = "resolve" /\ again.op = c.op /\ again.key = c.key
  BY <1>3, SMTT(30) DEF CallRecord
<1>6. PICK r \in {again, Idle} : call' = [call EXCEPT ![q] = r]
  BY DEF ClientProceeds
<1> HIDE DEF again
<1>7. Good(again, keys')
  BY <1>3, <1>5 DEF Good, Knowing
<1>8. Idle \in CallRecord /\ Good(Idle, keys')
  BY IdleTyped DEF Idle, Good, Named, Knowing
<1> QED BY <1>2, <1>4, <1>6, <1>7, <1>8, Stepping DEF Kept
LEMMA AdminKeeps ==
    ASSUME IInv, Admin, call' = call, faults' = faults, tailnetName' = tailnetName
    PROVE  Kept /\ RestType' /\ Steady
<1>1. /\ users \in [UserId -> {"unborn", "present", "gone"}]
      /\ KeysType /\ CallsType
      /\ \A k \in KeyId : Exists(k) => keys[k].owner \in UserId /\ users[keys[k].owner] = "present"
  BY DEF IInv, RestType, OwnersPresent, Users
<1>2. ASSUME Steady PROVE CallsType' /\ Relying'
  <2>1. \A p \in Request : Good(call'[p], keys')
    BY <1>2, GoodStays DEF IInv, Relying
  <2> QED BY <1>1, <2>1 DEF CallsType, Relying, Good, Hidden, Foreign, Resolved
<1>3. ASSUME KeysType', Steady, users' \in [UserId -> {"unborn", "present", "gone"}],
             \A k \in KeyId : Alive(k, keys') => keys'[k].owner \in UserId
                                                 /\ users'[keys'[k].owner] = "present"
      PROVE  Kept /\ RestType' /\ Steady
  <2>1. RestType'
    BY <1>3 DEF IInv, RestType
  <2>2. OwnersPresent'
    BY <1>3 DEF OwnersPresent, Exists, Alive, Users
  <2> QED BY <1>2, <1>3, <2>1, <2>2 DEF Kept
<1>4. ASSUME NEW u \in UserId, AddUser(u) PROVE Kept /\ RestType' /\ Steady
  <2>1. keys' = keys /\ users' = [users EXCEPT ![u] = "present"] /\ users[u] = "unborn"
    BY <1>4 DEF AddUser
  <2>2. KeysType' /\ Steady
    BY <1>1, <2>1, StandStill
  <2>3. \A k \in KeyId : Alive(k, keys') => keys'[k].owner \in UserId
                                            /\ users'[keys'[k].owner] = "present"
    BY <1>1, <2>1 DEF Exists, Alive
  <2>4. users' \in [UserId -> {"unborn", "present", "gone"}]
    BY <1>1, <2>1
  <2> QED BY <1>3, <2>2, <2>3, <2>4
<1>5. ASSUME NEW u \in UserId, RemoveUser(u) PROVE Kept /\ RestType' /\ Steady
  <2>1. \A k \in KeyId : keys'[k] = IF Exists(k) /\ keys[k].owner = u
                                    THEN [keys[k] EXCEPT !.status = "deleted"] ELSE keys[k]
    BY <1>5 DEF RemoveUser
  <2>2. users' = [users EXCEPT ![u] = "gone"]
    BY <1>5 DEF RemoveUser
  <2>3. ASSUME NEW k \in KeyId, Exists(k), keys[k].owner = u
        PROVE  keys'[k] = [owner |-> u, status |-> "deleted"]
    <3>1. keys[k] = [owner |-> u, status |-> keys[k].status]
      BY <1>1, <2>3 DEF KeysType, KeyRecord, NoKey
    <3> QED BY <2>1, <2>3, <3>1
  <2>4. \A k \in KeyId : ~ (Exists(k) /\ keys[k].owner = u) => keys'[k] = keys[k]
    BY <2>1
  <2>5. KeysType'
    <3>1. \A k \in KeyId : keys'[k] \in KeyRecord
      BY <1>1, <2>3, <2>4 DEF KeysType, KeyRecord
    <3> QED BY <1>5, <3>1 DEF RemoveUser, KeysType
  <2>6. Steady
    BY <2>3, <2>4 DEF Steady, Alive, Exists
  <2>7. \A k \in KeyId : Alive(k, keys') => keys'[k].owner \in UserId
                                            /\ users'[keys'[k].owner] = "present"
    <3> SUFFICES ASSUME NEW k \in KeyId, Alive(k, keys')
                 PROVE  keys'[k].owner \in UserId /\ users'[keys'[k].owner] = "present"
      OBVIOUS
    <3>1. keys'[k] = keys[k] /\ Exists(k) /\ keys[k].owner # u
      BY <2>3, <2>4 DEF Alive, Exists
    <3> QED BY <1>1, <2>2, <3>1
  <2>8. users' \in [UserId -> {"unborn", "present", "gone"}]
    BY <1>1, <2>2
  <2> QED BY <1>3, <2>5, <2>6, <2>7, <2>8
<1>6. ASSUME NEW u \in UserId, NEW k \in KeyId, AdminCreatesKey(u, k) PROVE Kept /\ RestType' /\ Steady
  <2>1. users[u] = "present" /\ Unborn(k) /\ keys' = KeyCreated(k, u) /\ users' = users
    BY <1>6 DEF AdminCreatesKey
  <2>2. /\ KeysType' /\ Steady
        /\ keys'[k] = [owner |-> u, status |-> "valid"]
        /\ \A l \in KeyId : l # k => keys'[l] = keys[l]
    BY <1>1, <2>1, Creating
  <2>3. \A l \in KeyId : Alive(l, keys') => keys'[l].owner \in UserId
                                            /\ users'[keys'[l].owner] = "present"
    BY <1>1, <2>1, <2>2 DEF Exists, Alive
  <2> QED BY <1>1, <1>3, <2>1, <2>2, <2>3
<1>7. ASSUME NEW k \in KeyId, KeyLapses(k) PROVE Kept /\ RestType' /\ Steady
  <2>1. keys' = [keys EXCEPT ![k].status = IF Exists(k) THEN "expired" ELSE @] /\ users' = users
    BY <1>7 DEF KeyLapses, KeyExpired
  <2>2. /\ KeysType' /\ Steady
        /\ keys'[k].owner = keys[k].owner
        /\ \A l \in KeyId : l # k => keys'[l] = keys[l]
    BY <1>1, <2>1, Marking
  <2>3. \A l \in KeyId : Alive(l, keys') => keys'[l].owner \in UserId
                                            /\ users'[keys'[l].owner] = "present"
    <3>1. \A l \in KeyId : Alive(l, keys') => Exists(l)
      BY <1>7, <2>2 DEF KeyLapses, Exists, Alive
    <3> QED BY <1>1, <2>1, <2>2, <3>1
  <2> QED BY <1>1, <1>3, <2>1, <2>2, <2>3
<1> QED BY <1>4, <1>5, <1>6, <1>7 DEF Admin
-------------------------------------------------------------------------------
(* The theorems.                                                            *)

LEMMA Starts == ASSUME Init PROVE IInv
<1>1. RestType
  BY FaultAssumption DEF Init, HeadscaleInit, RestType
<1>2. keys \in [KeyId -> {NoKey} \cup [owner : Users, status : {"valid"}]]
  BY DEF Init, HeadscaleInit
<1>3. Users \subseteq UserId
  BY DEF Users
<1>4. KeysType
  BY <1>2, <1>3 DEF KeysType, KeyRecord
<1>5. OwnersPresent
  BY <1>2 DEF OwnersPresent, Exists, NoKey
<1>6. \A q \in Request : call[q] = Idle
  BY DEF Init
<1>7. Idle \in CallRecord
  BY IdleTyped
<1>8. Good(Idle, keys)
  BY DEF Good, Idle, Named, Knowing
<1>9. CallsType
  BY <1>6, <1>7 DEF CallsType, Init
<1>10. Relying
  BY <1>6, <1>8 DEF Relying
<1> QED BY <1>1, <1>4, <1>5, <1>9, <1>10 DEF IInv

\* What a request does to the keys.
LEMMA RequestsGently ==
    ASSUME IInv, NEW q \in Request,
           \/ HandlerStep(q) \/ RPCFails(q) \/ ClientProceeds(q)
           \/ \E op \in Op, tn \in Tailnet, k \in KeyId \cup {Absent} : Begin(q, op, tn, k)
    PROVE  Gently
<1>1. CASE keys' = keys
  BY <1>1, StandingGently DEF IInv
<1>2. CASE CreatePreAuthKey(q)
  <2>1. keys' \in {keys} \cup Effects(q) /\ users' = users
    BY <1>2, Zenon DEF CreatePreAuthKey, Effects
  <2> QED BY <2>1, EffectsKeep
<1>3. CASE ExpirePreAuthKey(q)
  BY <1>3, MarkingKeeps DEF ExpirePreAuthKey, KeyExpired
<1>4. CASE DeletePreAuthKey(q)
  BY <1>4, MarkingKeeps DEF DeletePreAuthKey, KeyDeleted
<1>5. CASE RPCFails(q)
  BY <1>5, EffectsKeep DEF RPCFails
<1>6. CASE ResolveUser(q) \/ ListPreAuthKeys(q) \/ BadBody(q) \/ ClientProceeds(q)
  BY <1>1, <1>6 DEF ResolveUser, ListPreAuthKeys, BadBody, ClientProceeds
<1>7. CASE \E op \in Op, tn \in Tailnet, k \in KeyId \cup {Absent} : Begin(q, op, tn, k)
  BY <1>1, <1>7 DEF Begin
<1> QED BY <1>2, <1>3, <1>4, <1>5, <1>6, <1>7 DEF HandlerStep

LEMMA Steps == ASSUME IInv, [Next]_vars PROVE IInv'
<1>1. CASE Next
  <2>1. tailnetName' = tailnetName
    BY <1>1 DEF Next
  <2>2. CASE Admin /\ UNCHANGED <<call, faults>>
    BY <2>1, <2>2, AdminKeeps DEF Kept, IInv
  <2>3. ASSUME Kept, users' = users, faults' \in 0 .. MaxFaults PROVE IInv'
    BY <2>1, <2>3 DEF Kept, IInv, RestType
  <2>4. faults \in 0 .. MaxFaults
    BY DEF IInv, RestType
  <2>5. faults < MaxFaults => faults + 1 \in 0 .. MaxFaults
    BY <2>4, FaultAssumption
  <2>6. CASE Crash
    BY <2>1, <2>3, <2>5, <2>6, CrashKeeps DEF Crash
  <2>7. ASSUME NEW q \in Request, HandlerStep(q) PROVE IInv'
    <3>1. users' = users /\ faults' = faults
      BY <2>7 DEF HandlerStep, ResolveUser, ListPreAuthKeys, BadBody, CreatePreAuthKey,
                  ExpirePreAuthKey, DeletePreAuthKey
    <3>2. Kept
      BY <2>1, <2>7, ResolvingKeeps, ListingKeeps, BadBodyKeeps, CreateKeeps, ExpireKeeps,
         DeleteKeeps DEF HandlerStep
    <3> QED BY <2>3, <2>4, <3>1, <3>2
  <2>8. ASSUME NEW q \in Request, RPCFails(q) PROVE IInv'
    BY <2>1, <2>3, <2>5, <2>8, FailingKeeps DEF RPCFails
  <2>9. ASSUME NEW q \in Request, ClientProceeds(q) PROVE IInv'
    BY <2>1, <2>3, <2>4, <2>9, ClientKeeps DEF ClientProceeds
  <2>10. ASSUME NEW q \in Request, NEW op \in Op, NEW tn \in Tailnet,
                NEW k \in KeyId \cup {Absent}, Begin(q, op, tn, k)
         PROVE  IInv'
    BY <2>1, <2>3, <2>4, <2>10, BeginKeeps DEF Begin
  <2> QED BY <1>1, <2>2, <2>6, <2>7, <2>8, <2>9, <2>10 DEF Next
<1>2. CASE UNCHANGED vars
  BY <1>2 DEF vars, IInv, RestType, KeysType, CallsType, OwnersPresent, Exists, Users, Relying,
              Good, Hidden, Alive, Foreign, Resolved
<1> QED BY <1>1, <1>2

\* Every step moves the keys in the one direction.
LEMMA AllSteady == ASSUME IInv, [Next]_vars PROVE Steady
<1>1. CASE Admin /\ UNCHANGED <<tailnetName, call, faults>>
  BY <1>1, AdminKeeps
<1>2. CASE keys' = keys
  BY <1>2, StandStill DEF IInv
<1>3. CASE Crash \/ UNCHANGED vars
  BY <1>2, <1>3 DEF Crash, vars
<1> QED BY <1>1, <1>3, RequestsGently DEF Next, Gently

LEMMA Invariance == Spec => []IInv
BY Starts, Steps, PTL DEF Spec

\* The state of the auth-key routes keeps its types: keys, locals, answers.
THEOREM KeysTypeCorrect == Spec => []TypeOK
<1>1. IInv => TypeOK
  BY DEF IInv, RestType, KeysType, CallsType, KeyRecord, CallRecord, TypeOK
<1> QED BY <1>1, Invariance, PTL

\* A DELETE answered 200 has removed its key and a 404 was for a key the
\* tailnet does not have, for any number of requests and faults (DeleteKey, GetKey).
THEOREM AnswersTrue == Spec => []AnswersAreTrue
<1>1. IInv => AnswersAreTrue
  <2> SUFFICES ASSUME IInv, NEW q \in Request, call[q].pc = "answered"
               PROVE  /\ call[q].op = "delete" /\ call[q].status = 200 => ~ Exists(call[q].key)
                      /\ call[q].op \in {"get", "delete"} /\ call[q].status = 404
                            => ~ Visible(call[q].tailnet, call[q].key)
    BY DEF AnswersAreTrue
  <2>1. Good(call[q], keys)
    BY DEF IInv, Relying
  <2>2. Exists(call[q].key) <=> Alive(call[q].key, keys)
    BY DEF Exists, Alive
  <2>3. ASSUME Hidden(call[q], keys) PROVE ~ Visible(call[q].tailnet, call[q].key)
    BY <2>2, <2>3 DEF Hidden, Visible, Candidates, Foreign
  <2> QED BY <2>1, <2>2, <2>3 DEF Good, Named, Alive
<1> QED BY <1>1, Invariance, PTL

LEMMA Gentleness == IInv /\ [Next]_vars /\ call' # call => Gently
<1> SUFFICES ASSUME IInv, [Next]_vars, call' # call PROVE Gently
  OBVIOUS
<1>1. CASE Crash
  <2>1. keys' = keys
    BY <1>1 DEF Crash
  <2> QED BY <2>1, StandingGently DEF IInv
<1> QED BY <1>1, RequestsGently DEF Next, vars

\* No request removes a key that a node could still register with (DeleteKey).
THEOREM ExpiredFirst == Spec => NeverDeletedUsable
<1>1. IInv /\ [Next]_vars =>
         [\A k \in KeyId :
             call' # call /\ keys[k].status = "valid" => keys'[k].status # "deleted"]_vars
  BY Gentleness DEF Gently
<1> QED BY <1>1, Invariance, PTL DEF Spec, NeverDeletedUsable

\* A dedicated TAILNET_NAME that is not empty confines every request, whatever
\* tailnet its path names and whatever happens to the users meanwhile
\* (resolveTailnetUser, ListPreAuthKeys).
THEOREM OthersUntouched == Spec => OtherTailnetsUntouched
<1>1. IInv /\ [Next]_vars =>
         [tailnetName \notin {"-", Nameless} /\ call' # call =>
             \A k \in KeyId : keys'[k] # keys[k] => NameOf[keys'[k].owner] = tailnetName]_vars
  BY Gentleness DEF Gently
<1> QED BY <1>1, Invariance, PTL DEF Spec, OtherTailnetsUntouched
-------------------------------------------------------------------------------
(* How a DELETE that is repeated gets to its end.                           *)

\* q is a DELETE, or the client waiting to repeat one that headscale has not
\* refused, of a key that its tailnet has, with a dedicated TAILNET_NAME.
Deleting(q, k) ==
    /\ tailnetName # "-"
    /\ call[q].pc # "idle" /\ call[q].op = "delete" /\ call[q].key = k
    /\ ~ Refused(q, k)
    /\ Visible(call[q].tailnet, k)

\* What is between the DELETE and its end: each failure that is still to come
\* costs it one more round of four calls.
Stage(pc) ==
    CASE pc = "answered" -> 5
      [] pc = "resolve"  -> 4
      [] pc = "list"     -> 3
      [] pc = "expire"   -> 2
      [] pc = "delete"   -> 1
      [] OTHER           -> 0
Distance(q) == 5 * (MaxFaults - faults) + Stage(call[q].pc)

\* As long as the key exists, and until headscale refuses one of its calls, the
\* DELETE is not given up, no failure, crash or step of others throws it back,
\* and each step of its own brings it nearer: but for a refusal there is no
\* answer on which the client stops too early, and no call that a repetition
\* cannot get past (DeleteKey).
DeletionDrawsNear ==
    [][\A q \in Request, k \in KeyId :
          Deleting(q, k) =>
             \/ ~ Exists(k)' \/ Refused(q, k)'
             \/ /\ Deleting(q, k)'
                /\ Distance(q)' <= Distance(q)
                /\ Proceeds(q) => Distance(q)' < Distance(q)]_vars

LEMMA Stages ==
    /\ Stage("answered") = 5 /\ Stage("resolve") = 4 /\ Stage("list") = 3
    /\ Stage("expire") = 2 /\ Stage("delete") = 1
    /\ \A pc : Stage(pc) \in 0 .. 5
BY DEF Stage

\* With a dedicated name the tailnet has a key as long as the key exists,
\* whatever becomes of the other users.
LEMMA Seen ==
    ASSUME IInv, tailnetName # "-", NEW k \in KeyId, NEW tn
    PROVE  /\ Resolved(tn) # "-"
           /\ Visible(tn, k) <=> /\ Exists(k) /\ ~ Foreign(tn)
                                 /\ NameOf[keys[k].owner] = Resolved(tn)
<1>1. Resolved(tn) # "-"
  BY DEF Resolved
<1>2. Exists(k) => keys[k].owner \in Users
  BY DEF IInv, OwnersPresent
<1> QED BY <1>1, <1>2 DEF Visible, Candidates, Foreign

\* The locals that a DELETE keeps throughout.
Same(c, d) == d.pc # "idle" /\ d.op = c.op /\ d.tailnet = c.tailnet /\ d.key = c.key

\* The DELETE's own step.
LEMMA DeleteAdvances ==
    ASSUME IInv, NEW q \in Request, NEW k \in KeyId, Deleting(q, k), Proceeds(q), Steady,
           Alive(k, keys')
    PROVE  /\ faults' = faults /\ Same(call[q], call'[q])
           /\ Stage(call'[q].pc) < Stage(call[q].pc)
<1> DEFINE c == call[q]
<1>1. /\ c \in CallRecord /\ call \in [Request -> CallRecord] /\ Good(c, keys)
      /\ c.op = "delete" /\ c.key = k /\ tailnetName # "-"
  BY DEF IInv, CallsType, Relying, Deleting
<1>2. /\ Resolved(c.tailnet) # "-" /\ Exists(k) /\ ~ Foreign(c.tailnet)
      /\ NameOf[keys[k].owner] = Resolved(c.tailnet)
      /\ Candidates(c.tailnet) # {}
  <2>1. Visible(c.tailnet, k)
    BY DEF Deleting
  <2> QED BY <1>1, <2>1, Seen DEF Visible
<1>3. ASSUME NEW pc \in {"resolve", "list", "expire", "delete"}, c.pc # "idle",
             call'[q].pc = pc, call'[q].op = c.op, call'[q].tailnet = c.tailnet,
             call'[q].key = c.key, Stage(pc) < Stage(c.pc), faults' = faults
      PROVE  /\ faults' = faults /\ Same(call[q], call'[q])
             /\ Stage(call'[q].pc) < Stage(call[q].pc)
  BY <1>3 DEF Same
<1>4. CASE ResolveUser(q)
  <2>1. PICK u \in Candidates(c.tailnet) : call' = [call EXCEPT ![q].pc = "list", ![q].user = u]
    BY <1>1, <1>2, <1>4 DEF ResolveUser
  <2>2. call'[q].pc = "list" /\ call'[q].op = c.op /\ call'[q].tailnet = c.tailnet /\ call'[q].key = c.key
    BY <1>1, <2>1 DEF CallRecord
  <2>3. c.pc = "resolve" /\ faults' = faults
    BY <1>4 DEF ResolveUser
  <2> QED BY <1>3, <2>2, <2>3, Stages
<1>5. CASE ListPreAuthKeys(q)
  <2>1. c.pc = "list" /\ faults' = faults
    BY <1>5 DEF ListPreAuthKeys
  <2>2. NameOf[c.user] = Resolved(c.tailnet)
    BY <1>1, <1>2, <2>1 DEF Good, Knowing
  <2>3. Find(q)
    BY <1>1, <1>2, <2>2 DEF Find, KeysOfName
  <2>4. Goto(q, "expire")
    BY <1>1, <1>5, <2>3 DEF ListPreAuthKeys
  <2>5. call'[q].pc = "expire" /\ call'[q].op = c.op /\ call'[q].tailnet = c.tailnet /\ call'[q].key = c.key
    BY <1>1, <2>4 DEF Goto, CallRecord
  <2> QED BY <1>3, <2>1, <2>5, Stages
<1>6. CASE ExpirePreAuthKey(q)
  <2>1. c.pc = "expire" /\ faults' = faults /\ Goto(q, "delete")
    BY <1>1, <1>2, <1>6 DEF ExpirePreAuthKey
  <2>2. call'[q].pc = "delete" /\ call'[q].op = c.op /\ call'[q].tailnet = c.tailnet /\ call'[q].key = c.key
    BY <1>1, <2>1 DEF Goto, CallRecord
  <2> QED BY <1>3, <2>1, <2>2, Stages
<1>7. CASE DeletePreAuthKey(q)
  <2>1. keys' = [keys EXCEPT ![k].status = "deleted"]
    BY <1>1, <1>2, <1>7 DEF DeletePreAuthKey, KeyDeleted
  <2>2. keys'[k].status = "deleted"
    BY <1>2, <2>1 DEF IInv, KeysType, KeyRecord, NoKey, Exists
  <2> QED BY <2>2 DEF Alive
<1>8. CASE ClientProceeds(q)
  <2>1. c.pc = "answered" /\ faults' = faults
    BY <1>8 DEF ClientProceeds
  <2>2. ~ Hidden(c, keys) /\ keys[k].status # "deleted"
    BY <1>1, <1>2 DEF Hidden, Alive, Exists
  <2>3. c.status \notin {200, 400, 401, 403, 404, 409}
    BY <1>1, <2>1, <2>2 DEF Good, Named, Deleting, Refused
  <2>4. c.status \in {500, Lost}
    BY <1>1, <2>3 DEF CallRecord, Status
  <2>5. call' = [call EXCEPT ![q] = [c EXCEPT !.pc = "resolve", !.user = Absent, !.status = Lost]]
    BY <1>1, <1>8, <2>4 DEF ClientProceeds
  <2>6. call'[q].pc = "resolve" /\ call'[q].op = c.op /\ call'[q].tailnet = c.tailnet /\ call'[q].key = c.key
    BY <1>1, <2>5 DEF CallRecord
  <2> QED BY <1>3, <2>1, <2>6, Stages
<1>9. ~ BadBody(q) /\ ~ CreatePreAuthKey(q)
  BY <1>1 DEF Good, BadBody, CreatePreAuthKey
<1> QED BY <1>4, <1>5, <1>6, <1>7, <1>8, <1>9 DEF Proceeds, HandlerStep

\* A step of others, or a failure.
LEMMA OthersLeaveDelete ==
    ASSUME IInv, NEW q \in Request, NEW k \in KeyId, Deleting(q, k), [Next]_vars, ~ Proceeds(q)
    PROVE  /\ Same(call[q], call'[q])
           /\ \/ faults' \in {faults, faults + 1} /\ call'[q].pc = call[q].pc
              \/ faults' = faults + 1
<1> DEFINE c == call[q]
<1>1. c \in CallRecord /\ call \in [Request -> CallRecord] /\ c.pc # "idle"
  BY DEF IInv, CallsType, Deleting
<1>2. ASSUME call'[q] = c, faults' \in {faults, faults + 1}
      PROVE  /\ Same(call[q], call'[q])
             /\ \/ faults' \in {faults, faults + 1} /\ call'[q].pc = call[q].pc
                \/ faults' = faults + 1
  BY <1>1, <1>2 DEF Same
<1>3. CASE UNCHANGED vars \/ (Admin /\ UNCHANGED <<call, faults>>)
  BY <1>2, <1>3 DEF vars
<1>4. CASE Crash
  <2>1. faults' = faults + 1
    BY <1>4 DEF Crash
  <2>2. call'[q] = IF c.pc \in InRPC THEN [c EXCEPT !.pc = "answered", !.status = Lost] ELSE c
    BY <1>4 DEF Crash
  <2>3. Same(c, call'[q])
    BY <1>1, <2>2 DEF Same, CallRecord
  <2> QED BY <2>1, <2>3
<1>5. CASE RPCFails(q)
  <2>1. faults' = faults + 1 /\ \E s : Answer(q, s)
    BY <1>5 DEF RPCFails
  <2>2. Same(c, call'[q])
    BY <1>1, <2>1 DEF Same, CallRecord, Answer
  <2> QED BY <2>1, <2>2
<1>6. ASSUME NEW p \in Request, p # q,
             \/ HandlerStep(p) \/ RPCFails(p) \/ ClientProceeds(p)
             \/ \E op \in Op, tn \in Tailnet, l \in KeyId \cup {Absent} : Begin(p, op, tn, l)
      PROVE  call'[q] = c /\ faults' \in {faults, faults + 1}
  <2>1. faults' \in {faults, faults + 1}
    BY <1>6 DEF HandlerStep, ResolveUser, ListPreAuthKeys, BadBody, CreatePreAuthKey,
                ExpirePreAuthKey, DeletePreAuthKey, RPCFails, ClientProceeds, Begin
  <2>2. CASE HandlerStep(p)
    <3>1. CASE ResolveUser(p)
      BY <1>1, <1>6, <3>1 DEF ResolveUser, Answer
    <3>2. CASE ListPreAuthKeys(p) \/ BadBody(p)
      BY <1>1, <1>6, <3>2 DEF ListPreAuthKeys, BadBody, Answer, Goto
    <3>3. CASE CreatePreAuthKey(p)
      BY <1>1, <1>6, <3>3 DEF CreatePreAuthKey, Answer
    <3>4. CASE ExpirePreAuthKey(p) \/ DeletePreAuthKey(p)
      BY <1>1, <1>6, <3>4 DEF ExpirePreAuthKey, DeletePreAuthKey, Answer, Goto
    <3> QED BY <2>1, <2>2, <3>1, <3>2, <3>3, <3>4 DEF HandlerStep
  <2>3. CASE RPCFails(p) \/ ClientProceeds(p)
    BY <1>1, <1>6, <2>1, <2>3 DEF RPCFails, ClientProceeds, Answer
  <2>4. CASE \E op \in Op, tn \in Tailnet, l \in KeyId \cup {Absent} : Begin(p, op, tn, l)
    BY <1>1, <1>6, <2>1, <2>4 DEF Begin
  <2> QED BY <1>6, <2>2, <2>3, <2>4
<1>7. ~ \E op \in Op, tn \in Tailnet, l \in KeyId \cup {Absent} : Begin(q, op, tn, l)
  BY <1>1 DEF Begin
<1>8. Next => ~ HandlerStep(q) /\ ~ ClientProceeds(q)
  BY DEF Next, Proceeds
<1> QED BY <1>2, <1>3, <1>4, <1>5, <1>6, <1>7, <1>8 DEF Next

\* A repeated DELETE is never given up nor thrown back while its key exists,
\* unless headscale refuses one of its calls: the safety half of
\* DeletionConverges.
THEOREM DeletesDrawNear == Spec => DeletionDrawsNear
<1>1. IInv /\ IInv' /\ [Next]_vars =>
        [\A q \in Request, k \in KeyId :
            Deleting(q, k) =>
               \/ ~ Exists(k)' \/ Refused(q, k)'
               \/ /\ Deleting(q, k)'
                  /\ Distance(q)' <= Distance(q)
                  /\ Proceeds(q) => Distance(q)' < Distance(q)]_vars
  <2> SUFFICES ASSUME IInv, IInv', [Next]_vars, NEW q \in Request, NEW k \in KeyId,
                      Deleting(q, k), Exists(k)', ~ Refused(q, k)'
               PROVE  /\ Deleting(q, k)'
                      /\ Distance(q)' <= Distance(q)
                      /\ Proceeds(q) => Distance(q)' < Distance(q)
    OBVIOUS
  <2>1. Steady /\ tailnetName' = tailnetName
    BY AllSteady DEF Next, vars
  <2>2. Alive(k, keys')
    BY DEF Exists, Alive
  <2>3. ASSUME Same(call[q], call'[q]) PROVE Deleting(q, k)'
    <3>1. /\ Exists(k) /\ ~ Foreign(call[q].tailnet) /\ tailnetName # "-"
          /\ NameOf[keys[k].owner] = Resolved(call[q].tailnet)
      BY Seen DEF Deleting
    <3>2. keys'[k].owner = keys[k].owner
      BY <2>1, <3>1 DEF Steady, Exists
    <3>3. keys'[k].owner \in Users'
      BY DEF IInv, OwnersPresent
    <3>4. keys'[k].owner \in Candidates(call[q].tailnet)'
      BY <2>1, <2>3, <3>1, <3>2, <3>3 DEF Candidates, Foreign, Resolved, Same
    <3>5. Visible(call[q].tailnet, k)'
      BY <3>4 DEF Visible
    <3> QED BY <2>1, <2>3, <3>5 DEF Deleting, Same
  <2>4. faults \in Int /\ faults' \in Int /\ MaxFaults \in Int
    BY FaultAssumption DEF IInv, RestType
  <2>5. Distance(q) = 5 * (MaxFaults - faults) + Stage(call[q].pc)
        /\ Distance(q)' = 5 * (MaxFaults - faults') + Stage(call'[q].pc)
    BY DEF Distance, Stage
  <2>6. Stage(call[q].pc) \in 1 .. 5 /\ Stage(call'[q].pc) \in 0 .. 5
    <3>1. call[q].pc \in {"answered", "resolve", "list", "expire", "delete", "create"}
      BY DEF IInv, CallsType, CallRecord, InRPC, Deleting
    <3>2. call[q].pc # "create"
      BY DEF IInv, Relying, Good, Deleting
    <3> QED BY <3>1, <3>2, Stages
  <2>7. CASE Proceeds(q)
    BY <2>1, <2>2, <2>3, <2>4, <2>5, <2>6, <2>7, DeleteAdvances
  <2>8. CASE ~ Proceeds(q)
    BY <2>3, <2>4, <2>5, <2>6, <2>8, OthersLeaveDelete
  <2> QED BY <2>7, <2>8
<1> QED BY <1>1, Invariance, PTL DEF Spec, DeletionDrawsNear
=============================================================================
