------------------------------- MODULE Headscale -------------------------------
(***************************************************************************)
(* The headscale control plane as headtotails uses it through gRPC: its    *)
(* users and pre-auth keys, and the administrator who changes them with    *)
(* headscale's own tools while requests are running.  External to the      *)
(* repository: the RPCs are what internal/headscale/client.go and the      *)
(* handlers rely on.                                                       *)
(***************************************************************************)
EXTENDS Integers, FiniteSets

CONSTANTS
    UserId,  \* ids headscale may hand out; an id is never used twice
    NameOf,  \* NameOf[u]: the name of user u; two users may share one
    KeyId,   \* ids of pre-auth keys; never used twice either
    Absent   \* "no value"

ASSUME UserAssumption == IsFiniteSet(UserId)
ASSUME IdAssumption == Absent \notin UserId /\ Absent \notin KeyId

VARIABLES
    users,   \* users[u]: "unborn", "present" or "gone"
    keys     \* keys[k]: its owner and whether it can still be used

Users == {u \in UserId : users[u] = "present"}

NoKey == [owner |-> Absent, status |-> "unborn"]
Unborn(k) == keys[k].status = "unborn"
Exists(k) == keys[k].status \in {"valid", "expired"}

\* Some users exist, with some keys, when headtotails starts.
HeadscaleInit ==
    /\ users \in [UserId -> {"unborn", "present"}]
    /\ keys \in [KeyId -> {NoKey} \cup [owner : Users, status : {"valid"}]]

-------------------------------------------------------------------------------
(* What the mutating RPCs do to the keys.                                   *)

KeyCreated(k, u) == [keys EXCEPT ![k] = [owner |-> u, status |-> "valid"]]
KeyExpired(k) == [keys EXCEPT ![k].status = IF Exists(k) THEN "expired" ELSE @]
KeyDeleted(k) == [keys EXCEPT ![k].status = IF Exists(k) THEN "deleted" ELSE @]

-------------------------------------------------------------------------------
(* The administrator, and time.                                             *)

AddUser(u) ==
    /\ users[u] = "unborn"
    /\ users' = [users EXCEPT ![u] = "present"]
    /\ UNCHANGED keys

\* Removing a user removes its keys.
RemoveUser(u) ==
    /\ users[u] = "present"
    /\ users' = [users EXCEPT ![u] = "gone"]
    /\ keys' = [k \in KeyId |-> IF Exists(k) /\ keys[k].owner = u
                                THEN [keys[k] EXCEPT !.status = "deleted"] ELSE keys[k]]

AdminCreatesKey(u, k) ==
    /\ users[u] = "present"
    /\ Unborn(k)
    /\ keys' = KeyCreated(k, u)
    /\ UNCHANGED users

KeyLapses(k) ==
    /\ keys[k].status = "valid"
    /\ keys' = KeyExpired(k)
    /\ UNCHANGED users

Admin ==
    \/ \E u \in UserId : AddUser(u) \/ RemoveUser(u)
    \/ \E u \in UserId, k \in KeyId : AdminCreatesKey(u, k)
    \/ \E k \in KeyId : KeyLapses(k)
===============================================================================
