------------------------------ MODULE LiveTokens ------------------------------
(***************************************************************************)
(* What the bearer-token half of headtotails promises its callers, with no *)
(* map, no lock, no purge goroutine and no window between a look-up and    *)
(* the clock reading that follows it.                                      *)
(*                                                                         *)
(* Every replica has the set of tokens it currently honours, each with the *)
(* time it lapses, no more than TTL ahead; a token leaves the set by       *)
(* lapsing or because the replica restarts, and for no other reason, and   *)
(* once it has been in the set of one replica it never comes back to that  *)
(* set nor into another's.  A request is judged in one step, against the   *)
(* set as it is at some instant between its arrival and its answer.        *)
(* TokenStore implements this specification.                               *)
(***************************************************************************)
EXTENDS Integers

CONSTANTS
    Replica, Token, Request, ApiKey, NoCredential, Absent,
    Expiry,  \* the times at which a token can lapse
    TTL      \* for how long a token is granted at most

VARIABLES
    clock,  \* the time
    fresh,  \* the tokens that can still be granted
    live,   \* live[r][t]: when t lapses at replica r, or Absent
    call    \* call[q]: the request to an authenticated route q is making

vars == <<clock, fresh, live, call>>

NoCall == [verdict |-> "none", at |-> Absent, cred |-> Absent]

\* The part of the token table f that has not lapsed at time now.
Unlapsed(f, now) ==
    [t \in Token |-> IF f[t] # Absent /\ now <= f[t] THEN f[t] ELSE Absent]

Honours(r, c) ==
    \/ c = ApiKey
    \/ c \in Token /\ live[r][c] # Absent

Init ==
    /\ clock = 0
    /\ fresh = Token
    /\ live = [r \in Replica |-> [t \in Token |-> Absent]]
    /\ call = [q \in Request |-> NoCall]

\* Time passes, and tokens lapse with it.
Tick ==
    /\ clock' = clock + 1
    /\ live' = [r \in Replica |-> Unlapsed(live[r], clock')]
    /\ UNCHANGED <<fresh, call>>

\* Replica r starts to honour token t until time e (not at all if e is past).
Grant(r, t, e) ==
    /\ t \in fresh /\ e <= clock + TTL
    /\ fresh' = fresh \ {t}
    /\ live' = [live EXCEPT ![r] = Unlapsed([live[r] EXCEPT ![t] = e], clock)]
    /\ UNCHANGED <<clock, call>>

Arrive(q, r, c) ==
    /\ call[q].verdict = "none"
    /\ call' = [call EXCEPT ![q] = [verdict |-> "pending", at |-> r, cred |-> c]]
    /\ UNCHANGED <<clock, fresh, live>>

Judge(q) ==
    /\ call[q].verdict = "pending"
    /\ call' = [call EXCEPT ![q].verdict =
                   IF Honours(call[q].at, call[q].cred) THEN "admitted"
                                                        ELSE "unauthorized"]
    /\ UNCHANGED <<clock, fresh, live>>

Answer(q) ==
    /\ call[q].verdict \in {"admitted", "unauthorized"}
    /\ call' = [call EXCEPT ![q] = NoCall]
    /\ UNCHANGED <<clock, fresh, live>>

\* A restart forgets every token of r and drops the requests it was serving; a
\* token it was about to grant is granted by nobody.
Restart(r) ==
    /\ fresh' \in SUBSET fresh
    /\ live' = [live EXCEPT ![r] = [t \in Token |-> Absent]]
    /\ call' = [q \in Request |-> IF call[q].at = r THEN NoCall ELSE call[q]]
    /\ UNCHANGED clock

Next ==
    \/ Tick
    \/ \E r \in Replica : Restart(r)
    \/ \E r \in Replica, t \in Token, e \in Expiry : Grant(r, t, e)
    \/ \E q \in Request :
          \/ Judge(q)
          \/ Answer(q)
          \/ \E r \in Replica, c \in Token \cup {ApiKey, NoCredential} : Arrive(q, r, c)

Spec == Init /\ [][Next]_vars
===============================================================================
