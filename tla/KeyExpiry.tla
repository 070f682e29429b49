------------------------------- MODULE KeyExpiry -------------------------------
(***************************************************************************)
(* The life of one auth key as its client sees it                          *)
(* (internal/translate/key.go): the expiry of a new key, computed with     *)
(* time.Duration arithmetic in integers of a fixed width, and the fields   *)
(* "invalid" and "expires" of every later answer, which has whole seconds. *)
(*                                                                         *)
(* The width and the number of nanoseconds in a second are parameters: the *)
(* code has Width = 64 and Nano = 10^9, the runs have a width of a few     *)
(* bits and a proportionate Nano.                                          *)
(***************************************************************************)
EXTENDS Integers

CONSTANTS
    Width,    \* bits of int and time.Duration
    Nano,     \* time.Second
    Default,  \* 3600
    MaxClock  \* bound on the clock, in nanoseconds

ASSUME WidthAssumption ==
    /\ Width \in Nat \ {0} /\ Nano \in Nat \ {0} /\ Default \in Nat \ {0}
    /\ Default * Nano < 2 ^ (Width - 1)
    /\ MaxClock \in Nat

VARIABLES
    clock,    \* nanoseconds
    request,  \* expirySeconds, 0 if the field is missing, when it came, and the
              \* Duration it was turned into
    key,      \* the key in headscale
    shown     \* what the client knows: the last answer, until the key is changed

vars == <<clock, request, key, shown>>

Half == 2 ^ (Width - 1)
Int64 == -Half .. (Half - 1)

\* Two's complement wrap-around.
Wrapped(x) == ((x + Half) % (2 * Half)) - Half

Nothing == [invalid |-> FALSE, expires |-> 0, known |-> FALSE]

\* The key may be asked for at any part of a second.
Init ==
    /\ clock \in 0 .. Nano - 1
    /\ request = [expirySeconds |-> 0, at |-> 0, lifetime |-> 0]
    /\ key = [state |-> "unborn", until |-> 0, used |-> FALSE, reusable |-> FALSE]
    /\ shown = Nothing

\* Mutant: a negative value is not defaulted.
OnlyZeroDefaults(s) == IF s = 0 THEN Default ELSE s

\* KeyRequestToCreatePreAuthKeyRequest.
Effective(s) == IF s <= 0 THEN Default ELSE s

\* time.Duration(expirySeconds) * time.Second
Lifetime(s) == Wrapped(Effective(s) * Nano)

\* Mutant: the seconds are rounded up.
RoundedUp(k) == [invalid |-> k.used, expires |-> (k.until + Nano - 1) \div Nano, known |-> TRUE]

\* PreAuthKeyToKey; RFC 3339 without fractions cuts the second off.
Shown(k) == [invalid |-> k.used, expires |-> k.until \div Nano, known |-> TRUE]

-------------------------------------------------------------------------------
\* POST: headscale stores the key with the expiry it is given.
Create(s, reusable) ==
    /\ key.state = "unborn"
    /\ request' = [expirySeconds |-> s, at |-> clock, lifetime |-> Lifetime(s)]
    /\ key' = [state |-> "present", until |-> clock + Lifetime(s), used |-> FALSE,
               reusable |-> reusable]
    /\ shown' = Shown(key')
    /\ UNCHANGED clock

\* GET, of the key or of the list.
Get ==
    /\ key.state = "present"
    /\ shown' = Shown(key)
    /\ UNCHANGED <<clock, request, key>>

\* What headscale asks of a key when a node registers with it.
Usable == key.state = "present" /\ clock < key.until /\ (key.reusable \/ ~ key.used)

\* A node registers; of a reusable key headscale may or may not note the use.
Register ==
    /\ Usable
    /\ \E used \in IF key.reusable THEN {key.used, TRUE} ELSE {TRUE} :
          key' = [key EXCEPT !.used = used]
    /\ shown' = Nothing
    /\ UNCHANGED <<clock, request>>

\* DELETE: expire, which headscale does by an expiry of now, then delete.
Expire ==
    /\ key.state = "present"
    /\ key' = [key EXCEPT !.until = clock]
    /\ shown' = Nothing
    /\ UNCHANGED <<clock, request>>

Delete ==
    /\ key.state = "present" /\ key.until <= clock
    /\ key' = [key EXCEPT !.state = "deleted"]
    /\ shown' = Nothing
    /\ UNCHANGED <<clock, request>>

Tick ==
    /\ key.state = "present" /\ clock < MaxClock
    /\ clock' = clock + 1
    /\ UNCHANGED <<request, key, shown>>

Next ==
    \/ \E s \in Int64, reusable \in BOOLEAN : Create(s, reusable)
    \/ Get \/ Register \/ Expire \/ Delete \/ Tick

Spec == Init /\ [][Next]_vars
-------------------------------------------------------------------------------
(* Properties.                                                              *)

\* A request whose expiry fits in a Duration gets a key that expires exactly
\* that much later, unless it is expired early, and one without a positive
\* expiry gets the default.
RepresentableIsExact ==
    LET expected == Effective(request.expirySeconds) * Nano IN
    key.state = "present" /\ expected < Half =>
        /\ expected > 0
        /\ key.until = request.at + expected \/ key.until \in request.at .. clock

\* A client that was shown a key as not invalid and with an expiry to come can
\* have a node register with it: what an expired key, a used one, or one
\* between the expire and the delete of a DELETE cannot do, its "invalid" or
\* its "expires" tells, and cutting the second off never promises too much
\* (PreAuthKeyToKey).
ShownValidWorks ==
    shown.known /\ ~ shown.invalid /\ clock < shown.expires * Nano => Usable

\* No key is created already expired, which headscale would refuse when a node
\* registers with it (comment in KeyRequestToCreatePreAuthKeyRequest).
NeverBornExpired == key.state # "unborn" => request.lifetime > 0
===============================================================================
