-------------------------------- MODULE Upstream --------------------------------
(***************************************************************************)
(* How a gRPC call to headscale may end, and what the client of            *)
(* headtotails is told (internal/api/errors.go).                           *)
(***************************************************************************)

\* With these codes headscale has refused the call: it changed nothing.
Refusal == {"NotFound", "PermissionDenied", "Unauthenticated",
            "AlreadyExists", "InvalidArgument", "FailedPrecondition"}

\* With these nobody knows: the connection broke, the caller went away, or
\* headscale returned a plain Go error, which gRPC reports as Unknown.
Ambiguous == {"Unavailable", "DeadlineExceeded", "Canceled", "Internal", "Unknown"}

Code == {"OK"} \cup Refusal \cup Ambiguous

\* The cases of grpcStatusToHTTP, and 200 where there is no error to translate.
Case == [OK |-> 200, InvalidArgument |-> 400, Unauthenticated |-> 401,
         PermissionDenied |-> 403, NotFound |-> 404, AlreadyExists |-> 409]

\* Mutants: a client that went away is held responsible; what one may not see
\* is said not to exist; NotFound is left to the default; a timeout is passed
\* on as one; what is denied is taken for a bad credential.
CanceledIs400(c) ==
    IF c = "Canceled" THEN 400 ELSE IF c \in DOMAIN Case THEN Case[c] ELSE 500
ForbiddenIs404(c) ==
    IF c = "PermissionDenied" THEN 404 ELSE IF c \in DOMAIN Case THEN Case[c] ELSE 500
NotFoundIs500(c) ==
    IF c \in DOMAIN Case \ {"NotFound"} THEN Case[c] ELSE 500
DeadlineIs504(c) ==
    IF c = "DeadlineExceeded" THEN 504 ELSE IF c \in DOMAIN Case THEN Case[c] ELSE 500
DeniedIs401(c) ==
    IF c = "PermissionDenied" THEN 401 ELSE IF c \in DOMAIN Case THEN Case[c] ELSE 500

\* grpcStatusToHTTP.
HTTPStatus(c) == IF c \in DOMAIN Case THEN Case[c] ELSE 500
================================================================================
