------------------------------ MODULE MCJWKSCache ------------------------------
(* JWKSCache on small instances. *)
EXTENDS JWKSCache, TLC

CONSTANTS rsa, ec, okp   \* three kids; the issuer's OKP key is of no use here

MCKeyType == [k \in Kid |-> CASE k = rsa -> "RSA" [] k = ec -> "EC" [] k = okp -> "none"]
Symmetry == Permutations(Request)

Signed(k, a, s, e) ==
    [form |-> "jws", kid |-> k, alg |-> a, sig |-> s, exp |-> e, claims |-> TRUE]

\* A token that lapses at time 1, one that does not lapse, one whose key the
\* cache cannot hold, and one that is no JWT at all.
MCTokens == {Signed(rsa, "RS256", "pkcs1", 1), Signed(rsa, "RS256", "pkcs1", 0),
             Signed(okp, "ES256", "forged", 0),
             [Signed(rsa, "RS256", "forged", 0) EXCEPT !.form = "malformed"]}

\* What an issuer that follows RFC 7518 signs.
MCIssuerTokens == {Signed(rsa, "RS256", "pkcs1", 0), Signed(ec, "ES256", "raw", 0)}
===============================================================================
