------------------------------ MODULE JwtFilterMC ------------------------------
EXTENDS JwtFilter

CONSTANTS k1, k2, NoKey, Unknown

Jwk(kid, key) == [kid |-> kid, alg |-> "RS256", key |-> key]
Pem(key) == [kid |-> "", alg |-> "", key |-> key]

\* A text without a key, a PEM key, a set of two keys, and a set with a key of
\* another algorithm and one whose n and e cannot be decoded, which is kept
\* without an EVP key and verifies nothing.
MCKeySets ==
  {{}, {Pem(k1)}, {Jwk("a", k1), Jwk("b", k2)}, {[Jwk("a", k1) EXCEPT !.alg = "ES256"], Jwk("a", NoKey)}}

Token(iss, kid, signer) ==
  [form |-> "jwt", iss |-> iss, aud |-> TRUE, live |-> TRUE, kid |-> kid, alg |-> "RS256", signer |-> signer]

\* For each issuer, tokens with and without the id of a key, with the id of
\* another key, with a wrong audience and one that has expired.
MCTokens ==
  UNION {{Token(i, "", k2), Token(i, "a", k1), Token(i, "a", k2),
          [Token(i, "", k1) EXCEPT !.aud = FALSE], [Token(i, "a", k1) EXCEPT !.live = FALSE]} : i \in Issuers}
    \union {Token(Unknown, "", k1)}
================================================================================
