--------------------------------- MODULE Srp ---------------------------------
(***************************************************************************)
(* The password exchanges of auth.rs (sign-in) and escrow.rs (passcode):   *)
(* SRP-6a in a group of prime order, with hashes as unknown values: k and  *)
(* u, which the code computes from what was sent, are parameters, and a    *)
(* proof is the tuple of what is hashed into it.  The server is external.  *)
(***************************************************************************)
EXTENDS Naturals

CONSTANTS N, g \* the prime, and 2

Refused == [ok |-> FALSE]

Power(x, e) ==
  LET power[n \in Nat] == IF n = 0 THEN 1 ELSE (power[n - 1] * x) % N
  IN  power[e]

PublicA(a) == Power(g, a)

\* B - k * g^x, kept from going below zero.
Base(x, k, B) == (B + N - ((k * Power(g, x)) % N)) % N

Shared(a, x, k, u, B) == Power(Base(x, k, B), a + u * x)

\* What both sides prove: that they have the same key for what was sent.
Proof(user, salt, A, B, key) == <<"M1", user, salt, A, B, key>>
Answer(A, proof, key)        == <<"M2", A, proof, key>>

Complete(a, user, salt, x, k, u, B) ==
  LET key   == Shared(a, x, k, u, B)
      proof == Proof(user, salt, PublicA(a), B, key)
  IN  [ok |-> TRUE, m1 |-> proof, expected |-> Answer(PublicA(a), proof, key), key |-> key]

\* Signing in refuses what is zero in the group; the highest bit of a is always set.
SignIn(a, user, salt, x, k, u, B) ==
  IF B % N = 0 \/ u = 0 THEN Refused ELSE Complete(a, user, salt, x, k, u, B)

\* The escrow exchange takes nothing that is not a number of the group.
Passcode(a, user, salt, x, k, u, B) ==
  IF a = 0 \/ B = 0 \/ B >= N \/ u = 0 THEN Refused ELSE Complete(a, user, salt, x, k, u, B)

VerifyServerProof(exchange, received) == exchange.expected = received

-----------------------------------------------------------------------------
(* The server, as the protocol defines it *)

Verifier(x)        == Power(g, x)
PublicB(b, k, x)   == (k * Verifier(x) + Power(g, b)) % N
ServerKey(b, u, A, x) == Power((A * Power(Verifier(x), u)) % N, b)

-----------------------------------------------------------------------------
(* Properties, over the numbers of a small group *)

\* With the right password both sides have the same key, so that each accepts the proof of
\* the other, whichever way the client's subtraction goes (auth.rs:106, escrow.rs:496).
BothAgree(Exchange(_, _, _, _, _, _, _), numbers) ==
  \A a, b, x, k, u \in numbers :
    LET B      == PublicB(b, k, x)
        client == Exchange(a, "user", "salt", x, k, u, B)
        key    == ServerKey(b, u, PublicA(a), x)
        proof  == Proof("user", "salt", PublicA(a), B, key)
    IN  client.ok => /\ client.m1 = proof
                     /\ VerifyServerProof(client, Answer(PublicA(a), proof, key))
=============================================================================
