-------------------------- MODULE MCPaymentIntents --------------------------
(* Instances of PaymentIntents for TLC. *)
EXTENDS PaymentIntentsInv, TLC

CONSTANTS r1, r2, r3

Post(a, k, ref, amt) == [api |-> a, key |-> k, ref |-> ref, amt |-> amt]

\* Two merchants, one of them with two API keys, and a revoked API key.
Keyring == "a1" :> "m1" @@ "a2" :> "m1" @@ "b1" :> "m2"

\* One key with three bodies, one of them invalid; no key; another merchant's
\* request with the same key and reference; an API key that is not active.
PostMix == {Post("a1", "k", "x", 1), Post("a2", "k", "x", 2), Post("a1", "k", "x", 0),
            Post("a1", NoKey, "x", 1), Post("b1", "k", "x", 1), Post("c1", "k", "x", 1)}

\* One key, two orders.
PostTwo == {Post("a1", "k", "x", 1), Post("a1", "k", "y", 1)}

Symmetry == Permutations({r1, r2, r3})
=============================================================================
