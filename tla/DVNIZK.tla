-------------------------------- MODULE DVNIZK --------------------------------
(***************************************************************************)
(* tlslite/dvnizk.py: the proof that stands for the server's signature.    *)
(* The server shows that it knows its own key or the client's, so that the *)
(* client, who knows its own, could have made the same proof.              *)
(*                                                                         *)
(* A point of the group of order n is the number k of k*G; 0 is the        *)
(* identity, and PyNaCl raises rather than return it from a                *)
(* multiplication.  A proof's scalars are reduced when they are made, so   *)
(* that 32 bytes each bring them back as they were.  hash_to_scalar        *)
(* is a random oracle: what it says of a new question may be any scalar.   *)
(* Keys and transcript do not change in a run, so that a question is the   *)
(* pair of commitments.                                                    *)
(***************************************************************************)
EXTENDS Integers

CONSTANTS
    n,           \* order of the group
    EvenPoints,  \* the points whose x coordinate has sign bit 0
    ServerKeys,  \* private scalars of servers, clamped but not reduced
    ClientKeys,  \* private scalars of clients
    Callers      \* who makes the client's point: "handshake", "benchmark"

Scalars == 0..(n - 1)
Points == 0..(n - 1)

ASSUME OrderAssumption == n \in Nat \ {0}
\* Of a point and its opposite one has an even x coordinate.
ASSUME EvenAssumption ==
    \A P \in Points \ {0} : P \in EvenPoints <=> n - P \notin EvenPoints
\* A clamped scalar is no multiple of the order.
ASSUME KeysAssumption ==
    /\ ServerKeys \cup ClientKeys \subseteq Nat
    /\ \A k \in ServerKeys \cup ClientKeys : k % n # 0
ASSUME CallersAssumption == Callers \subseteq {"handshake", "benchmark"}

VARIABLES
    caller,
    x_server,
    x_client,
    oracle,      \* the questions put to hash_to_scalar, with its answers
    author,      \* who made the proof, if anybody did
    proof,
    verdict      \* of verify_proof

vars == <<caller, x_server, x_client, oracle, author, proof, verdict>>

point_mul(k, P) == (k * P) % n
point_base_mul(k) == k % n
ed25519_add(P, R) == (P + R) % n
ed25519_sub(P, R) == (P - R) % n

\* The curve's u coordinate is the same for a point and its opposite; the
\* bytes that come out have sign bit 0.
x25519_to_ed25519(P) == IF P \in EvenPoints THEN P ELSE (n - P) % n

P_server == point_base_mul(x_server)
P_client ==
    IF caller = "handshake" THEN x25519_to_ed25519(point_base_mul(x_client))
    ELSE point_base_mul(x_client)

Proofs == [R1 : Points, R2 : Points, s1 : Scalars, s2 : Scalars, c2 : Scalars]
NoProof == [R1 |-> 0, R2 |-> 0, s1 |-> 0, s2 |-> 0, c2 |-> 0]

TypeOK ==
    /\ caller \in Callers
    /\ x_server \in ServerKeys
    /\ x_client \in ClientKeys
    /\ DOMAIN oracle \subseteq Points \X Points
    /\ \A q \in DOMAIN oracle : oracle[q] \in Scalars
    /\ author \in {"nobody", "server", "client"}
    /\ proof \in Proofs
    /\ verdict \in {"none", "accepted", "rejected", "raised"}

Init ==
    /\ caller \in Callers
    /\ x_server \in ServerKeys
    /\ x_client \in ClientKeys
    /\ oracle = [q \in {} |-> 0]
    /\ author = "nobody"
    /\ proof = NoProof
    /\ verdict = "none"

-----------------------------------------------------------------------------
(***************************************************************************)
(* The three algorithms, given the random choices (coins) and the answer c *)
(* of the hash.                                                            *)
(***************************************************************************)
Split(c, part) == (c - part) % n               \* the other share of c

ResponseMinus(r, c, x) == (r - c * x) % n      \* mutant: sign
Response(r, c, x) == (r + c * x) % n

\* The commitment of the branch whose secret is not known.
Simulated(s, c, P) == ed25519_sub(point_base_mul(s), point_mul(c, P))

Coins == [r : Scalars, c : Scalars, s : Scalars]
\* What PyNaCl multiplies by: it would return the identity for 0.
NonZero(coins) == coins.r # 0 /\ coins.c # 0 /\ coins.s # 0

GeneratedTagged(coins, c) ==                   \* mutant: one nonce twice
    [R1 |-> point_base_mul(coins.r),
     R2 |-> Simulated(coins.r, coins.c, P_client),
     s1 |-> Response(coins.r, Split(c, coins.c), x_server),
     s2 |-> coins.r,
     c2 |-> coins.c]
\* generate_proof: branch 1 is real, c2 and s2 are chosen.
Generated(coins, c) ==
    [R1 |-> point_base_mul(coins.r),
     R2 |-> Simulated(coins.s, coins.c, P_client),
     s1 |-> Response(coins.r, Split(c, coins.c), x_server),
     s2 |-> coins.s,
     c2 |-> coins.c]

\* simulate_proof with the secret x: branch 2 is real, c1 and s1 are chosen.
SimulatedProof(x, coins, c) ==
    [R1 |-> Simulated(coins.s, coins.c, P_server),
     R2 |-> point_base_mul(coins.r),
     s1 |-> coins.s,
     s2 |-> Response(coins.r, Split(c, coins.c), x),
     c2 |-> Split(c, coins.c)]

Branch(s, R, c, P) == point_base_mul(s) = ed25519_add(R, point_mul(c, P))

AcceptsFirst(p, c) ==                          \* mutant: branch 2 unchecked
    Branch(p.s1, p.R1, Split(c, p.c2), P_server)
Accepts(p, c) ==
    /\ Branch(p.s1, p.R1, Split(c, p.c2), P_server)
    /\ Branch(p.s2, p.R2, p.c2, P_client)

\* A multiplication of verify_proof that PyNaCl refuses.
Refused(p, c) == p.s1 = 0 \/ Split(c, p.c2) = 0 \/ p.s2 = 0 \/ p.c2 = 0

\* hash_to_scalar(R1, R2, ...) is c.
Asks(R1, R2, c) ==
    /\ <<R1, R2>> \in DOMAIN oracle => c = oracle[<<R1, R2>>]
    /\ oracle' = [q \in DOMAIN oracle \cup {<<R1, R2>>} |->
                     IF q = <<R1, R2>> THEN c ELSE oracle[q]]

-----------------------------------------------------------------------------
(***************************************************************************)
(* One proof is made and verified.  A call that raises makes no proof.     *)
(***************************************************************************)
Generate ==
    /\ author = "nobody"
    /\ \E coins \in Coins, c \in Scalars :
          /\ NonZero(coins)
          /\ proof' = Generated(coins, c)
          /\ Asks(proof'.R1, proof'.R2, c)
    /\ author' = "server"
    /\ UNCHANGED <<caller, x_server, x_client, verdict>>

\* The client passes its private key.
Simulate ==
    /\ author = "nobody"
    /\ \E coins \in Coins, c \in Scalars :
          /\ NonZero(coins)
          /\ proof' = SimulatedProof(x_client, coins, c)
          /\ Asks(proof'.R1, proof'.R2, c)
    /\ author' = "client"
    /\ UNCHANGED <<caller, x_server, x_client, verdict>>

Verify ==
    /\ author # "nobody" /\ verdict = "none"
    /\ \E c \in Scalars :
          /\ Asks(proof.R1, proof.R2, c)
          /\ verdict' = IF Refused(proof, c) THEN "raised"
                        ELSE IF Accepts(proof, c) THEN "accepted"
                        ELSE "rejected"
    /\ UNCHANGED <<caller, x_server, x_client, author, proof>>

Next == Generate \/ Simulate \/ Verify

Spec == Init /\ [][Next]_vars

-----------------------------------------------------------------------------
(***************************************************************************)
(* Properties.                                                             *)
(***************************************************************************)

\* A proof the server made is never found wrong, whichever point the
\* client's key was converted to and whatever the hash says.
Complete == author = "server" => verdict # "rejected"

\* The client's simulation is not found wrong either (README.md, 1.3): for
\* the points of the benchmark, which are made without a conversion, ...
BenchmarkSimulation ==
    author = "client" /\ caller = "benchmark" => verdict # "rejected"
\* ... and for all.
SimulationAccepted == author = "client" => verdict # "rejected"

\* Whoever made an accepted proof, both could have, each by one choice of
\* coins with which no call raises: it does not tell who did, and is as likely
\* from one as from the other.  The exception is a proof whose commitment to
\* one branch is the identity: that branch is simulated, since its own party
\* would have to draw 0.  (The scalar of the client's point may be the
\* opposite of its key.)
Once(S) == S # {} /\ \A a, b \in S : a = b
OnceUnless(identity, S) == IF identity THEN S = {} ELSE Once(S)
Generating(c) == {k \in Coins : NonZero(k) /\ Generated(k, c) = proof}
Simulating(c) ==
    {k \in Coins : NonZero(k) /\ SimulatedProof(P_client, k, c) = proof}

Deniable ==
    verdict = "accepted" =>
        LET c == oracle[<<proof.R1, proof.R2>>]
        IN  /\ OnceUnless(proof.R1 = 0, Generating(c))
            /\ OnceUnless(proof.R2 = 0, Simulating(c))

\* A prover that can answer two challenges for the same commitments knows
\* the server's key or the scalar of the client's point: the answers give
\* one of them away.
Gives(x, s, t, c, d) ==
    /\ c # d
    /\ {y \in Scalars : ((c - d) * y) % n = (s - t) % n} = {x % n}
Extractable ==
    verdict = "accepted" =>
        LET c == oracle[<<proof.R1, proof.R2>>]
        IN  \A d \in Scalars \ {c}, s1 \in Scalars, s2 \in Scalars,
               c2 \in Scalars :
               LET p == [proof EXCEPT !.s1 = s1, !.s2 = s2, !.c2 = c2]
               IN  Accepts(p, d) =>
                       \/ Gives(x_server, proof.s1, s1,
                                Split(c, proof.c2), Split(d, c2))
                       \/ Gives(P_client, proof.s2, s2, proof.c2, c2)
=============================================================================
