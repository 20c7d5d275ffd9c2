----------------------------- MODULE DVNIZKProofs -----------------------------
(***************************************************************************)
(* Proofs about DVNIZK for every order of the group, key and challenge:    *)
(* completeness, deniability and, in a group of prime order, soundness.    *)
(***************************************************************************)
EXTENDS DVNIZK, NumberTheorems

-----------------------------------------------------------------------------
\* The equations of verify_proof.

LEMMA OrderPositive == n \in Nat \ {0}
  BY OrderAssumption

\* s*G = R + c*P for the real branch: R = r*G, P = x*G, s = r + c*x.
LEMMA RealBranch ==
    ASSUME NEW r \in Int, NEW c \in Int, NEW x \in Int
    PROVE  Branch(Response(r, c, x), point_base_mul(r), c, point_base_mul(x))
  <1>1. r % n \in Int /\ x % n \in Int /\ r + c * x \in Int
    BY OrderPositive, ModRange
  <1>2. ((r + c * x) % n) % n = (r + c * x) % n
    BY <1>1, OrderPositive, ModTwice
  <1>3. ((r % n) + ((c * (x % n)) % n)) % n = ((r % n) + ((c * x) % n)) % n
    BY <1>1, OrderPositive, ModTimes
  <1>4. ((r % n) + ((c * x) % n)) % n = (r + c * x) % n
    <2> DEFINE y == c * x
    <2>1. y \in Int /\ y % n \in Int
      BY OrderPositive, ModRange
    <2> HIDE DEF y
    <2>2. ((r % n) + (y % n)) % n = ((r % n) + y) % n
      BY <1>1, <2>1, OrderPositive, ModPlus
    <2>3. ((r % n) + y) % n = (y + (r % n)) % n
      BY <1>1, <2>1
    <2>4. (y + (r % n)) % n = (y + r) % n
      BY <2>1, OrderPositive, ModPlus
    <2>5. ((r % n) + (y % n)) % n = (r + y) % n
      BY <2>1, <2>2, <2>3, <2>4
    <2> QED BY <2>5 DEF y
  <1> QED
    BY <1>2, <1>3, <1>4
    DEF Branch, Response, point_base_mul, point_mul, ed25519_add

\* s*G = R + c*P for the simulated branch: R = s*G - c*P.
LEMMA SimulatedBranch ==
    ASSUME NEW s \in Int, NEW c \in Int, NEW P \in Int
    PROVE  Branch(s, Simulated(s, c, P), c, P)
  <1> DEFINE a == s % n
             b == (c * P) % n
  <1>1. a \in Int /\ b \in Int
    <2>1. c * P \in Int
      OBVIOUS
    <2> QED BY <2>1, OrderPositive, ModRange
  <1>2. a % n = a
    BY OrderPositive, ModTwice
  <1> HIDE DEF a, b
  <1>3. (((a - b) % n) + b) % n = a % n
    <2>1. a - b \in Int
      BY <1>1
    <2>2. (b + ((a - b) % n)) % n = (b + (a - b)) % n
      BY <1>1, <2>1, OrderPositive, ModPlus
    <2>3. (a - b) % n \in Int
      BY <2>1, OrderPositive, ModRange
    <2>4. b + (a - b) = a
      BY <1>1
    <2>5. ((a - b) % n) + b = b + ((a - b) % n)
      BY <1>1, <2>3
    <2> QED BY <2>2, <2>4, <2>5
  <1> QED
    BY <1>2, <1>3
    DEF a, b, Branch, Simulated, point_base_mul, point_mul, ed25519_add,
        ed25519_sub

-----------------------------------------------------------------------------
\* What the three algorithms return.

LEMMA KeysAreIntegers ==
    TypeOK => /\ x_server \in Int /\ x_client \in Int
              /\ P_server \in Points /\ P_client \in Points
  <1> SUFFICES ASSUME TypeOK
               PROVE  /\ x_server \in Int /\ x_client \in Int
                      /\ P_server \in Points /\ P_client \in Points
    OBVIOUS
  <1>1. x_server \in Int /\ x_client \in Int
    BY KeysAssumption DEF TypeOK
  <1>2. x_server % n \in Points /\ x_client % n \in Points
    BY <1>1, OrderPositive, ModRange DEF Points
  <1>3. \A P \in Points : x25519_to_ed25519(P) \in Points
    <2> SUFFICES ASSUME NEW P \in Points
                 PROVE  (n - P) % n \in Points
      BY DEF x25519_to_ed25519
    <2>1. n - P \in Int
      BY OrderPositive DEF Points
    <2> QED BY <2>1, OrderPositive, ModRange DEF Points
  <1> QED BY <1>1, <1>2, <1>3 DEF P_server, P_client, point_base_mul

LEMMA SplitType ==
    ASSUME NEW c \in Scalars, NEW part \in Scalars
    PROVE  Split(c, part) \in Scalars
  <1>1. c - part \in Int
    BY OrderPositive DEF Scalars
  <1> QED BY <1>1, OrderPositive, ModRange DEF Split, Scalars

LEMMA ResponseType ==
    ASSUME NEW r \in Int, NEW c \in Int, NEW x \in Int
    PROVE  Response(r, c, x) \in Scalars
  <1>1. r + c * x \in Int
    OBVIOUS
  <1> QED BY <1>1, OrderPositive, ModRange DEF Response, Scalars

LEMMA SimulatedType ==
    ASSUME NEW s \in Int, NEW c \in Int, NEW P \in Int
    PROVE  Simulated(s, c, P) \in Points
  <1>1. s % n \in Int /\ (c * P) % n \in Int
    <2>1. c * P \in Int
      OBVIOUS
    <2> QED BY <2>1, OrderPositive, ModRange
  <1>2. (s % n) - ((c * P) % n) \in Int
    BY <1>1
  <1> QED
    BY <1>2, OrderPositive, ModRange
    DEF Simulated, Points, point_base_mul, point_mul, ed25519_sub

LEMMA GeneratedType ==
    ASSUME TypeOK, NEW coins \in Coins, NEW c \in Scalars
    PROVE  Generated(coins, c) \in Proofs
  <1>1. coins.r \in Scalars /\ coins.c \in Scalars /\ coins.s \in Scalars
    BY DEF Coins
  <1>2. \A k \in Scalars : k \in Int
    BY OrderPositive DEF Scalars
  <1>3. \A k \in Points : k \in Int
    BY OrderPositive DEF Points
  <1>4. coins.r % n \in Points
    BY <1>1, <1>2, OrderPositive, ModRange DEF Points
  <1>5. Simulated(coins.s, coins.c, P_client) \in Points
    BY <1>1, <1>2, <1>3, KeysAreIntegers, SimulatedType
  <1>6. Response(coins.r, Split(c, coins.c), x_server) \in Scalars
    BY <1>1, <1>2, KeysAreIntegers, SplitType, ResponseType
  <1> QED BY <1>1, <1>4, <1>5, <1>6 DEF Generated, Proofs, point_base_mul

LEMMA SimulatedProofType ==
    ASSUME TypeOK, NEW coins \in Coins, NEW c \in Scalars
    PROVE  SimulatedProof(x_client, coins, c) \in Proofs
  <1>1. coins.r \in Scalars /\ coins.c \in Scalars /\ coins.s \in Scalars
    BY DEF Coins
  <1>2. \A k \in Scalars : k \in Int
    BY OrderPositive DEF Scalars
  <1>3. \A k \in Points : k \in Int
    BY OrderPositive DEF Points
  <1>4. coins.r % n \in Points
    BY <1>1, <1>2, OrderPositive, ModRange DEF Points
  <1>5. Simulated(coins.s, coins.c, P_server) \in Points
    BY <1>1, <1>2, <1>3, KeysAreIntegers, SimulatedType
  <1>6. Response(coins.r, Split(c, coins.c), x_client) \in Scalars
    BY <1>1, <1>2, KeysAreIntegers, SplitType, ResponseType
  <1>7. Split(c, coins.c) \in Scalars
    BY <1>1, SplitType
  <1> QED
    BY <1>1, <1>4, <1>5, <1>6, <1>7 DEF SimulatedProof, Proofs, point_base_mul

\* The server's proof fits the challenge it was made for.
LEMMA GeneratedAccepted ==
    ASSUME TypeOK, NEW coins \in Coins, NEW c \in Scalars
    PROVE  Accepts(Generated(coins, c), c)
  <1>1. coins.r \in Int /\ coins.c \in Int /\ coins.s \in Int
    BY OrderPositive DEF Coins, Scalars
  <1>2. Split(c, coins.c) \in Int
    BY SplitType, OrderPositive DEF Coins, Scalars
  <1>3. x_server \in Int /\ P_client \in Int
    BY KeysAreIntegers, OrderPositive DEF Points
  <1>4. Branch(Response(coins.r, Split(c, coins.c), x_server),
               point_base_mul(coins.r), Split(c, coins.c), P_server)
    BY <1>1, <1>2, <1>3, RealBranch DEF P_server
  <1>5. Branch(coins.s, Simulated(coins.s, coins.c, P_client), coins.c,
               P_client)
    BY <1>1, <1>3, SimulatedBranch
  <1> QED BY <1>4, <1>5 DEF Accepts, Generated

\* Taking the other share twice gives the share back.
LEMMA SplitTwice ==
    ASSUME NEW c \in Scalars, NEW part \in Scalars
    PROVE  Split(c, Split(c, part)) = part
  <1>1. c \in Int /\ part \in Int /\ c - part \in Int
    BY OrderPositive DEF Scalars
  <1>2. (c - ((c - part) % n)) % n = (c - (c - part)) % n
    BY <1>1, OrderPositive, ModMinus
  <1>3. c - (c - part) = part
    BY <1>1
  <1>4. part % n = part
    BY OrderPositive DEF Scalars
  <1> QED BY <1>2, <1>3, <1>4 DEF Split

\* So does the simulation, if the client's point is made from its key.
LEMMA SimulationFits ==
    ASSUME TypeOK, caller # "handshake", NEW coins \in Coins, NEW c \in Scalars
    PROVE  Accepts(SimulatedProof(x_client, coins, c), c)
  <1>1. coins.r \in Int /\ coins.c \in Int /\ coins.s \in Int
    BY OrderPositive DEF Coins, Scalars
  <1>2. Split(c, coins.c) \in Int
    BY SplitType, OrderPositive DEF Coins, Scalars
  <1>3. x_client \in Int /\ P_server \in Int
    BY KeysAreIntegers, OrderPositive DEF Points
  <1>4. P_client = point_base_mul(x_client)
    BY DEF P_client
  <1>5. Branch(coins.s, Simulated(coins.s, coins.c, P_server), coins.c,
               P_server)
    BY <1>1, <1>3, SimulatedBranch
  <1>6. Branch(Response(coins.r, Split(c, coins.c), x_client),
               point_base_mul(coins.r), Split(c, coins.c), P_client)
    BY <1>1, <1>2, <1>3, <1>4, RealBranch
  <1>7. Split(c, Split(c, coins.c)) = coins.c
    BY SplitTwice DEF Coins
  <1> QED BY <1>5, <1>6, <1>7 DEF Accepts, SimulatedProof

-----------------------------------------------------------------------------
\* An oracle that was asked keeps its type and its answers.
LEMMA AsksType ==
    ASSUME TypeOK, NEW R1 \in Points, NEW R2 \in Points, NEW c \in Scalars,
           Asks(R1, R2, c)
    PROVE  /\ DOMAIN oracle' \subseteq Points \X Points
           /\ \A q \in DOMAIN oracle' : oracle'[q] \in Scalars
           /\ <<R1, R2>> \in DOMAIN oracle'
           /\ oracle'[<<R1, R2>>] = c
           /\ <<R1, R2>> \in DOMAIN oracle => c = oracle[<<R1, R2>>]
  BY DEF TypeOK, Asks

\* Every variable keeps its type, for every order of the group, and every
\* key and answer of the hash: scalars and points stay reduced.
THEOREM DVNIZKTypeOK == Spec => []TypeOK
  <1>1. Init => TypeOK
    <2>1. 0 \in Points /\ 0 \in Scalars
      BY OrderPositive DEF Points, Scalars
    <2> QED BY <2>1 DEF Init, TypeOK, NoProof, Proofs
  <1>2. TypeOK /\ [Next]_vars => TypeOK'
    <2> SUFFICES ASSUME TypeOK, [Next]_vars
                 PROVE  TypeOK'
      OBVIOUS
    <2>1. CASE Generate
      <3>1. PICK coins \in Coins, c \in Scalars :
               /\ proof' = Generated(coins, c)
               /\ Asks(proof'.R1, proof'.R2, c)
        BY <2>1 DEF Generate
      <3>2. proof' \in Proofs
        BY <3>1, GeneratedType
      <3>3. proof'.R1 \in Points /\ proof'.R2 \in Points
        BY <3>2 DEF Proofs
      <3>4. /\ DOMAIN oracle' \subseteq Points \X Points
            /\ \A q \in DOMAIN oracle' : oracle'[q] \in Scalars
        BY <3>1, <3>3, AsksType
      <3> QED BY <2>1, <3>2, <3>4 DEF Generate, TypeOK
    <2>2. CASE Simulate
      <3>1. PICK coins \in Coins, c \in Scalars :
               /\ proof' = SimulatedProof(x_client, coins, c)
               /\ Asks(proof'.R1, proof'.R2, c)
        BY <2>2 DEF Simulate
      <3>2. proof' \in Proofs
        BY <3>1, SimulatedProofType
      <3>3. proof'.R1 \in Points /\ proof'.R2 \in Points
        BY <3>2 DEF Proofs
      <3>4. /\ DOMAIN oracle' \subseteq Points \X Points
            /\ \A q \in DOMAIN oracle' : oracle'[q] \in Scalars
        BY <3>1, <3>3, AsksType
      <3> QED BY <2>2, <3>2, <3>4 DEF Simulate, TypeOK
    <2>3. CASE Verify
      <3>1. PICK c \in Scalars : Asks(proof.R1, proof.R2, c)
        BY <2>3 DEF Verify
      <3>2. proof.R1 \in Points /\ proof.R2 \in Points
        BY DEF TypeOK, Proofs
      <3>3. /\ DOMAIN oracle' \subseteq Points \X Points
            /\ \A q \in DOMAIN oracle' : oracle'[q] \in Scalars
        BY <3>1, <3>2, AsksType
      <3> QED BY <2>3, <3>3 DEF Verify, TypeOK
    <2>4. CASE UNCHANGED vars
      BY <2>4 DEF vars, TypeOK
    <2> QED BY <2>1, <2>2, <2>3, <2>4 DEF Next
  <1> QED BY <1>1, <1>2, PTL DEF Spec

\* Who can be relied on to make proofs that fit.
Honest == author = "server" \/ caller # "handshake"

\* What makes Complete inductive: the question the proof answers was put to
\* the oracle, and its answer fits the proof.
Question == <<proof.R1, proof.R2>>
Fits ==
    /\ author = "nobody" => verdict = "none"
    /\ author # "nobody" /\ Honest =>
          /\ Question \in DOMAIN oracle
          /\ Accepts(proof, oracle[Question])
          /\ verdict # "rejected"

LEMMA FitsInvariant == Spec => []Fits
  <1>1. Init => Fits
    BY DEF Init, Fits
  <1>2. TypeOK /\ TypeOK' /\ Fits /\ [Next]_vars => Fits'
    <2> SUFFICES ASSUME TypeOK, TypeOK', Fits, [Next]_vars
                 PROVE  Fits'
      OBVIOUS
    <2>1. CASE Generate
      <3>1. PICK coins \in Coins, c \in Scalars :
               /\ proof' = Generated(coins, c)
               /\ Asks(proof'.R1, proof'.R2, c)
        BY <2>1 DEF Generate
      <3>2. proof'.R1 \in Points /\ proof'.R2 \in Points
        BY DEF TypeOK, Proofs
      <3>3. Question' \in DOMAIN oracle' /\ oracle'[Question'] = c
        BY <3>1, <3>2, AsksType DEF Question
      <3>4. Accepts(proof', c)
        BY <3>1, GeneratedAccepted
      <3>5. verdict' = "none" /\ author' = "server"
        BY <2>1 DEF Generate, Fits
      <3>6. UNCHANGED <<caller, x_server, x_client>>
        BY <2>1 DEF Generate
      <3>7. P_server' = P_server /\ P_client' = P_client
        BY <3>6 DEF P_server, P_client
      <3> QED BY <3>3, <3>4, <3>5, <3>7 DEF Fits, Accepts
    <2>2. CASE Simulate
      <3>1. PICK coins \in Coins, c \in Scalars :
               /\ proof' = SimulatedProof(x_client, coins, c)
               /\ Asks(proof'.R1, proof'.R2, c)
        BY <2>2 DEF Simulate
      <3>2. proof'.R1 \in Points /\ proof'.R2 \in Points
        BY DEF TypeOK, Proofs
      <3>3. Question' \in DOMAIN oracle' /\ oracle'[Question'] = c
        BY <3>1, <3>2, AsksType DEF Question
      <3>4. caller # "handshake" => Accepts(proof', c)
        BY <3>1, SimulationFits
      <3>5. verdict' = "none" /\ author' = "client"
        BY <2>2 DEF Simulate, Fits
      <3>6. UNCHANGED <<caller, x_server, x_client>>
        BY <2>2 DEF Simulate
      <3>7. P_server' = P_server /\ P_client' = P_client
        BY <3>6 DEF P_server, P_client
      <3> QED BY <3>3, <3>4, <3>5, <3>6, <3>7 DEF Fits, Honest, Accepts
    <2>3. CASE Verify
      <3>1. PICK c \in Scalars :
               /\ Asks(proof.R1, proof.R2, c)
               /\ verdict' = IF Refused(proof, c) THEN "raised"
                             ELSE IF Accepts(proof, c) THEN "accepted"
                             ELSE "rejected"
        BY <2>3 DEF Verify
      <3>2. proof.R1 \in Points /\ proof.R2 \in Points
        BY DEF TypeOK, Proofs
      <3>3. /\ Question \in DOMAIN oracle' /\ oracle'[Question] = c
            /\ Question \in DOMAIN oracle => c = oracle[Question]
        BY <3>1, <3>2, AsksType DEF Question
      <3>4. /\ UNCHANGED <<caller, x_server, x_client, author, proof>>
            /\ author # "nobody"
        BY <2>3 DEF Verify
      <3>5. P_server' = P_server /\ P_client' = P_client /\ Question' = Question
        BY <3>4 DEF P_server, P_client, Question
      <3>6. Honest' = Honest
        BY <3>4 DEF Honest
      <3>7. Honest => Accepts(proof, c)
        BY <3>3, <3>4 DEF Fits
      <3> QED BY <3>1, <3>3, <3>4, <3>5, <3>6, <3>7 DEF Fits, Accepts
    <2>4. CASE UNCHANGED vars
      BY <2>4 DEF vars, Fits, Honest, Question, Accepts, P_server, P_client
    <2> QED BY <2>1, <2>2, <2>3, <2>4 DEF Next
  <1> QED BY <1>1, <1>2, DVNIZKTypeOK, PTL DEF Spec

\* verify_proof never rejects what generate_proof returned, for every order
\* of the group, every key, every choice of coins and every hash.
THEOREM DVNIZKComplete == Spec => []Complete
  <1>1. Fits => Complete
    BY DEF Fits, Honest, Complete
  <1> QED BY <1>1, FitsInvariant, PTL

\* Nor what simulate_proof returned for a point made without a conversion.
THEOREM DVNIZKSimulation == Spec => []BenchmarkSimulation
  <1>1. Fits => BenchmarkSimulation
    BY DEF Fits, Honest, BenchmarkSimulation
  <1> QED BY <1>1, FitsInvariant, PTL
-----------------------------------------------------------------------------
\* Where a proof was accepted, it fits what the oracle said to its question,
\* and no call that verified it raised.
AcceptedFits ==
    /\ author = "nobody" => verdict = "none"
    /\ verdict = "accepted" =>
          /\ Question \in DOMAIN oracle
          /\ Accepts(proof, oracle[Question])
          /\ ~Refused(proof, oracle[Question])

LEMMA AcceptedFitsInvariant == Spec => []AcceptedFits
  <1>1. Init => AcceptedFits
    BY DEF Init, AcceptedFits
  <1>2. TypeOK /\ TypeOK' /\ AcceptedFits /\ [Next]_vars => AcceptedFits'
    <2> SUFFICES ASSUME TypeOK, TypeOK', AcceptedFits, [Next]_vars
                 PROVE  AcceptedFits'
      OBVIOUS
    <2>1. CASE Generate \/ Simulate
      BY <2>1 DEF Generate, Simulate, AcceptedFits
    <2>2. CASE Verify
      <3>1. PICK c \in Scalars :
               /\ Asks(proof.R1, proof.R2, c)
               /\ verdict' = IF Refused(proof, c) THEN "raised"
                             ELSE IF Accepts(proof, c) THEN "accepted"
                             ELSE "rejected"
        BY <2>2 DEF Verify
      <3>2. proof.R1 \in Points /\ proof.R2 \in Points
        BY DEF TypeOK, Proofs
      <3>3. Question \in DOMAIN oracle' /\ oracle'[Question] = c
        BY <3>1, <3>2, AsksType DEF Question
      <3>4. /\ UNCHANGED <<caller, x_server, x_client, author, proof>>
            /\ author # "nobody"
        BY <2>2 DEF Verify
      <3>5. /\ P_server' = P_server /\ P_client' = P_client
            /\ Question' = Question
        BY <3>4 DEF P_server, P_client, Question
      <3>6. verdict' = "accepted" => Accepts(proof, c) /\ ~Refused(proof, c)
        BY <3>1
      <3> QED BY <3>3, <3>4, <3>5, <3>6 DEF AcceptedFits, Accepts, Refused
    <2>3. CASE UNCHANGED vars
      BY <2>3 DEF vars, AcceptedFits, Question, Accepts, Refused, P_server,
                  P_client
    <2> QED BY <2>1, <2>2, <2>3 DEF Next
  <1> QED BY <1>1, <1>2, DVNIZKTypeOK, PTL DEF Spec

-----------------------------------------------------------------------------
\* Deniability.

\* A scalar is reduced.
LEMMA Reduced ==
    ASSUME NEW k \in Scalars
    PROVE  k \in Int /\ k % n = k
  BY OrderPositive DEF Scalars

\* What a branch says of its commitment and of its response.
LEMMA BranchCommitment ==
    ASSUME NEW s \in Scalars, NEW R \in Points, NEW c \in Int, NEW P \in Int,
           Branch(s, R, c, P)
    PROVE  Simulated(s, c, P) = R
  <1> DEFINE b == (c * P) % n
  <1>1. b \in Int /\ R \in Int /\ R % n = R
    <2>1. c * P \in Int
      OBVIOUS
    <2>2. R \in Scalars
      BY DEF Points, Scalars
    <2> QED BY <2>1, <2>2, Reduced, OrderPositive, ModRange
  <1>2. s % n = (R + b) % n
    BY DEF Branch, point_base_mul, ed25519_add, point_mul
  <1> HIDE DEF b
  <1>3. (((R + b) % n) - b) % n = R
    <2>1. R + b \in Int /\ -b \in Int
      BY <1>1
    <2>2. ((-b) + ((R + b) % n)) % n = ((-b) + (R + b)) % n
      BY <2>1, OrderPositive, ModPlus
    <2>3. (R + b) % n \in Int
      BY <2>1, OrderPositive, ModRange
    <2>4. ((R + b) % n) - b = (-b) + ((R + b) % n)
      BY <1>1, <2>3
    <2>5. (-b) + (R + b) = R
      BY <1>1
    <2> QED BY <1>1, <2>2, <2>4, <2>5
  <1> QED
    BY <1>2, <1>3
    DEF b, Simulated, ed25519_sub, point_base_mul, point_mul

LEMMA BranchResponse ==
    ASSUME NEW s \in Scalars, NEW R \in Points, NEW c \in Int, NEW x \in Int,
           Branch(s, R, c, point_base_mul(x))
    PROVE  Response(R, c, x) = s
  <1>1. R \in Scalars /\ R \in Int /\ R % n = R
    BY Reduced DEF Points, Scalars
  <1>2. Branch(Response(R, c, x), point_base_mul(R), c, point_base_mul(x))
    BY <1>1, RealBranch
  <1>3. point_base_mul(R) = R
    BY <1>1 DEF point_base_mul
  <1>4. Response(R, c, x) \in Scalars
    BY <1>1, ResponseType
  <1>5. Response(R, c, x) % n = s % n
    BY <1>2, <1>3 DEF Branch, point_base_mul
  <1> QED BY <1>4, <1>5, Reduced

\* An accepted proof is made by generate_proof with one choice of coins, and
\* the nonce among them is the commitment, ...
LEMMA GeneratedOnce ==
    ASSUME TypeOK, NEW c \in Scalars, Accepts(proof, c), ~Refused(proof, c)
    PROVE  OnceUnless(proof.R1 = 0, Generating(c))
  <1> DEFINE coins == [r |-> proof.R1, c |-> proof.c2, s |-> proof.s2]
  <1>1. /\ proof \in Proofs
        /\ proof.R1 \in Points /\ proof.R2 \in Points
        /\ proof.s1 \in Scalars /\ proof.s2 \in Scalars
        /\ proof.c2 \in Scalars
        /\ proof = [R1 |-> proof.R1, R2 |-> proof.R2, s1 |-> proof.s1,
                    s2 |-> proof.s2, c2 |-> proof.c2]
    BY DEF TypeOK, Proofs
  <1>2. coins \in Coins
    BY <1>1 DEF Coins, Points, Scalars
  <1>3. /\ Split(c, proof.c2) \in Int /\ proof.c2 \in Int
        /\ x_server \in Int /\ P_client \in Int
    BY <1>1, SplitType, Reduced, KeysAreIntegers DEF Points, Scalars
  <1>4. Generated(coins, c) = proof
    <2>1. point_base_mul(proof.R1) = proof.R1
      BY <1>1, Reduced DEF point_base_mul, Points, Scalars
    <2>2. Simulated(proof.s2, proof.c2, P_client) = proof.R2
      BY <1>1, <1>3, BranchCommitment DEF Accepts
    <2>3. Response(proof.R1, Split(c, proof.c2), x_server) = proof.s1
      BY <1>1, <1>3, BranchResponse DEF Accepts, P_server
    <2> QED BY <1>1, <2>1, <2>2, <2>3 DEF Generated
  <1>5. ASSUME NEW k \in Coins, Generated(k, c) = proof
        PROVE  k = coins
    <2>1. k = [r |-> k.r, c |-> k.c, s |-> k.s] /\ k.r \in Scalars
      BY DEF Coins
    <2>2. k.r = proof.R1
      BY <1>5, <2>1, Reduced DEF Generated, point_base_mul
    <2>3. k.c = proof.c2 /\ k.s = proof.s2
      BY <1>5 DEF Generated
    <2> QED BY <2>1, <2>2, <2>3
  <1>6. NonZero(coins) <=> proof.R1 # 0
    BY DEF NonZero, Refused
  <1> HIDE DEF coins
  <1> QED BY <1>2, <1>4, <1>5, <1>6 DEF OnceUnless, Once, Generating

\* ... and by simulate_proof with one, for the scalar of the client's point.
LEMMA SimulatedOnce ==
    ASSUME TypeOK, NEW c \in Scalars, Accepts(proof, c), ~Refused(proof, c)
    PROVE  OnceUnless(proof.R2 = 0, Simulating(c))
  <1> DEFINE c1 == Split(c, proof.c2)
             coins == [r |-> proof.R2, c |-> c1, s |-> proof.s1]
  <1>1. /\ proof \in Proofs
        /\ proof.R1 \in Points /\ proof.R2 \in Points
        /\ proof.s1 \in Scalars /\ proof.s2 \in Scalars
        /\ proof.c2 \in Scalars
        /\ proof = [R1 |-> proof.R1, R2 |-> proof.R2, s1 |-> proof.s1,
                    s2 |-> proof.s2, c2 |-> proof.c2]
    BY DEF TypeOK, Proofs
  <1>2. c1 \in Scalars /\ Split(c, c1) = proof.c2
    BY <1>1, SplitType, SplitTwice
  <1>3. coins \in Coins
    BY <1>1, <1>2 DEF Coins, Points, Scalars
  <1>4. /\ c1 \in Int /\ proof.c2 \in Int
        /\ P_server \in Int /\ P_client \in Int
        /\ P_client = point_base_mul(P_client)
    <2>1. P_server \in Scalars /\ P_client \in Scalars
      BY KeysAreIntegers DEF Points, Scalars
    <2> QED BY <1>1, <1>2, <2>1, Reduced DEF point_base_mul
  <1>5. SimulatedProof(P_client, coins, c) = proof
    <2>1. point_base_mul(proof.R2) = proof.R2
      BY <1>1, Reduced DEF point_base_mul, Points, Scalars
    <2>2. Simulated(proof.s1, c1, P_server) = proof.R1
      BY <1>1, <1>4, BranchCommitment DEF Accepts
    <2>3. Response(proof.R2, proof.c2, P_client) = proof.s2
      BY <1>1, <1>4, BranchResponse DEF Accepts
    <2> QED BY <1>1, <1>2, <2>1, <2>2, <2>3 DEF SimulatedProof
  <1>6. ASSUME NEW k \in Coins, SimulatedProof(P_client, k, c) = proof
        PROVE  k = coins
    <2>1. /\ k = [r |-> k.r, c |-> k.c, s |-> k.s]
          /\ k.r \in Scalars /\ k.c \in Scalars
      BY DEF Coins
    <2>2. k.r = proof.R2
      BY <1>6, <2>1, Reduced DEF SimulatedProof, point_base_mul
    <2>3. Split(c, k.c) = proof.c2 /\ k.s = proof.s1
      BY <1>6 DEF SimulatedProof
    <2>4. k.c = c1
      BY <2>1, <2>3, SplitTwice
    <2> QED BY <2>1, <2>2, <2>3, <2>4
  <1>7. NonZero(coins) <=> proof.R2 # 0
    BY DEF NonZero, Refused
  <1> HIDE DEF coins
  <1> QED BY <1>3, <1>5, <1>6, <1>7 DEF OnceUnless, Once, Simulating

\* An accepted proof tells nothing of who made it, for every order of the
\* group, every key and every hash: with scalars that are not 0, as
\* generate_proof and simulate_proof need, the server makes it with exactly
\* one choice of coins, and so does whoever knows the scalar of the client's
\* point.  Where the commitment of a branch is the identity, only the
\* party of the other branch can have made it.
THEOREM DVNIZKDeniable == Spec => []Deniable
  <1>1. TypeOK /\ AcceptedFits => Deniable
    <2> SUFFICES ASSUME TypeOK, AcceptedFits, verdict = "accepted"
                 PROVE  LET c == oracle[<<proof.R1, proof.R2>>]
                        IN  /\ OnceUnless(proof.R1 = 0, Generating(c))
                            /\ OnceUnless(proof.R2 = 0, Simulating(c))
      BY DEF Deniable
    <2>1. /\ oracle[<<proof.R1, proof.R2>>] \in Scalars
          /\ Accepts(proof, oracle[<<proof.R1, proof.R2>>])
          /\ ~Refused(proof, oracle[<<proof.R1, proof.R2>>])
      BY DEF TypeOK, AcceptedFits, Question
    <2> QED BY <2>1, GeneratedOnce, SimulatedOnce
  <1> QED BY <1>1, DVNIZKTypeOK, AcceptedFitsInvariant, PTL
-----------------------------------------------------------------------------
\* Soundness.  It needs that the order of the group is a prime.

\* Scalars that differ by a multiple of the order are the same.
LEMMA SameScalar ==
    ASSUME NEW a \in Scalars, NEW b \in Scalars, (a - b) % n = 0
    PROVE  a = b
  <1>1. a \in Int /\ b \in Int /\ a % n = a /\ b % n = b
    BY Reduced
  <1>2. a - b \in Int
    BY <1>1
  <1>3. (b + ((a - b) % n)) % n = (b + (a - b)) % n
    BY <1>1, <1>2, OrderPositive, ModPlus
  <1>4. b + (a - b) = a /\ b + 0 = b
    BY <1>1
  <1> QED BY <1>1, <1>3, <1>4

\* Two answers for one commitment: their difference is the difference of the
\* challenges times the secret, ...
LEMMA TwoAnswers ==
    ASSUME NEW s \in Scalars, NEW t \in Scalars, NEW R \in Points,
           NEW c \in Scalars, NEW d \in Scalars, NEW P \in Int,
           Branch(s, R, c, P), Branch(t, R, d, P)
    PROVE  ((c - d) * P) % n = (s - t) % n
  <1>1. s \in Int /\ t \in Int /\ c \in Int /\ d \in Int /\ R \in Int
    BY Reduced DEF Points, Scalars
  <1> DEFINE u == c * P
             v == d * P
  <1>2. u \in Int /\ v \in Int /\ u - v = (c - d) * P
    BY <1>1
  <1>3. s % n = (R + (u % n)) % n /\ t % n = (R + (v % n)) % n
    BY DEF Branch, point_base_mul, ed25519_add, point_mul
  <1> HIDE DEF u, v
  <1>4. (R + (u % n)) % n = (R + u) % n /\ (R + (v % n)) % n = (R + v) % n
    BY <1>1, <1>2, OrderPositive, ModPlus
  <1>5. /\ R + u \in Int /\ R + v \in Int
        /\ (R + u) - (R + v) = u - v
    BY <1>1, <1>2
  <1>6. (s - t) % n = ((R + u) - (R + v)) % n
    BY <1>1, <1>3, <1>4, <1>5, OrderPositive, ModSubtract
  <1> QED BY <1>2, <1>5, <1>6

\* ... which gives the secret, as the order is a prime.
LEMMA AnswersGive ==
    ASSUME Prime(n), NEW x \in Int,
           NEW s \in Scalars, NEW t \in Scalars, NEW R \in Points,
           NEW c \in Scalars, NEW d \in Scalars, c # d,
           Branch(s, R, c, point_base_mul(x)),
           Branch(t, R, d, point_base_mul(x))
    PROVE  Gives(x, s, t, c, d)
  <1> DEFINE z == x % n
             e == c - d
  <1>1. z \in Scalars /\ z \in Int
    BY OrderPositive, ModRange, Reduced DEF Scalars
  <1>2. c \in Int /\ d \in Int /\ e \in Int
    BY Reduced
  <1>3. point_base_mul(x) = z
    BY DEF point_base_mul
  <1> HIDE DEF z
  <1>4. (e * z) % n = (s - t) % n
    BY <1>1, <1>3, TwoAnswers
  <1>5. ASSUME NEW y \in Scalars, (e * y) % n = (s - t) % n
        PROVE  y = z
    <2>1. y \in Int
      BY Reduced
    <2> HIDE DEF e
    <2> DEFINE u == e * y
               v == e * z
    <2>2. u \in Int /\ v \in Int /\ u - v = e * (y - z) /\ y - z \in Int
      BY <1>1, <1>2, <2>1
    <2>3. u % n = v % n
      BY <1>4, <1>5
    <2>4. (e * (y - z)) % n = 0
      <3> HIDE DEF u, v
      <3> QED BY <2>2, <2>3, OrderPositive, ModDifference
    <2>5. e % n = 0 \/ (y - z) % n = 0
      <3> DEFINE w == y - z
      <3>1. w \in Int /\ (e * w) % n = 0
        BY <2>2, <2>4
      <3> HIDE DEF w
      <3>2. e % n = 0 \/ w % n = 0
        BY <1>2, <3>1, NoZeroDivisor
      <3> QED BY <3>2 DEF w
    <2>6. e % n # 0
      BY SameScalar DEF e
    <2> QED BY <1>1, <2>5, <2>6, SameScalar
  <1> QED BY <1>1, <1>4, <1>5 DEF e, z, Gives

\* Who can answer two challenges for the same commitments gives away the
\* server's key or the scalar of the client's point, in a group of prime
\* order, whatever the keys, the hash and the answers: the challenges of one
\* of the two branches differ.
THEOREM DVNIZKExtractable == ASSUME Prime(n) PROVE Spec => []Extractable
  <1>1. TypeOK /\ AcceptedFits => Extractable
    <2> DEFINE c == oracle[<<proof.R1, proof.R2>>]
    <2> SUFFICES ASSUME TypeOK, AcceptedFits, verdict = "accepted",
                        NEW d \in Scalars \ {c}, NEW s1 \in Scalars,
                        NEW s2 \in Scalars, NEW c2 \in Scalars,
                        NEW p,
                        p = [proof EXCEPT !.s1 = s1, !.s2 = s2, !.c2 = c2],
                        Accepts(p, d)
                 PROVE  \/ Gives(x_server, proof.s1, s1,
                                 Split(c, proof.c2), Split(d, c2))
                        \/ Gives(P_client, proof.s2, s2, proof.c2, c2)
      BY DEF Extractable
    <2>1. c \in Scalars /\ Accepts(proof, c)
      BY DEF TypeOK, AcceptedFits, Question
    <2> HIDE DEF c
    <2>2. /\ proof.R1 \in Points /\ proof.R2 \in Points
          /\ proof.s1 \in Scalars /\ proof.s2 \in Scalars
          /\ proof.c2 \in Scalars
      BY DEF TypeOK, Proofs
    <2>3. /\ p.R1 = proof.R1 /\ p.R2 = proof.R2
          /\ p.s1 = s1 /\ p.s2 = s2 /\ p.c2 = c2
      BY DEF TypeOK, Proofs
    <2>4. /\ Split(c, proof.c2) \in Scalars /\ Split(d, c2) \in Scalars
          /\ x_server \in Int /\ P_client \in Int
          /\ point_base_mul(P_client) = P_client
      <3>1. P_client \in Scalars
        BY KeysAreIntegers DEF Points, Scalars
      <3> QED
        BY <2>1, <2>2, <3>1, SplitType, KeysAreIntegers, Reduced
        DEF point_base_mul
    <2>5. CASE Split(c, proof.c2) # Split(d, c2)
      BY <2>1, <2>2, <2>3, <2>4, <2>5, AnswersGive DEF Accepts, P_server
    <2>6. CASE proof.c2 # c2
      BY <2>1, <2>2, <2>3, <2>4, <2>6, AnswersGive DEF Accepts
    <2>7. Split(c, proof.c2) = Split(d, c2) /\ proof.c2 = c2 => c = d
      <3> SUFFICES ASSUME Split(c, c2) = Split(d, c2)
                   PROVE  c = d
        OBVIOUS
      <3>1. c \in Int /\ d \in Int /\ c2 \in Int
        BY <2>1, Reduced
      <3>2. /\ c - c2 \in Int /\ d - c2 \in Int
            /\ (c - c2) - (d - c2) = c - d
        BY <3>1
      <3>3. ((c - c2) - (d - c2)) % n = 0
        BY <3>2, OrderPositive, ModDifference DEF Split
      <3> QED BY <2>1, <3>2, <3>3, SameScalar
    <2> QED BY <2>5, <2>6, <2>7
  <1> QED BY <1>1, DVNIZKTypeOK, AcceptedFitsInvariant, PTL
=============================================================================
