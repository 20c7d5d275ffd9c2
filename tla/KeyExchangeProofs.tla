--------------------------- MODULE KeyExchangeProofs ---------------------------
(***************************************************************************)
(* The key exchanges for every group, curve, RSA key and private number:   *)
(* two ends whose shares nobody touched have the same secret, whatever the *)
(* other handshakes do with the RSA key meanwhile, and the server only     *)
(* goes on with a premaster secret that is well formed.                    *)
(*                                                                         *)
(* The proof has two parts: what each kind of key exchange computes, as    *)
(* one lemma per kind about pure operators, and the invariant of the       *)
(* handshakes and of the blinding pair, from these lemmas alone.           *)
(***************************************************************************)
EXTENDS KeyExchange, NumberTheorems

-----------------------------------------------------------------------------
(***************************************************************************)
(* What a key exchange may come to when nobody touched the shares.         *)
(***************************************************************************)
Unlucky == {Refused("small subgroup"), Refused("B")}

Outcome(s, first, second) ==
    IF Mismatched(s)
    THEN ~IsSecret(first) /\ ~IsSecret(second)
    ELSE \/ {first, second} \cap Unlucky # {}
         \/ /\ IsSecret(first) /\ IsSecret(second)
            /\ SamePassword(s) => first = second

\* Each end with the share of the other.
Works(s, a, b) ==
    LET public == PublicOfFirst(s, a)
        answer == AnswerOf(s, b, public.share)
    IN  /\ "refused" \in DOMAIN public => Outcome(s, public, Unknown)
        /\ "refused" \notin DOMAIN public =>
              /\ ~IsSecret(answer.result) =>
                    Outcome(s, Unknown, answer.result)
              /\ IsSecret(answer.result) =>
                    Outcome(s, SecretOfFirst(s, a, answer.share),
                            answer.result)

\* A result is a secret or a refusal.
LEMMA Results ==
    /\ \A x : IsSecret(Secret(x))
    /\ \A x, y : Secret(x) = Secret(y) => x = y
    /\ \A w : ~IsSecret(Refused(w))
    /\ \A w : "refused" \in DOMAIN Refused(w)
    /\ ~IsSecret(Unknown)
  BY DEF IsSecret, Secret, Refused, Unknown

-----------------------------------------------------------------------------
(***************************************************************************)
(* Finite-field Diffie-Hellman.                                            *)
(***************************************************************************)

\* The two orders of exponents give the same power.
LEMMA PowCommutes ==
    ASSUME NEW q \in Nat \ {0}, NEW g \in Int, NEW a \in Nat, NEW b \in Nat
    PROVE  powMod(powMod(g, a, q), b, q) = powMod(powMod(g, b, q), a, q)
  <1>1. powMod(g, a * b, q) = powMod(powMod(g, a, q), b, q)
    BY PowTimes
  <1>2. powMod(g, b * a, q) = powMod(powMod(g, b, q), a, q)
    BY PowTimes
  <1>3. a * b = b * a
    OBVIOUS
  <1> QED BY <1>1, <1>2, <1>3

\* A share that was not refused is one that the peer takes.
LEMMA FFDHShares ==
    ASSUME NEW s, s.kind = "ffdh", Proper(s), NEW a \in Randoms,
           "refused" \notin DOMAIN FFDHPublic(s, a)
    PROVE  LET Y == powMod(s.generator, a, s.prime)
               share == FFDHPublic(s, a).share
           IN  /\ share.value = Y
               /\ 2 <= Y /\ Y < s.prime - 1
               /\ _normalise_peer_share(s, share)
  <1> DEFINE p == s.prime
             Y == powMod(s.generator, a, p)
  <1>1. /\ Prime(p) /\ s.generator \in Nat /\ s.generator % p # 0
        /\ a \in Nat /\ p \in Nat \ {0} /\ s.generator \in Int
    BY RandomsAssumption DEF Proper, Prime
  <1>2. Y # 0
    BY <1>1, PowNotZero
  <1> HIDE DEF p
  <1>3. Y \in 0..(p - 1)
    BY <1>1, PowRange
  <1>4. ValidGenerator(s) /\ Y \notin {1, p - 1}
    BY Results DEF FFDHPublic, p
  <1>5. FFDHPublic(s, a).share =
           IF s.version = "1.3" THEN Padded(Y, numBytes(p)) ELSE Shortest(Y)
    BY <1>4 DEF FFDHPublic, p
  <1> HIDE DEF Y
  <1>6. 2 <= Y /\ Y < p - 1
    BY <1>1, <1>2, <1>3, <1>4
  <1>7. /\ FFDHPublic(s, a).share.value = Y
        /\ _normalise_peer_share(s, FFDHPublic(s, a).share)
    BY <1>5 DEF Padded, Shortest, _normalise_peer_share, p
  <1> QED BY <1>6, <1>7 DEF Y, p

LEMMA ValidFFDHWorks ==
    ASSUME NEW s, s.kind = "ffdh", Proper(s), ValidGenerator(s),
           NEW a \in Randoms, NEW b \in Randoms
    PROVE  Works(s, a, b)
  <1> DEFINE p == s.prime
             public == FFDHPublic(s, a)
             other == FFDHPublic(s, b)
             answer == AnswerOf(s, b, public.share)
             mine == FFDHShared(s, a, other.share)
             theirs == FFDHShared(s, b, public.share)
  <1>1. PublicOfFirst(s, a) = public
    BY DEF PublicOfFirst
  <1>2. /\ Mismatched(s) => answer.result = Refused("small prime")
        /\ ~Mismatched(s) => answer = Answered(s, other, theirs)
    BY DEF AnswerOf, Mismatched
  <1>3. SecretOfFirst(s, a, answer.share) = FFDHShared(s, a, answer.share)
    BY DEF SecretOfFirst
  <1>4. \A r \in Randoms : "refused" \in DOMAIN FFDHPublic(s, r) =>
            FFDHPublic(s, r) = Refused("small subgroup")
    BY DEF FFDHPublic, Refused
  <1>5. ASSUME "refused" \in DOMAIN public
        PROVE  Outcome(s, public, Unknown)
    BY <1>4, <1>5, Results DEF Outcome, Unlucky
  <1>6. ASSUME "refused" \notin DOMAIN public, Mismatched(s)
        PROVE  answer.result = Refused("small prime")
    BY <1>2, <1>6
  <1>7. ASSUME "refused" \notin DOMAIN public, ~Mismatched(s),
               "refused" \in DOMAIN other
        PROVE  answer.result = Refused("small subgroup")
    <2>1. answer = [result |-> other]
      BY <1>2, <1>7 DEF Answered
    <2> HIDE DEF answer, other
    <2>2. answer.result = other
      BY <2>1
    <2> QED BY <1>4, <1>7, <2>2 DEF other
  <1>8. ASSUME "refused" \notin DOMAIN public, ~Mismatched(s),
               "refused" \notin DOMAIN other
        PROVE  /\ answer.result = theirs /\ answer.share = other.share
               /\ \/ theirs = Refused("small subgroup")
                  \/ mine = theirs /\ IsSecret(theirs)
    <2> DEFINE Ya == powMod(s.generator, a, p)
               Yb == powMod(s.generator, b, p)
               S == powMod(Ya, b, p)
    <2>1. answer.result = theirs /\ answer.share = other.share
      <3>1. answer = [result |-> theirs, share |-> other.share]
        BY <1>2, <1>8 DEF Answered
      <3> HIDE DEF answer, theirs, other
      <3> QED BY <3>1
    <2>2. S = powMod(Yb, a, p)
      <3>1. /\ p \in Nat \ {0} /\ s.generator \in Int
            /\ a \in Nat /\ b \in Nat
        BY RandomsAssumption DEF Proper, Prime
      <3> QED BY <3>1, PowCommutes
    <2>3. /\ public.share.value = Ya /\ 2 <= Ya /\ Ya < p - 1
          /\ _normalise_peer_share(s, public.share)
      BY <1>8, FFDHShares
    <2>4. /\ other.share.value = Yb /\ 2 <= Yb /\ Yb < p - 1
          /\ _normalise_peer_share(s, other.share)
      BY <1>8, FFDHShares
    <2> HIDE DEF Ya, Yb, S, public, other
    <2>5. theirs = IF S \in {1, p - 1} THEN Refused("small subgroup")
                   ELSE Secret(FFDHBytes(s, S))
      BY <2>3 DEF FFDHShared, S
    <2>6. mine = IF S \in {1, p - 1} THEN Refused("small subgroup")
                 ELSE Secret(FFDHBytes(s, S))
      BY <2>2, <2>4 DEF FFDHShared
    <2> QED BY <2>1, <2>5, <2>6, Results
  <1> HIDE DEF public, other, answer, mine, theirs
  <1>9. mine = FFDHShared(s, a, other.share)
    BY DEF mine
  <1>10. ASSUME "refused" \notin DOMAIN public
         PROVE  /\ ~IsSecret(answer.result) =>
                      Outcome(s, Unknown, answer.result)
                /\ IsSecret(answer.result) =>
                      Outcome(s, SecretOfFirst(s, a, answer.share),
                              answer.result)
    <2>1. CASE Mismatched(s)
      BY <1>6, <1>10, <2>1, Results DEF Outcome
    <2>2. CASE ~Mismatched(s) /\ "refused" \in DOMAIN other
      BY <1>7, <1>10, <2>2, Results DEF Outcome, Unlucky
    <2>3. CASE ~Mismatched(s) /\ "refused" \notin DOMAIN other
      BY <1>3, <1>8, <1>9, <1>10, <2>3, Results DEF Outcome, Unlucky
    <2> QED BY <2>1, <2>2, <2>3
  <1> QED BY <1>1, <1>5, <1>10 DEF Works, answer

\* With a generator out of range neither end makes a share.
LEMMA FFDHWorks ==
    ASSUME NEW s, s.kind = "ffdh", Proper(s),
           NEW a \in Randoms, NEW b \in Randoms
    PROVE  Works(s, a, b)
  <1>1. CASE ValidGenerator(s)
    BY <1>1, ValidFFDHWorks
  <1>2. CASE ~ValidGenerator(s)
    <2> DEFINE public == FFDHPublic(s, a)
    <2>1. PublicOfFirst(s, a) = public /\ public = Refused("generator")
      BY <1>2 DEF PublicOfFirst, FFDHPublic
    <2>2. "refused" \in DOMAIN public /\ Outcome(s, public, Unknown)
      BY <1>2, <2>1, Results DEF Outcome, Mismatched
    <2> HIDE DEF public
    <2> QED BY <2>1, <2>2 DEF Works
  <1> QED BY <1>1, <1>2
-----------------------------------------------------------------------------
(***************************************************************************)
(* Elliptic curves.                                                        *)
(***************************************************************************)
LEMMA MultiplesCommute ==
    ASSUME NEW q \in Nat \ {0}, NEW a \in Int, NEW b \in Int
    PROVE  ((a % q) * b) % q = ((b % q) * a) % q
  <1>1. (b * (a % q)) % q = (b * a) % q /\ (a * (b % q)) % q = (a * b) % q
    BY ModTimes
  <1>2. a % q \in Int /\ b % q \in Int
    OBVIOUS
  <1>3. b * (a % q) = (a % q) * b /\ a * (b % q) = (b % q) * a /\ b * a = a * b
    BY <1>2
  <1> QED BY <1>1, <1>3

\* The format of the client's that comes first is one that the server takes.
LEMMA FormatIsValid ==
    ASSUME NEW s, s.kind = "ecdh", Proper(s)
    PROVE  NegotiatedFormat(s) \subseteq ValidFormats(s)
  <1>1. CASE s.clientFormats # <<>> /\ s.serverFormats # {}
    BY <1>1 DEF NegotiatedFormat, ValidFormats, FirstCommon
  <1>2. CASE ~(s.clientFormats # <<>> /\ s.serverFormats # {})
    BY <1>2 DEF NegotiatedFormat, ValidFormats
  <1> QED BY <1>1, <1>2

LEMMA ECDHSharedValue ==
    ASSUME NEW s, NEW f \in ValidFormats(s), NEW share, NEW r,
           share.format = f, share.point \in 1..(s.order - 1)
    PROVE  ECDHShared(s, r, share) = Secret((share.point * r) % s.order)
  BY DEF ECDHShared

LEMMA ECDHWorks ==
    ASSUME NEW s, s.kind = "ecdh", Proper(s),
           NEW a \in Randoms, NEW b \in Randoms
    PROVE  Works(s, a, b)
  <1> DEFINE o == s.order
             public == ECDHPublic(s, a)
             other == ECDHPublic(s, b)
             answer == AnswerOf(s, b, public.share)
             mine == ECDHShared(s, a, other.share)
             theirs == ECDHShared(s, b, public.share)
  <1>1. PublicOfFirst(s, a) = public
    BY DEF PublicOfFirst
  <1>2. answer = Answered(s, other, theirs)
    BY DEF AnswerOf
  <1>3. SecretOfFirst(s, a, answer.share) = ECDHShared(s, a, answer.share)
    BY DEF SecretOfFirst
  <1>4. Mismatched(s) <=> NegotiatedFormat(s) = {}
    BY DEF Mismatched
  <1>5. CASE NegotiatedFormat(s) = {}
    <2>1. public = Refused("no common point format")
      BY <1>5 DEF ECDHPublic
    <2>2. "refused" \in DOMAIN public /\ Outcome(s, public, Unknown)
      BY <1>4, <1>5, <2>1, Results DEF Outcome
    <2> HIDE DEF public, answer
    <2> QED BY <1>1, <2>2 DEF Works
  <1>6. CASE NegotiatedFormat(s) # {}
    <2> DEFINE f == CHOOSE x \in NegotiatedFormat(s) : TRUE
    <2>1. f \in NegotiatedFormat(s) /\ f \in ValidFormats(s)
      BY <1>6, FormatIsValid
    <2>2. \A r : ECDHPublic(s, r) = [share |-> [format |-> f,
                                                point |-> r % o]]
      BY <1>6 DEF ECDHPublic
    <2>3. /\ a \in Int /\ b \in Int /\ o \in Nat \ {0}
          /\ a % o # 0 /\ b % o # 0
      BY RandomsAssumption DEF Proper, Drawn
    <2>4. a % o \in 1..(o - 1) /\ b % o \in 1..(o - 1)
      <3> HIDE DEF o
      <3> QED BY <2>3
    <2>5. \A r \in Randoms : LET share == ECDHPublic(s, r).share
                            IN  share.format = f /\ share.point = r % o
      BY <2>2
    <2>6. /\ theirs = Secret(((a % o) * b) % o)
          /\ mine = Secret(((b % o) * a) % o)
      <3> HIDE DEF f
      <3> QED BY <2>1, <2>4, <2>5, ECDHSharedValue
    <2>7. mine = theirs
      <3> HIDE DEF o, mine, theirs
      <3>1. ((a % o) * b) % o = ((b % o) * a) % o
        BY <2>3, MultiplesCommute
      <3> QED BY <2>6, <3>1
    <2>8. answer.result = theirs /\ answer.share = other.share
      <3>1. "refused" \notin DOMAIN other
        BY <2>2
      <3>2. answer = [result |-> theirs, share |-> other.share]
        BY <1>2, <3>1 DEF Answered
      <3> HIDE DEF answer, theirs, other
      <3> QED BY <3>2
    <2>9. "refused" \notin DOMAIN public
      BY <2>2
    <2>10. mine = ECDHShared(s, a, other.share)
      OBVIOUS
    <2> HIDE DEF public, other, answer, mine, theirs, f
    <2>11. IsSecret(theirs)
      BY <2>6, Results
    <2>12. Outcome(s, SecretOfFirst(s, a, answer.share), answer.result)
      BY <1>3, <1>4, <1>6, <2>7, <2>8, <2>10, <2>11 DEF Outcome
    <2> QED BY <1>1, <2>8, <2>9, <2>11, <2>12 DEF Works, answer
  <1> QED BY <1>5, <1>6

\* The product of two points and the cofactors is not the neutral point, as
\* the order without the cofactor is a prime.
LEMMA XNotZero ==
    ASSUME NEW order, NEW q, Prime(q), order = Cofactor * q, q # Cofactor,
           NEW a \in Nat, NEW b \in Nat, a % q # 0, b % q # 0
    PROVE  /\ order \in Nat \ {0}
           /\ (((Cofactor * a) % order) * ((Cofactor * b) % order)) % order # 0
  <1> DEFINE two == 2
             x == two * a
             y == two * b
  <1>1. /\ q \in Nat \ {0} /\ q > 1 /\ order = two * q
        /\ two \in Int /\ two % q # 0
    <2>1. q \in Nat /\ q > 1 /\ q # 2
      BY DEF Prime, Cofactor
    <2>2. 2 % q = 2
      BY <2>1
    <2> QED BY <2>1, <2>2 DEF Cofactor
  <1>2. order \in Nat \ {0}
    BY <1>1
  <1>3. x \in Int /\ y \in Int
    OBVIOUS
  <1>4. ((x % order) * (y % order)) % order = (x * y) % order
    <2> HIDE DEF x, y
    <2> QED BY <1>2, <1>3, ModTimesBoth
  <1>5. \A u, v \in Int : two * u = two * v => u = v
    OBVIOUS
  <1>6. x * y = two * (x * b) /\ x * b \in Int
    BY <1>3
  <1>7. \A k \in Int : (two * q) * k = two * (q * k) /\ q * k \in Int
    BY <1>1
  <1>8. two * a = x
    OBVIOUS
  <1>9. (x * y) % order # 0
    <2> HIDE DEF two, x, y
    <2> SUFFICES ASSUME (x * y) % order = 0
                 PROVE  FALSE
      OBVIOUS
    <2>1. x * y \in Int
      BY <1>3
    <2>2. \A z \in Int : z % order = 0 => \E k \in Int : z = order * k
      BY <1>2, ModZero
    <2>3. PICK k \in Int : x * y = order * k
      BY <2>1, <2>2
    <2>4. two * (x * b) = two * (q * k)
      BY <1>1, <1>6, <1>7, <2>3
    <2>5. x * b = q * k
      BY <1>5, <1>6, <1>7, <2>4
    <2>6. (x * b) % q = 0
      <3>1. \A z \in Int : (z + q * k) % q = z % q
        BY <1>1, ModShift
      <3>2. (0 + q * k) % q = 0 % q /\ 0 % q = 0
        BY <1>1, <3>1
      <3>3. 0 + q * k = q * k
        BY <1>7
      <3> QED BY <2>5, <3>2, <3>3
    <2>7. x % q = 0
      <3>1. x \in Int /\ b \in Int
        BY <1>3
      <3> QED BY <2>6, <3>1, NoZeroDivisor
    <2>8. (two * a) % q = 0 /\ a \in Int
      BY <1>8, <2>7
    <2> QED BY <1>1, <2>8, NoZeroDivisor
  <1> QED BY <1>2, <1>4, <1>9 DEF Cofactor
LEMMA XSharedValue ==
    ASSUME NEW s, NEW r, NEW share, NEW u, Clamped(s, r) = u,
           share.format = "x", (share.point * u) % s.order # 0
    PROVE  XShared(s, r, share) = Secret((share.point * u) % s.order)
  BY DEF XShared, _non_zero_check

\* What the two ends of an x curve make of each other's shares.
LEMMA XAgree ==
    ASSUME NEW s, NEW a \in Randoms, NEW b \in Randoms,
           \E q \in 1..s.order :
              Prime(q) /\ s.order = Cofactor * q /\ q # Cofactor /\ Drawn(q)
    PROVE  LET S == ((Clamped(s, a) * Clamped(s, b)) % s.order)
           IN  /\ XShared(s, a, XPublic(s, b).share) = Secret(S)
               /\ XShared(s, b, XPublic(s, a).share) = Secret(S)
  <1> DEFINE o == s.order
             u == Clamped(s, a)
             v == Clamped(s, b)
  <1>1. PICK q \in 1..o :
           Prime(q) /\ o = Cofactor * q /\ q # Cofactor /\ Drawn(q)
    OBVIOUS
  <1>2. a \in Nat /\ b \in Nat /\ a % q # 0 /\ b % q # 0
    BY <1>1, RandomsAssumption DEF Drawn
  <1>3. o \in Nat \ {0} /\ (u * v) % o # 0
    BY <1>1, <1>2, XNotZero DEF Clamped
  <1>4. u * v = v * u
    <2>1. Cofactor * a \in Int /\ Cofactor * b \in Int
      BY <1>2 DEF Cofactor
    <2>2. \A z \in Int : z % o \in Int
      BY <1>3
    <2>3. u \in Int /\ v \in Int
      BY <2>1, <2>2 DEF Clamped
    <2> HIDE DEF u, v
    <2> QED BY <2>3
  <1>5. /\ XPublic(s, a).share = [format |-> "x", point |-> u]
        /\ XPublic(s, b).share = [format |-> "x", point |-> v]
    BY DEF XPublic
  <1> DEFINE xa == XPublic(s, a).share
             xb == XPublic(s, b).share
  <1>6. Clamped(s, a) = u /\ Clamped(s, b) = v
    OBVIOUS
  <1> HIDE DEF u, v, xa, xb
  <1>7. /\ xa.format = "x" /\ xa.point = u
        /\ xb.format = "x" /\ xb.point = v
    BY <1>5 DEF xa, xb
  <1>8. XShared(s, a, xb) = Secret((xb.point * u) % o)
    BY <1>3, <1>4, <1>6, <1>7, XSharedValue
  <1>9. XShared(s, b, xa) = Secret((xa.point * v) % o)
    BY <1>3, <1>6, <1>7, XSharedValue
  <1> QED BY <1>4, <1>7, <1>8, <1>9 DEF u, v, xa, xb

LEMMA XWorks ==
    ASSUME NEW s, s.kind = "x", Proper(s),
           NEW a \in Randoms, NEW b \in Randoms
    PROVE  Works(s, a, b)
  <1> DEFINE public == XPublic(s, a)
             other == XPublic(s, b)
             answer == AnswerOf(s, b, public.share)
             mine == XShared(s, a, other.share)
             theirs == XShared(s, b, public.share)
  <1>1. /\ PublicOfFirst(s, a) = public
        /\ answer = Answered(s, other, theirs)
        /\ SecretOfFirst(s, a, answer.share) = XShared(s, a, answer.share)
        /\ ~Mismatched(s)
    BY DEF PublicOfFirst, AnswerOf, SecretOfFirst, Mismatched
  <1>2. "refused" \notin DOMAIN public /\ "refused" \notin DOMAIN other
    BY DEF XPublic
  <1>3. mine = theirs /\ IsSecret(theirs)
    BY XAgree, Results DEF Proper
  <1>4. answer.result = theirs /\ answer.share = other.share
    <2>1. answer = [result |-> theirs, share |-> other.share]
      BY <1>1, <1>2 DEF Answered
    <2> HIDE DEF answer, theirs, other
    <2> QED BY <2>1
  <1>5. mine = XShared(s, a, other.share)
    OBVIOUS
  <1> HIDE DEF public, other, answer, mine, theirs
  <1>6. Outcome(s, SecretOfFirst(s, a, answer.share), answer.result)
    BY <1>1, <1>3, <1>4, <1>5 DEF Outcome
  <1> QED BY <1>1, <1>2, <1>3, <1>4, <1>6 DEF Works, answer

-----------------------------------------------------------------------------
(***************************************************************************)
(* Hybrid key encapsulation.                                               *)
(***************************************************************************)
LEMMA Parts ==
    ASSUME NEW s, NEW p, NEW c
    PROVE  /\ Splits(s, Joined(s, p, c))
           /\ PqcOf(s, Joined(s, p, c)) = p
           /\ ClassicOf(s, Joined(s, p, c)) = c
  BY DEF Splits, Joined, PqcOf, ClassicOf

LEMMA KEMWorks ==
    ASSUME NEW s, s.kind = "kem", Proper(s),
           NEW a \in Randoms, NEW b \in Randoms
    PROVE  Works(s, a, b)
  <1> DEFINE t == Classic(s)
             xa == XPublic(t, a).share
             xb == XPublic(t, b).share
             key == Pqc("key", a)
             ciphertext == Pqc("ciphertext", <<a, b>>)
             first == Joined(s, key, ClassicPart(xa))
             second == Joined(s, ciphertext, ClassicPart(xb))
             pqc == [rejected |-> FALSE, from |-> <<a, b>>]
             answer == AnswerOf(s, b, first)
             S == (Clamped(t, a) * Clamped(t, b)) % t.order
  <1>1. /\ PublicOfFirst(s, a) = [share |-> first]
        /\ answer = Encapsulate(s, b, first)
        /\ SecretOfFirst(s, a, second) = KEMShared(s, a, second)
        /\ ~Mismatched(s)
    BY DEF PublicOfFirst, AnswerOf, SecretOfFirst, Mismatched, KEMPublic
  <1>2. XShared(t, a, xb) = Secret(S) /\ XShared(t, b, xa) = Secret(S)
    <2>1. t.order = s.order
      BY DEF Classic
    <2> QED BY <2>1, XAgree DEF Proper
  <1>3. /\ key.value = a
        /\ ciphertext.of = "ciphertext" /\ ciphertext.value = <<a, b>>
        /\ ciphertext.value[1] = a
        /\ ClassicPart(xa).value = xa /\ ClassicPart(xb).value = xb
    BY DEF Pqc, ClassicPart
  <1>4. /\ Splits(s, first) /\ PqcOf(s, first) = key
        /\ ClassicOf(s, first) = ClassicPart(xa)
    BY Parts
  <1>5. /\ Splits(s, second) /\ PqcOf(s, second) = ciphertext
        /\ ClassicOf(s, second) = ClassicPart(xb)
    BY Parts
  <1>6. decaps(a, ciphertext) = pqc
    BY <1>3 DEF decaps
  <1>7. \A z : Hybrid(s, z, Secret(S)) = Secret(Joined(s, z, S))
    BY Results DEF Hybrid, Secret
  <1> HIDE DEF t, xa, xb, key, ciphertext, first, second, S, pqc
  <1>8. Encapsulate(s, b, first) =
           [result |-> Hybrid(s, pqc, Secret(S)), share |-> second]
    BY <1>2, <1>3, <1>4 DEF Encapsulate, second, ciphertext, pqc, t, xb
  <1>9. KEMShared(s, a, second) = Hybrid(s, pqc, Secret(S))
    BY <1>2, <1>3, <1>5, <1>6 DEF KEMShared, t
  <1> DEFINE result == Hybrid(s, pqc, Secret(S))
  <1>10. IsSecret(result)
    BY <1>7, Results
  <1> HIDE DEF result
  <1>11. answer = [result |-> result, share |-> second]
    BY <1>1, <1>8 DEF result
  <1>12. SecretOfFirst(s, a, second) = result
    BY <1>1, <1>9 DEF result
  <1> HIDE DEF answer
  <1>13. answer.result = result /\ answer.share = second
    BY <1>11
  <1>14. Outcome(s, SecretOfFirst(s, a, answer.share), answer.result)
    BY <1>1, <1>10, <1>12, <1>13 DEF Outcome
  <1>15. /\ "refused" \notin DOMAIN PublicOfFirst(s, a)
         /\ PublicOfFirst(s, a).share = first
    BY <1>1
  <1> QED BY <1>10, <1>13, <1>14, <1>15 DEF Works, answer
-----------------------------------------------------------------------------
(***************************************************************************)
(* SRP.                                                                    *)
(***************************************************************************)

\* The numbers of a run of SRP: the private ones a and b, the password x, the
\* verifier v and the shares A and B.
SRPRun(N, g, a, b, x, k, v, A, B) ==
    /\ N \in Nat \ {0} /\ g \in Int /\ a \in Nat /\ b \in Nat /\ x \in Nat
    /\ k \in Int
    /\ v = powMod(g, x, N) /\ A = powMod(g, b, N)
    /\ B = (powMod(g, a, N) + (k * v)) % N

\* The client takes the verifier out of B again.
LEMMA SRPUnmasked ==
    ASSUME NEW N \in Nat \ {0}, NEW p \in Int, NEW z \in Int, p % N = p
    PROVE  (((p + z) % N) - z) % N = p
  <1> DEFINE sum == p + z
             B == sum % N
  <1>1. sum \in Int /\ sum - z = p
    OBVIOUS
  <1> HIDE DEF sum
  <1>2. PICK k \in Int, r \in 0..(N - 1) : r = B /\ sum = N * k + r
    BY <1>1, ModQuotient
  <1> DEFINE j == -k
  <1>3. j \in Int /\ r \in Int /\ N * k \in Int /\ N * j = -(N * k)
    BY <1>2
  <1>4. r - z = p + N * j
    <2> DEFINE x == N * k
               y == N * j
    <2>1. sum = x + r /\ y = -x /\ x \in Int
      BY <1>2, <1>3
    <2> HIDE DEF x, y
    <2>2. r - z = p + y
      BY <1>1, <1>3, <2>1
    <2> QED BY <2>2 DEF y
  <1>5. \A i \in Int : (p + N * i) % N = p % N
    BY ModShift
  <1> HIDE DEF j, B
  <1> QED BY <1>2, <1>3, <1>4, <1>5 DEF sum, B

\* Client and server raise the generator to the same power.
LEMMA SRPAgree ==
    ASSUME NEW N, NEW g, NEW a, NEW b, NEW x, NEW k, NEW v, NEW A, NEW B,
           SRPRun(N, g, a, b, x, k, v, A, B), NEW u \in Nat
    PROVE  powMod((B - (k * v)) % N, b + (u * x), N) =
           powMod((A * powMod(v, u, N)) % N, a, N)
  <1>0. /\ N \in Nat \ {0} /\ g \in Int /\ a \in Nat /\ b \in Nat
        /\ x \in Nat /\ k \in Int
        /\ v = powMod(g, x, N) /\ A = powMod(g, b, N)
        /\ B = (powMod(g, a, N) + (k * v)) % N
    BY DEF SRPRun
  <1> DEFINE kv == k * v
             ga == powMod(g, a, N)
             e == b + u * x
  <1>1. /\ v \in Int /\ ga \in Int /\ A \in Int
        /\ ga % N = ga
    BY <1>0, PowRange
  <1>2. kv \in Int
    BY <1>0, <1>1
  <1>3. u * x \in Nat /\ e \in Nat
    BY <1>0
  <1>4. (B - kv) % N = ga
    <2>1. B = (ga + kv) % N
      BY <1>0
    <2> HIDE DEF kv, ga
    <2>2. (((ga + kv) % N) - kv) % N = ga
      BY <1>0, <1>1, <1>2, SRPUnmasked
    <2> QED BY <2>1, <2>2
  <1>5. powMod(v, u, N) = powMod(g, x * u, N)
    BY <1>0, PowTimes
  <1>6. (A * powMod(v, u, N)) % N = powMod(g, e, N)
    <2>1. x * u \in Nat /\ x * u = u * x
      BY <1>0
    <2> DEFINE w == x * u
    <2>2. powMod(g, b + w, N) = (powMod(g, b, N) * powMod(g, w, N)) % N
      <3> HIDE DEF w
      <3>1. w \in Nat
        BY <2>1 DEF w
      <3> QED BY <1>0, <3>1, PowSum
    <2>3. b + w = e
      BY <2>1
    <2> HIDE DEF w, e
    <2> QED BY <1>0, <1>5, <2>2, <2>3 DEF w
  <1>7. powMod(powMod(g, a, N), e, N) = powMod(powMod(g, e, N), a, N)
    <2> HIDE DEF e
    <2> QED BY <1>0, <1>3, PowCommutes
  <1> HIDE DEF kv, ga, e
  <1>8. powMod((B - kv) % N, e, N) = powMod((A * powMod(v, u, N)) % N, a, N)
    BY <1>4, <1>6, <1>7 DEF ga
  <1> QED BY <1>8 DEF kv, e

LEMMA SRPWorks ==
    ASSUME NEW s, s.kind = "srp", Proper(s),
           NEW a \in Randoms, NEW b \in Randoms
    PROVE  Works(s, a, b)
  <1> DEFINE N == s.N
             g == s.g
             k == makeK(N, g)
             v == SRPVerifier(s)
             B == SRPServerPublic(s, a).share
             A == SRPClientPublic(s, b).share
             u == makeU(N, A, B)
             theirs == SRPClientSecret(s, b, B)
             mine == SRPServerSecret(s, a, A)
             answer == AnswerOf(s, b, B)
  <1>1. /\ PublicOfFirst(s, a) = SRPServerPublic(s, a)
        /\ "refused" \notin DOMAIN PublicOfFirst(s, a)
        /\ answer = Answered(s, SRPClientPublic(s, b), theirs)
        /\ SecretOfFirst(s, a, A) = mine
        /\ Mismatched(s) <=> ~s.knownGroup
        /\ SamePassword(s) <=> s.password = s.stored
    BY DEF PublicOfFirst, AnswerOf, SecretOfFirst, Mismatched, SamePassword,
           SRPServerPublic
  <1>2. /\ Prime(N) /\ N \in Nat \ {0} /\ g \in Nat /\ g % N # 0
        /\ a \in Nat /\ b \in Nat
        /\ s.password \in Nat /\ s.stored \in Nat
    BY RandomsAssumption DEF Proper, Prime
  <1>3. /\ A = powMod(g, b, N)
        /\ v = powMod(g, s.stored, N)
        /\ B = (powMod(g, a, N) + (k * v)) % N
    BY DEF SRPClientPublic, SRPVerifier, SRPServerPublic, makeX
  <1>4. A \in Int /\ A % N # 0 /\ v \in Int /\ powMod(g, a, N) \in Int
    <2> HIDE DEF N, g, A, v
    <2>1. \A e \in Nat : /\ powMod(g, e, N) # 0
                          /\ powMod(g, e, N) \in Int
                          /\ powMod(g, e, N) % N = powMod(g, e, N)
      <3>1. g \in Int
        BY <1>2
      <3> QED BY <1>2, <3>1, PowNotZero, PowRange
    <2> QED BY <1>2, <1>3, <2>1
  <1>5. k \in Int
    <2> HIDE DEF N, g
    <2> QED BY <1>2 DEF makeK
  <1>6. B \in Int
    <2> HIDE DEF v, k, N, B
    <2>1. k * v \in Int
      BY <1>4, <1>5
    <2> DEFINE sum == powMod(g, a, N) + (k * v)
    <2>2. sum \in Int /\ B = sum % N
      BY <1>3, <1>4, <2>1
    <2> HIDE DEF sum
    <2> QED BY <1>2, <2>2
  <1>7. u \in Nat
    <2> HIDE DEF A, B, N
    <2> QED BY <1>2, <1>4, <1>6 DEF makeU
  <1>8. answer.result = theirs /\ answer.share = A
    <2>1. answer = [result |-> theirs, share |-> A]
      BY <1>1 DEF Answered, SRPClientPublic
    <2> HIDE DEF answer, theirs, A
    <2> QED BY <2>1
  <1> DEFINE result ==
          Shortest(powMod((A * powMod(v, u, N)) % N, a, N))
  <1>9. mine = Secret(result)
    BY <1>4 DEF SRPServerSecret
  <1>10. ~s.knownGroup => theirs = Refused("group")
    BY DEF SRPClientSecret
  <1>11. s.knownGroup /\ B % N = 0 => theirs = Refused("B")
    BY DEF SRPClientSecret
  <1> DEFINE w == powMod(g, s.password, N)
             other == Shortest(powMod((B - (k * w)) % N,
                                      b + (u * s.password), N))
  <1>12. s.knownGroup /\ B % N # 0 => theirs = Secret(other)
    BY DEF SRPClientSecret, makeX
  <1>13. s.password = s.stored => other = result
    <2> SUFFICES ASSUME s.password = s.stored
                 PROVE  other = result
      OBVIOUS
    <2> DEFINE x == s.password
    <2>1. w = v /\ w = powMod(g, x, N) /\ x \in Nat
      BY <1>2, <1>3
    <2> HIDE DEF N, g, k, u, B, v, w, A, x
    <2>2. SRPRun(N, g, a, b, x, k, v, A, B)
      BY <1>2, <1>3, <1>5, <2>1 DEF SRPRun
    <2>3. powMod((B - (k * v)) % N, b + (u * x), N) =
             powMod((A * powMod(v, u, N)) % N, a, N)
      BY <1>7, <2>2, SRPAgree
    <2> QED BY <2>1, <2>3 DEF x
  <1> HIDE DEF N, g, k, v, B, A, u, w, theirs, mine, answer, result, other
  <1>14. ~IsSecret(answer.result) => Outcome(s, Unknown, answer.result)
    BY <1>1, <1>8, <1>10, <1>11, <1>12, Results DEF Outcome, Unlucky
  <1>15. IsSecret(answer.result) =>
            Outcome(s, SecretOfFirst(s, a, answer.share), answer.result)
    BY <1>1, <1>8, <1>9, <1>10, <1>11, <1>12, <1>13, Results DEF Outcome
  <1>16. PublicOfFirst(s, a).share = B
    BY <1>1 DEF B
  <1> QED BY <1>1, <1>14, <1>15, <1>16 DEF Works, answer
\* So it is for each kind of key exchange that has two shares.
LEMMA ExchangeWorks ==
    ASSUME NEW s, Proper(s), s.kind \notin {"rsa", "idle"},
           NEW a \in Randoms, NEW b \in Randoms
    PROVE  Works(s, a, b)
  <1>1. s.kind \in {"ffdh", "ecdh", "x", "kem", "srp"}
    BY DEF Proper
  <1> QED BY <1>1, FFDHWorks, ECDHWorks, XWorks, KEMWorks, SRPWorks

-----------------------------------------------------------------------------
(***************************************************************************)
(* RSA: the blinding pairs, and the premaster secrets.                     *)
(***************************************************************************)

\* What the first number of a pair hides, the second uncovers again.
GoodPair(pair) ==
    /\ pair.blinder \in Int /\ pair.unblinder \in Int
    /\ \E i \in Int : /\ pair.blinder = powMod(i, KeyE, KeyN)
                      /\ (i * pair.unblinder) % KeyN = 1 % KeyN

LEMMA Key == KeyN \in Nat \ {0} /\ KeyE \in Nat /\ KeyD \in Nat
  BY KeyAssumption

LEMMA Below == 1 % KeyN = 1 /\ \A m \in 0..KeyN - 1 : m \in Int /\ m % KeyN = m
  <1>1. KeyN \in Nat /\ KeyN > 1
    BY KeyAssumption
  <1> QED BY <1>1

LEMMA FirstPairIsGood ==
    ASSUME NEW u \in Units
    PROVE  GoodPair(FirstPair(u))
  <1> DEFINE i == invMod(u)
  <1>1. i \in Int /\ u \in Int /\ (u * i) % KeyN = 1
    <2>1. \E k \in 1..KeyN - 1 : (u * k) % KeyN = 1
      BY DEF Units
    <2>2. i \in 1..KeyN - 1 /\ (u * i) % KeyN = 1
      BY <2>1 DEF invMod
    <2>3. u \in 2..KeyN - 1
      BY DEF Units
    <2> QED BY <2>2, <2>3, Key
  <1>2. /\ FirstPair(u).blinder = powMod(i, KeyE, KeyN)
        /\ FirstPair(u).unblinder = u
    BY DEF FirstPair
  <1> HIDE DEF i
  <1>3. i * u = u * i
    BY <1>1
  <1>4. powMod(i, KeyE, KeyN) \in Int
    BY <1>1, Key, PowRange
  <1> QED BY <1>1, <1>2, <1>3, <1>4, Below DEF GoodPair

LEMMA NextPairIsGood ==
    ASSUME NEW pair, GoodPair(pair)
    PROVE  GoodPair(NextPair(pair))
  <1> DEFINE u == pair.unblinder
             e == pair.blinder
  <1>1. u \in Int /\ e \in Int
    BY DEF GoodPair
  <1>2. PICK i \in Int : /\ e = powMod(i, KeyE, KeyN)
                         /\ (i * u) % KeyN = 1 % KeyN
    BY DEF GoodPair
  <1>3. /\ NextPair(pair).blinder = (e * e) % KeyN
        /\ NextPair(pair).unblinder = (u * u) % KeyN
    BY DEF NextPair
  <1> HIDE DEF u, e
  <1> DEFINE ii == i * i
             uu == u * u
             iu == i * u
  <1>4. ii \in Int /\ uu \in Int /\ iu \in Int
    BY <1>1
  <1>5. ii * uu = iu * iu
    <2>1. \A p, q, r \in Int : (p * q) * r = p * (q * r) /\ p * q = q * p
      OBVIOUS
    <2>2. /\ (i * i) * (u * u) = i * (i * (u * u))
          /\ i * (u * u) = (i * u) * u
          /\ (i * u) * u = u * (i * u)
          /\ i * (u * (i * u)) = (i * u) * (i * u)
      BY <1>1
    <2> QED BY <2>2
  <1>6. powMod(ii, KeyE, KeyN) = (e * e) % KeyN
    BY <1>2, Key, PowProduct
  <1>7. (iu * iu) % KeyN = 1 % KeyN
    <2> HIDE DEF iu
    <2>1. ((iu % KeyN) * (iu % KeyN)) % KeyN = (iu * iu) % KeyN
      BY <1>4, Key, ModTimesBoth
    <2>2. ((1 % KeyN) * (1 % KeyN)) % KeyN = 1 % KeyN
      BY Key, ModOne
    <2> QED BY <1>2, <2>1, <2>2 DEF iu
  <1> HIDE DEF ii, uu, iu
  <1>8. (ii * (uu % KeyN)) % KeyN = 1 % KeyN
    <2>1. (ii * (uu % KeyN)) % KeyN = (ii * uu) % KeyN
      BY <1>4, Key, ModTimes
    <2> QED BY <1>5, <1>7, <2>1
  <1>9. uu % KeyN \in Int /\ powMod(ii, KeyE, KeyN) \in Int
    <2>1. uu % KeyN \in 0..KeyN - 1
      BY <1>4, Key, ModRange
    <2>2. powMod(ii, KeyE, KeyN) \in 0..KeyN - 1
      BY <1>4, Key, PowRange
    <2> QED BY <2>1, <2>2, Below
  <1>10. /\ NextPair(pair).blinder = powMod(ii, KeyE, KeyN)
         /\ NextPair(pair).unblinder = uu % KeyN
    BY <1>3, <1>6 DEF uu
  <1> QED BY <1>4, <1>8, <1>9, <1>10 DEF GoodPair

\* The private key's operation on a blinded share, as Unblinded has it.
Recovered(share, pair) ==
    (powMod((share * pair.blinder) % KeyN, KeyD, KeyN) * pair.unblinder) % KeyN

LEMMA RecoveredRange ==
    ASSUME NEW share \in Int, NEW pair, GoodPair(pair)
    PROVE  Recovered(share, pair) \in 0..KeyN - 1
  <1> DEFINE c == (share * pair.blinder) % KeyN
             r == powMod(c, KeyD, KeyN)
             p == r * pair.unblinder
  <1>1. pair.blinder \in Int /\ pair.unblinder \in Int
    BY DEF GoodPair
  <1>2. share * pair.blinder \in Int
    BY <1>1
  <1>3. c \in Int
    <2> DEFINE y == share * pair.blinder
    <2> HIDE DEF y
    <2>1. y % KeyN \in Int
      BY <1>2, Key DEF y
    <2> QED BY <2>1 DEF y
  <1> HIDE DEF c
  <1>4. r \in Int
    BY <1>3, Key, PowRange
  <1> HIDE DEF r
  <1>5. p \in Int
    BY <1>1, <1>4
  <1> HIDE DEF p
  <1>6. p % KeyN \in 0..KeyN - 1
    BY <1>5, Key, ModRange
  <1> QED BY <1>6 DEF Recovered, p, r, c

LEMMA RecoversMessage ==
    ASSUME NEW m \in 0..KeyN - 1, NEW pair, GoodPair(pair)
    PROVE  Recovered(powMod(m, KeyE, KeyN), pair) = m
  <1> DEFINE e == pair.blinder
             u == pair.unblinder
             share == powMod(m, KeyE, KeyN)
  <1>1. e \in Int /\ u \in Int
    BY DEF GoodPair
  <1>2. PICK i \in Int : /\ e = powMod(i, KeyE, KeyN)
                         /\ (i * u) % KeyN = 1 % KeyN
    BY DEF GoodPair
  <1>3. m \in Int
    BY Below
  <1> DEFINE mi == m * i
             r == mi % KeyN
             iu == i * u
  <1>4. mi \in Int /\ iu \in Int /\ mi * u = m * iu
    <2>1. mi \in Int /\ iu \in Int
      BY <1>1, <1>3
    <2>2. (m * i) * u = m * (i * u)
      BY <1>1, <1>3
    <2> QED BY <2>1, <2>2
  <1>5. powMod(mi, KeyE, KeyN) = (share * e) % KeyN
    <2>1. powMod(m * i, KeyE, KeyN) =
             (powMod(m, KeyE, KeyN) * powMod(i, KeyE, KeyN)) % KeyN
      BY <1>3, Key, PowProduct
    <2> HIDE DEF e
    <2> QED BY <1>2, <2>1
  <1> HIDE DEF mi, e, u, share, iu
  <1>6. r \in 0..KeyN - 1 /\ r \in Int /\ r % KeyN = mi % KeyN
    <2>1. mi % KeyN \in 0..KeyN - 1
      BY <1>4, Key, ModRange
    <2>2. (mi % KeyN) % KeyN = mi % KeyN
      BY <1>4, Key, ModTwice
    <2> QED BY <2>1, <2>2, Below
  <1> HIDE DEF r
  <1>7. powMod(r, KeyE, KeyN) = powMod(mi, KeyE, KeyN)
    BY <1>4, <1>6, Key, PowSameBase
  <1>8. powMod(powMod(r, KeyE, KeyN), KeyD, KeyN) = r
    BY <1>6, KeyAssumption
  <1>9. (r * u) % KeyN = (mi * u) % KeyN
    <2>1. (u * (mi % KeyN)) % KeyN = (u * mi) % KeyN
      BY <1>1, <1>4, Key, ModTimes
    <2>2. u * r = r * u /\ u * mi = mi * u
      BY <1>1, <1>4, <1>6
    <2> QED BY <2>1, <2>2 DEF r
  <1>10. (m * iu) % KeyN = m
    <2>1. (m * (iu % KeyN)) % KeyN = (m * iu) % KeyN
      BY <1>3, <1>4, Key, ModTimes
    <2>2. (m * (1 % KeyN)) % KeyN = m % KeyN
      BY <1>3, Key, ModOne
    <2>3. m % KeyN = m
      BY Below
    <2> QED BY <1>2, <2>1, <2>2, <2>3 DEF iu
  <1>11. Recovered(share, pair) =
            (powMod((share * e) % KeyN, KeyD, KeyN) * u) % KeyN
    BY DEF Recovered, e, u
  <1> QED BY <1>4, <1>5, <1>7, <1>8, <1>9, <1>10, <1>11 DEF share

\* The loop of decrypt finds the messages of the right length that PKCS #1
\* calls well formed, and no other.
LEMMA StartIsWellFormed ==
    ASSUME NEW m \in 0..KeyN - 1
    PROVE  LET start == MessageStart(Encoded[m])
           IN  start # 0 /\ Size - start = PremasterLength
                   <=> WellFormed(Encoded[m])
  <1> DEFINE em == Encoded[m]
             separators == Zeroed(em, 10, Size - 1)
             error == \/ em.first # 0 \/ em.type # 2
                      \/ Zeroed(em, 2, 9) # {}
                      \/ separators = {}
             start == MessageStart(em)
  <1>1. Size = 13 /\ PremasterLength = 2
    BY DEF Size, PremasterLength
  <1>2. em.zeros \subseteq 0..12
    BY <1>1, EncodedAssumption
  <1>3. start = IF error THEN 0 ELSE Min(separators) + 1
    BY DEF MessageStart
  <1> HIDE DEF em
  <1>4. WellFormed(em) <=>
           /\ em.first = 0 /\ em.type = 2
           /\ 10 \in em.zeros /\ \A i \in 2..9 : i \notin em.zeros
    <2>1. ASSUME WellFormed(em)
          PROVE  /\ em.first = 0 /\ em.type = 2
                 /\ 10 \in em.zeros /\ \A i \in 2..9 : i \notin em.zeros
      <3>1. PICK pad \in 8..Size - 3 :
               /\ pad + 2 \in em.zeros
               /\ \A i \in 2..pad + 1 : i \notin em.zeros
               /\ Size - (pad + 3) = PremasterLength
        BY <2>1 DEF WellFormed
      <3>2. pad = 8
        BY <1>1, <3>1
      <3>3. pad + 2 = 10 /\ pad + 1 = 9
        BY <3>2
      <3> QED BY <2>1, <3>1, <3>3 DEF WellFormed
    <2>2. ASSUME /\ em.first = 0 /\ em.type = 2
                 /\ 10 \in em.zeros /\ \A i \in 2..9 : i \notin em.zeros
          PROVE  WellFormed(em)
      <3>1. 8 \in 8..Size - 3 /\ 8 + 2 = 10 /\ 8 + 1 = 9
            /\ Size - (8 + 3) = PremasterLength
        BY <1>1
      <3> QED BY <2>2, <3>1 DEF WellFormed
    <2> QED BY <2>1, <2>2
  <1>5. /\ separators = {i \in em.zeros : 10 <= i /\ i <= 12}
        /\ Zeroed(em, 2, 9) = {i \in em.zeros : 2 <= i /\ i <= 9}
    BY <1>1 DEF Zeroed
  <1>6. Zeroed(em, 2, 9) = {} <=> \A i \in 2..9 : i \notin em.zeros
    BY <1>2, <1>5
  <1>7. separators # {} =>
           /\ Min(separators) \in separators
           /\ \A k \in separators : Min(separators) <= k
    <2> SUFFICES ASSUME separators # {}
                 PROVE  /\ Min(separators) \in separators
                        /\ \A k \in separators : Min(separators) <= k
      OBVIOUS
    <2>1. separators \in SUBSET Nat
      BY <1>2, <1>5
    <2> HIDE DEF separators
    <2>2. \E x \in separators : \A k \in separators : x <= k
      BY <2>1, Least
    <2> QED BY <2>2 DEF Min
  <1>8. separators # {} => (Min(separators) = 10 <=> 10 \in em.zeros)
    <2> DEFINE x == Min(separators)
    <2>1. SUFFICES ASSUME separators # {}
                   PROVE  x = 10 <=> 10 \in em.zeros
      OBVIOUS
    <2>2. x \in em.zeros /\ 10 <= x /\ x <= 12 /\ x \in Int
      BY <1>2, <1>5, <1>7, <2>1
    <2>3. 10 \in em.zeros => x <= 10
      BY <1>5, <1>7, <2>1
    <2> HIDE DEF x
    <2> QED BY <2>2, <2>3
  <1>9. 10 \in em.zeros => separators # {}
    BY <1>5
  <1>10. separators # {} => Min(separators) \in Int
    BY <1>2, <1>5, <1>7
  <1> DEFINE x == Min(separators)
  <1> HIDE DEF x
  <1>11. start # 0 /\ 13 - start = 2 <=> ~error /\ x = 10
    <2>1. CASE error
      BY <1>3, <2>1
    <2>2. CASE ~error
      <3>1. x \in Int /\ start = x + 1
        BY <1>3, <1>10, <2>2 DEF x
      <3> HIDE DEF start, error
      <3> QED BY <2>2, <3>1
    <2> QED BY <2>1, <2>2
  <1> HIDE DEF start
  <1>12. start # 0 /\ 13 - start = 2 <=> WellFormed(em)
    BY <1>4, <1>6, <1>8, <1>9, <1>11 DEF x
  <1> QED BY <1>1, <1>12 DEF start, em

LEMMA PremasterIs ==
    ASSUME NEW s, NEW k \in 0..KeyN - 1
    PROVE  /\ Premaster(s, k) \in {Secret(k), Secret(FreshRandom)}
           /\ Premaster(s, k) = Secret(k) =>
                 /\ WellFormed(Encoded[k])
                 /\ Encoded[k].version \in {s.clientVersion, s.serverVersion}
           /\ k \in Premasters(s) => Premaster(s, k) = Secret(k)
  <1>1. k # FreshRandom
    BY Key DEF FreshRandom
  <1>2. Secret(k) # Secret(FreshRandom)
    BY <1>1, Results
  <1> DEFINE start == MessageStart(Encoded[k])
             good == /\ start # 0 /\ Size - start = PremasterLength
                     /\ Encoded[k].version \in {s.clientVersion,
                                                s.serverVersion}
  <1>3. Premaster(s, k) = IF good THEN Secret(k) ELSE Secret(FreshRandom)
    BY DEF Premaster
  <1>4. start # 0 /\ Size - start = PremasterLength <=> WellFormed(Encoded[k])
    BY StartIsWellFormed
  <1>5. k \in Premasters(s) => good
    BY <1>4 DEF Premasters
  <1> HIDE DEF start
  <1> QED BY <1>2, <1>3, <1>4, <1>5
-----------------------------------------------------------------------------
(***************************************************************************)
(* The handshakes.  What is known of one, x, that is about s:              *)
(***************************************************************************)
Fields == {"phase", "private", "share", "got", "faithful", "first", "second",
           "pair"}

Shaped(x) == Fields \subseteq DOMAIN x /\ 1 \in DOMAIN x.private

InOrder(s, x) ==
    /\ x.phase \in {"begin", "offered", "answered", "blinded", "over"}
    /\ x.phase = "begin" =>
          x.first = Unknown /\ x.second = Unknown /\ x.faithful
    /\ x.phase # "begin" => s.kind # "idle"
    /\ x.phase = "offered" => s.kind # "rsa" /\ x.first = Unknown
    /\ x.phase = "blinded" => s.kind = "rsa"

\* A share that nobody touched is the one that its end made for the private
\* number it has kept.
Offer(s, a, x) ==
    LET public == PublicOfFirst(s, a)
    IN  /\ x.private[1] = a
        /\ "refused" \notin DOMAIN public
        /\ x.share = public.share

ReplyTo(s, a, b, x) ==
    LET public == PublicOfFirst(s, a)
        answer == AnswerOf(s, b, public.share)
    IN  /\ x.private[1] = a
        /\ "refused" \notin DOMAIN public
        /\ IsSecret(answer.result)
        /\ x.second = answer.result
        /\ x.share = answer.share

Shares(s, x) ==
    s.kind # "rsa" /\ x.faithful =>
        /\ x.phase = "offered" => \E a \in Randoms : Offer(s, a, x)
        /\ x.phase = "answered" => \E a, b \in Randoms : ReplyTo(s, a, b, x)
        /\ x.phase = "over" => Outcome(s, x.first, x.second)

Encrypted(s, m, x) ==
    /\ x.second = Secret(m)
    /\ x.share \in Int
    /\ x.faithful => x.share = powMod(m, KeyE, KeyN)

Decrypted(s, m, k, x) ==
    /\ x.first = Premaster(s, k)
    /\ x.second = Secret(m)
    /\ x.faithful => k = m

RSAParts(s, x) ==
    s.kind = "rsa" =>
        /\ x.phase \in {"answered", "blinded"} =>
              \E m \in Premasters(s) : Encrypted(s, m, x)
        /\ x.phase = "blinded" => GoodPair(x.pair)
        /\ x.phase = "over" =>
              \E m \in Premasters(s), k \in 0..KeyN - 1 :
                  Decrypted(s, m, k, x)

Sound(s, x) ==
    Proper(s) /\ Shaped(x) /\ InOrder(s, x) /\ Shares(s, x) /\ RSAParts(s, x)

ExchangeInv ==
    /\ setup \in Setups
    /\ DOMAIN hs = Handshakes
    /\ \A h \in Handshakes : Sound(setup[h], hs[h])
    /\ blinding.blinder = 0 \/ GoodPair(blinding)

-----------------------------------------------------------------------------
(***************************************************************************)
(* What is known says what the two properties say.                         *)
(***************************************************************************)
LEMMA SoundIsOutcome ==
    ASSUME NEW s, NEW x, Sound(s, x), x.phase = "over", x.faithful
    PROVE  Outcome(s, x.first, x.second)
  <1>1. CASE s.kind # "rsa"
    BY <1>1 DEF Sound, Shares
  <1>2. CASE s.kind = "rsa"
    <2>1. PICK m \in Premasters(s), k \in 0..KeyN - 1 : Decrypted(s, m, k, x)
      BY <1>2 DEF Sound, RSAParts
    <2>2. x.first = Secret(m) /\ x.second = Secret(m)
      BY <2>1, PremasterIs DEF Decrypted
    <2>3. ~Mismatched(s)
      BY <1>2 DEF Mismatched
    <2> QED BY <2>2, <2>3, Results DEF Outcome
  <1> QED BY <1>1, <1>2

LEMMA SoundIsSame == ExchangeInv => SameSecret
  <1> SUFFICES ASSUME ExchangeInv, NEW h \in Handshakes,
                      hs[h].phase = "over" /\ hs[h].faithful
               PROVE  Outcome(setup[h], hs[h].first, hs[h].second)
    BY DEF SameSecret, Outcome, Unlucky
  <1>1. Sound(setup[h], hs[h])
    BY DEF ExchangeInv
  <1> QED BY <1>1, SoundIsOutcome

LEMMA SoundIsWellFormed == ExchangeInv => OnlyWellFormed
  <1> SUFFICES ASSUME ExchangeInv, NEW h \in Handshakes,
                      setup[h].kind = "rsa" /\ hs[h].phase = "over"
               PROVE  /\ IsSecret(hs[h].first)
                      /\ LET m == hs[h].first.secret
                         IN  \/ m = FreshRandom /\ ~hs[h].faithful
                             \/ WellFormed(Encoded[m])
                                /\ Encoded[m].version \in
                                      {setup[h].clientVersion,
                                       setup[h].serverVersion}
    BY DEF OnlyWellFormed
  <1> DEFINE s == setup[h]
             x == hs[h]
  <1>1. Sound(s, x)
    BY DEF ExchangeInv
  <1>2. PICK m \in Premasters(s), k \in 0..KeyN - 1 : Decrypted(s, m, k, x)
    BY <1>1 DEF Sound, RSAParts
  <1>3. x.first = Premaster(s, k) /\ (x.faithful => k = m)
    BY <1>2 DEF Decrypted
  <1>4. \A n : Secret(n).secret = n
    BY DEF Secret
  <1>5. x.faithful => x.first = Secret(k)
    BY <1>3, PremasterIs
  <1>6. CASE x.first = Secret(k)
    <2>1. x.first.secret = k
      BY <1>4, <1>6
    <2>2. WellFormed(Encoded[k])
          /\ Encoded[k].version \in {s.clientVersion, s.serverVersion}
      BY <1>3, <1>6, PremasterIs
    <2> HIDE DEF x
    <2>3. IsSecret(x.first)
      BY <1>6, Results
    <2> QED BY <2>1, <2>2, <2>3 DEF x
  <1>7. CASE x.first # Secret(k)
    <2>1. x.first = Secret(FreshRandom) /\ ~x.faithful
      BY <1>3, <1>5, <1>7, PremasterIs
    <2>2. x.first.secret = FreshRandom
      BY <1>4, <2>1
    <2> QED BY <2>1, <2>2, Results
  <1> QED BY <1>6, <1>7

-----------------------------------------------------------------------------
(***************************************************************************)
(* Each action keeps it.                                                   *)
(***************************************************************************)
LEMMA ExchangeInit == Init => ExchangeInv
  <1> SUFFICES ASSUME Init PROVE ExchangeInv
    OBVIOUS
  <1>1. setup \in Setups /\ DOMAIN hs = Handshakes /\ blinding.blinder = 0
    BY DEF Init, NoPair
  <1>2. ASSUME NEW h \in Handshakes
        PROVE  Sound(setup[h], hs[h])
    <2>1. Proper(setup[h])
      BY <1>1, <1>2, SetupsAssumption
    <2>2. hs[h] = Beginning
      BY <1>2 DEF Init
    <2>3. /\ Shaped(Beginning) /\ Beginning.phase = "begin"
          /\ Beginning.first = Unknown /\ Beginning.second = Unknown
          /\ Beginning.faithful
      BY DEF Beginning, Shaped, Fields
    <2> QED BY <2>1, <2>2, <2>3 DEF Sound, InOrder, Shares, RSAParts
  <1> QED BY <1>1, <1>2 DEF ExchangeInv

\* A step of handshake h that leaves the other ones as they are.
LEMMA OneStep ==
    ASSUME ExchangeInv, NEW h \in Handshakes, setup' = setup,
           DOMAIN hs' = Handshakes,
           \A i \in Handshakes \ {h} : hs'[i] = hs[i],
           Sound(setup[h], hs'[h]),
           blinding' = blinding \/ GoodPair(blinding')
    PROVE  ExchangeInv'
  <1>1. ASSUME NEW i \in Handshakes
        PROVE  Sound(setup[i], hs'[i])
    <2>1. CASE i = h
      BY <2>1
    <2>2. CASE i # h
      BY <1>1, <2>2 DEF ExchangeInv
    <2> QED BY <2>1, <2>2
  <1> QED BY <1>1 DEF ExchangeInv

\* Shapes of a record of hs that a step has changed.
LEMMA StillShaped ==
    ASSUME NEW x, NEW y, Shaped(x), DOMAIN y = DOMAIN x,
           \/ y.private = x.private
           \/ \E i, r : y.private = [x.private EXCEPT ![i] = r]
    PROVE  Shaped(y)
  BY DEF Shaped

LEMMA FirstShareKeeps ==
    ASSUME ExchangeInv, NEW h \in Handshakes, MakeFirstShare(h)
    PROVE  ExchangeInv'
  <1> DEFINE s == setup[h]
             x == hs[h]
             y == hs'[h]
  <1>1. PICK a \in Randoms :
            hs' = [hs EXCEPT ![h] =
                IF "refused" \in DOMAIN PublicOfFirst(s, a)
                THEN [@ EXCEPT !.first = PublicOfFirst(s, a), !.phase = "over"]
                ELSE [@ EXCEPT !.private[1] = a, !.phase = "offered",
                               !.share = PublicOfFirst(s, a).share]]
    BY DEF MakeFirstShare
  <1>2. /\ Sound(s, x) /\ DOMAIN hs = Handshakes
        /\ x.phase = "begin" /\ s.kind \notin {"idle", "rsa"}
        /\ setup' = setup /\ blinding' = blinding
    BY DEF ExchangeInv, MakeFirstShare
  <1> DEFINE public == PublicOfFirst(s, a)
  <1>3. /\ DOMAIN hs' = Handshakes
        /\ \A i \in Handshakes \ {h} : hs'[i] = hs[i]
    BY <1>1, <1>2
  <1>4. Shaped(x) /\ x.first = Unknown /\ x.second = Unknown /\ x.faithful
    BY <1>2 DEF Sound, InOrder
  <1>5. Works(s, a, a)
    BY <1>2, ExchangeWorks DEF Sound
  <1>6. CASE "refused" \in DOMAIN public
    <2> HIDE DEF public
    <2>1. y = [x EXCEPT !.first = public, !.phase = "over"]
      BY <1>1, <1>2, <1>6 DEF public
    <2> HIDE DEF x, y
    <2>2. /\ DOMAIN y = DOMAIN x /\ y.private = x.private
          /\ y.first = public /\ y.phase = "over"
          /\ y.second = Unknown /\ y.faithful
      BY <1>4, <2>1 DEF Shaped, Fields
    <2>3. Outcome(s, public, Unknown)
      BY <1>5, <1>6 DEF Works, public
    <2>4. Shaped(y)
      BY <1>4, <2>2, StillShaped
    <2>5. Sound(s, y)
      BY <1>2, <2>2, <2>3, <2>4 DEF Sound, InOrder, Shares, RSAParts
    <2> QED BY <1>2, <1>3, <2>5, OneStep DEF y
  <1>7. CASE "refused" \notin DOMAIN public
    <2> HIDE DEF public
    <2>1. y = [x EXCEPT !.private[1] = a, !.phase = "offered",
                        !.share = public.share]
      BY <1>1, <1>2, <1>7 DEF public
    <2> DEFINE share == public.share
    <2> HIDE DEF x, y, share
    <2>2. y = [x EXCEPT !.private[1] = a, !.phase = "offered",
                        !.share = share]
      BY <2>1 DEF share
    <2>3. /\ DOMAIN y = DOMAIN x
          /\ y.private = [x.private EXCEPT ![1] = a]
          /\ y.first = Unknown /\ y.phase = "offered"
          /\ y.second = Unknown /\ y.faithful /\ y.share = share
      BY <1>4, <2>2 DEF Shaped, Fields
    <2>4. Shaped(y) /\ y.private[1] = a
      BY <1>4, <2>3, StillShaped DEF Shaped
    <2>5. Offer(s, a, y)
      BY <1>7, <2>3, <2>4 DEF Offer, public, share
    <2>6. Sound(s, y)
      BY <1>2, <2>3, <2>4, <2>5 DEF Sound, InOrder, Shares, RSAParts
    <2> QED BY <1>2, <1>3, <2>6, OneStep DEF y
  <1> QED BY <1>6, <1>7

LEMMA AnswerKeeps ==
    ASSUME ExchangeInv, NEW h \in Handshakes, Answer(h)
    PROVE  ExchangeInv'
  <1> DEFINE s == setup[h]
             x == hs[h]
             y == hs'[h]
  <1>1. PICK b \in Randoms :
            LET answer == AnswerOf(s, b, x.share)
            IN  hs' = [hs EXCEPT ![h] =
                    IF IsSecret(answer.result)
                    THEN [@ EXCEPT !.private[2] = b, !.phase = "answered",
                                   !.second = answer.result, !.got = x.share,
                                   !.share = answer.share]
                    ELSE [@ EXCEPT !.second = answer.result,
                                   !.phase = "over"]]
    BY DEF Answer
  <1>2. /\ Sound(s, x) /\ DOMAIN hs = Handshakes
        /\ x.phase = "offered" /\ s.kind # "rsa"
        /\ setup' = setup /\ blinding' = blinding
    BY DEF ExchangeInv, Answer
  <1> DEFINE answer == AnswerOf(s, b, x.share)
             result == answer.result
             share == answer.share
             got == x.share
  <1>3. /\ DOMAIN hs' = Handshakes
        /\ \A i \in Handshakes \ {h} : hs'[i] = hs[i]
    BY <1>1, <1>2
  <1>4. /\ Shaped(x) /\ x.first = Unknown /\ Proper(s)
        /\ s.kind \notin {"rsa", "idle"}
        /\ x.faithful => \E a \in Randoms : Offer(s, a, x)
    BY <1>2 DEF Sound, InOrder, Shares
  <1>5. CASE IsSecret(result)
    <2>1. y = [x EXCEPT !.private[2] = b, !.phase = "answered",
                        !.second = result, !.got = got, !.share = share]
      BY <1>1, <1>2, <1>5
    <2> HIDE DEF x, y, got, share, result
    <2>2. /\ DOMAIN y = DOMAIN x
          /\ y.private = [x.private EXCEPT ![2] = b]
          /\ y.first = Unknown /\ y.phase = "answered"
          /\ y.second = result /\ y.faithful = x.faithful /\ y.share = share
      BY <1>4, <2>1 DEF Shaped, Fields
    <2>3. Shaped(y) /\ y.private[1] = x.private[1]
      BY <1>4, <2>2, StillShaped DEF Shaped
    <2>4. ASSUME NEW a \in Randoms, Offer(s, a, x)
          PROVE  ReplyTo(s, a, b, y)
      BY <1>5, <2>2, <2>3, <2>4 DEF Offer, ReplyTo, result, share, answer
    <2>5. y.faithful => \E a \in Randoms : ReplyTo(s, a, b, y)
      BY <1>4, <2>2, <2>4
    <2>6. Sound(s, y)
      BY <1>2, <1>4, <2>2, <2>3, <2>5 DEF Sound, InOrder, Shares, RSAParts
    <2> QED BY <1>2, <1>3, <2>6, OneStep DEF y
  <1>6. CASE ~IsSecret(result)
    <2>1. y = [x EXCEPT !.second = result, !.phase = "over"]
      BY <1>1, <1>2, <1>6
    <2> HIDE DEF x, y, result
    <2>2. /\ DOMAIN y = DOMAIN x /\ y.private = x.private
          /\ y.first = Unknown /\ y.phase = "over"
          /\ y.second = result /\ y.faithful = x.faithful
      BY <1>4, <2>1 DEF Shaped, Fields
    <2>3. Shaped(y)
      BY <1>4, <2>2, StillShaped
    <2>4. ASSUME NEW a \in Randoms, Offer(s, a, x)
          PROVE  Outcome(s, Unknown, result)
      <3>1. Works(s, a, b)
        BY <1>4, ExchangeWorks
      <3> QED BY <1>6, <2>4, <3>1 DEF Works, Offer, result, answer
    <2>5. y.faithful => Outcome(s, y.first, y.second)
      BY <1>4, <2>2, <2>4
    <2>6. Sound(s, y)
      BY <1>2, <1>4, <2>2, <2>3, <2>5 DEF Sound, InOrder, Shares, RSAParts
    <2> QED BY <1>2, <1>3, <2>6, OneStep DEF y
  <1> QED BY <1>5, <1>6

LEMMA ConcludeKeeps ==
    ASSUME ExchangeInv, NEW h \in Handshakes, Conclude(h)
    PROVE  ExchangeInv'
  <1> DEFINE s == setup[h]
             x == hs[h]
             y == hs'[h]
             secret == SecretOfFirst(s, x.private[1], x.share)
  <1>1. hs' = [hs EXCEPT ![h].first = secret, ![h].phase = "over"]
    BY DEF Conclude
  <1>2. /\ Sound(s, x) /\ DOMAIN hs = Handshakes
        /\ x.phase = "answered" /\ s.kind # "rsa"
        /\ setup' = setup /\ blinding' = blinding
    BY DEF ExchangeInv, Conclude
  <1> HIDE DEF secret
  <1>3. /\ DOMAIN hs' = Handshakes
        /\ \A i \in Handshakes \ {h} : hs'[i] = hs[i]
        /\ y = [x EXCEPT !.first = secret, !.phase = "over"]
    BY <1>1, <1>2
  <1>4. /\ Shaped(x) /\ Proper(s) /\ s.kind \notin {"rsa", "idle"}
        /\ x.faithful => \E a, b \in Randoms : ReplyTo(s, a, b, x)
    BY <1>2 DEF Sound, InOrder, Shares
  <1> HIDE DEF x, y
  <1>5. /\ DOMAIN y = DOMAIN x /\ y.private = x.private
        /\ y.first = secret /\ y.phase = "over"
        /\ y.second = x.second /\ y.faithful = x.faithful
    BY <1>3, <1>4 DEF Shaped, Fields
  <1>6. Shaped(y)
    BY <1>4, <1>5, StillShaped
  <1>7. ASSUME NEW a \in Randoms, NEW b \in Randoms, ReplyTo(s, a, b, x)
        PROVE  Outcome(s, secret, x.second)
    <2>1. Works(s, a, b)
      BY <1>4, ExchangeWorks
    <2> QED BY <1>7, <2>1 DEF Works, ReplyTo, secret
  <1>8. y.faithful => Outcome(s, y.first, y.second)
    BY <1>4, <1>5, <1>7
  <1>9. Sound(s, y)
    BY <1>2, <1>4, <1>5, <1>6, <1>8 DEF Sound, InOrder, Shares, RSAParts
  <1> QED BY <1>2, <1>3, <1>9, OneStep DEF y

LEMMA EncryptKeeps ==
    ASSUME ExchangeInv, NEW h \in Handshakes, Encrypt(h)
    PROVE  ExchangeInv'
  <1> DEFINE s == setup[h]
             x == hs[h]
             y == hs'[h]
  <1>1. PICK m \in Premasters(s) :
            hs' = [hs EXCEPT ![h].second = Secret(m),
                             ![h].phase = "answered",
                             ![h].share = RSAShare(m).share]
    BY DEF Encrypt
  <1>2. /\ Sound(s, x) /\ DOMAIN hs = Handshakes
        /\ x.phase = "begin" /\ s.kind = "rsa"
        /\ setup' = setup /\ blinding' = blinding
    BY DEF ExchangeInv, Encrypt
  <1> DEFINE secret == Secret(m)
             share == RSAShare(m).share
  <1> HIDE DEF secret, share
  <1>3. hs' = [hs EXCEPT ![h].second = secret, ![h].phase = "answered",
                         ![h].share = share]
    BY <1>1 DEF secret, share
  <1>4. /\ DOMAIN hs' = Handshakes
        /\ \A i \in Handshakes \ {h} : hs'[i] = hs[i]
        /\ y = [x EXCEPT !.second = secret, !.phase = "answered",
                         !.share = share]
    BY <1>2, <1>3
  <1>5. Shaped(x) /\ Proper(s) /\ x.faithful
    BY <1>2 DEF Sound, InOrder
  <1> HIDE DEF x, y
  <1>6. /\ DOMAIN y = DOMAIN x /\ y.private = x.private
        /\ y.phase = "answered" /\ y.share = share /\ y.second = secret
    BY <1>4, <1>5 DEF Shaped, Fields
  <1>7. Shaped(y)
    BY <1>5, <1>6, StillShaped
  <1>8. share = powMod(m, KeyE, KeyN) /\ share \in Int
    <2>1. share = powMod(m, KeyE, KeyN)
      BY DEF share, RSAShare
    <2>2. m \in 0..KeyN - 1
      BY DEF Premasters
    <2>3. m \in Int
      BY <2>2, Below
    <2>4. powMod(m, KeyE, KeyN) \in Int
      BY <2>3, Key, PowRange
    <2> QED BY <2>1, <2>4
  <1>9. Encrypted(s, m, y)
    BY <1>6, <1>8 DEF Encrypted, secret
  <1>10. Sound(s, y)
    BY <1>2, <1>5, <1>6, <1>7, <1>9 DEF Sound, InOrder, Shares, RSAParts
  <1> QED BY <1>2, <1>4, <1>10, OneStep DEF y

LEMMA BlindingKeeps ==
    ASSUME ExchangeInv, NEW h \in Handshakes, TakeBlinding(h)
    PROVE  ExchangeInv'
  <1> DEFINE s == setup[h]
             x == hs[h]
             y == hs'[h]
  <1>1. PICK pair \in IF blinding.blinder = 0
                      THEN {FirstPair(u) : u \in Units} ELSE {blinding} :
            /\ hs' = [hs EXCEPT ![h].pair = pair, ![h].phase = "blinded"]
            /\ blinding' = NextPair(pair)
    BY DEF TakeBlinding
  <1>2. /\ Sound(s, x) /\ DOMAIN hs = Handshakes
        /\ x.phase = "answered" /\ s.kind = "rsa"
        /\ setup' = setup
    BY DEF ExchangeInv, TakeBlinding
  <1>3. GoodPair(pair)
    <2>1. CASE blinding.blinder = 0
      BY <1>1, <2>1, FirstPairIsGood
    <2>2. CASE blinding.blinder # 0
      BY <1>1, <2>2 DEF ExchangeInv
    <2> QED BY <2>1, <2>2
  <1>4. GoodPair(blinding')
    BY <1>1, <1>3, NextPairIsGood
  <1>5. /\ DOMAIN hs' = Handshakes
        /\ \A i \in Handshakes \ {h} : hs'[i] = hs[i]
        /\ y = [x EXCEPT !.pair = pair, !.phase = "blinded"]
    BY <1>1, <1>2
  <1>6. /\ Shaped(x) /\ Proper(s)
        /\ \E m \in Premasters(s) : Encrypted(s, m, x)
    BY <1>2 DEF Sound, RSAParts
  <1> HIDE DEF x, y
  <1>7. /\ DOMAIN y = DOMAIN x /\ y.private = x.private
        /\ y.phase = "blinded" /\ y.pair = pair
        /\ y.share = x.share /\ y.second = x.second
        /\ y.faithful = x.faithful
    BY <1>5, <1>6 DEF Shaped, Fields
  <1>8. Shaped(y)
    BY <1>6, <1>7, StillShaped
  <1>9. \E m \in Premasters(s) : Encrypted(s, m, y)
    BY <1>6, <1>7 DEF Encrypted
  <1>10. Sound(s, y)
    BY <1>2, <1>3, <1>6, <1>7, <1>8, <1>9
       DEF Sound, InOrder, Shares, RSAParts
  <1> QED BY <1>2, <1>4, <1>5, <1>10, OneStep DEF y

LEMMA DecryptKeeps ==
    ASSUME ExchangeInv, NEW h \in Handshakes, DecryptPremaster(h)
    PROVE  ExchangeInv'
  <1> DEFINE s == setup[h]
             x == hs[h]
             y == hs'[h]
             k == Unblinded(h)
             first == Premaster(s, k)
  <1>1. hs' = [hs EXCEPT ![h].phase = "over", ![h].first = first]
    BY DEF DecryptPremaster
  <1>2. /\ Sound(s, x) /\ DOMAIN hs = Handshakes
        /\ x.phase = "blinded"
        /\ setup' = setup /\ blinding' = blinding
    BY DEF ExchangeInv, DecryptPremaster
  <1>3. k = Recovered(x.share, x.pair)
    BY DEF Unblinded, Recovered
  <1> HIDE DEF first, k
  <1>4. /\ DOMAIN hs' = Handshakes
        /\ \A i \in Handshakes \ {h} : hs'[i] = hs[i]
        /\ y = [x EXCEPT !.phase = "over", !.first = first]
    BY <1>1, <1>2
  <1>5. Shaped(x) /\ Proper(s) /\ s.kind = "rsa" /\ GoodPair(x.pair)
    BY <1>2 DEF Sound, InOrder, RSAParts
  <1>6. PICK m \in Premasters(s) : Encrypted(s, m, x)
    BY <1>2, <1>5 DEF Sound, RSAParts
  <1> HIDE DEF x, y
  <1>7. /\ DOMAIN y = DOMAIN x /\ y.private = x.private
        /\ y.phase = "over" /\ y.first = first
        /\ y.second = x.second /\ y.faithful = x.faithful
    BY <1>4, <1>5 DEF Shaped, Fields
  <1>8. Shaped(y)
    BY <1>5, <1>7, StillShaped
  <1>9. k \in 0..KeyN - 1
    BY <1>3, <1>5, <1>6, RecoveredRange DEF Encrypted
  <1>10. x.faithful => k = m
    <2>1. m \in 0..KeyN - 1
      BY DEF Premasters
    <2> QED BY <1>3, <1>5, <1>6, <2>1, RecoversMessage DEF Encrypted
  <1>11. Decrypted(s, m, k, y)
    BY <1>6, <1>7, <1>10 DEF Encrypted, Decrypted, first
  <1>12. Sound(s, y)
    BY <1>5, <1>7, <1>8, <1>9, <1>11 DEF Sound, InOrder, Shares, RSAParts
  <1> QED BY <1>2, <1>4, <1>12, OneStep DEF y

LEMMA ReplaceKeeps ==
    ASSUME ExchangeInv, NEW h \in Handshakes, Replace(h)
    PROVE  ExchangeInv'
  <1> DEFINE s == setup[h]
             x == hs[h]
             y == hs'[h]
  <1>1. PICK share \in Replacements(s, x.share) \ {x.share} :
            hs' = [hs EXCEPT ![h].share = share, ![h].faithful = FALSE]
    BY DEF Replace
  <1>2. /\ Sound(s, x) /\ DOMAIN hs = Handshakes
        /\ x.phase \in {"offered", "answered"}
        /\ setup' = setup /\ blinding' = blinding
    BY DEF ExchangeInv, Replace
  <1>3. s.kind = "rsa" => share \in 0..KeyN - 1
    BY <1>1 DEF Replacements
  <1>4. s.kind = "rsa" => share \in Int
    BY <1>3, Below
  <1>5. /\ DOMAIN hs' = Handshakes
        /\ \A i \in Handshakes \ {h} : hs'[i] = hs[i]
        /\ y = [x EXCEPT !.share = share, !.faithful = FALSE]
    BY <1>1, <1>2
  <1>6. /\ Shaped(x) /\ Proper(s)
        /\ s.kind = "rsa" =>
              x.phase = "answered" /\ \E m \in Premasters(s) : Encrypted(s, m, x)
    BY <1>2 DEF Sound, InOrder, RSAParts
  <1> HIDE DEF x, y
  <1>7. /\ DOMAIN y = DOMAIN x /\ y.private = x.private
        /\ y.phase = x.phase /\ y.share = share /\ y.faithful = FALSE
        /\ y.first = x.first /\ y.second = x.second
    BY <1>5, <1>6 DEF Shaped, Fields
  <1>8. Shaped(y)
    BY <1>6, <1>7, StillShaped
  <1>9. s.kind = "rsa" => \E m \in Premasters(s) : Encrypted(s, m, y)
    BY <1>4, <1>6, <1>7 DEF Encrypted
  <1>10. Sound(s, y)
    BY <1>2, <1>6, <1>7, <1>8, <1>9 DEF Sound, InOrder, Shares, RSAParts
  <1> QED BY <1>2, <1>5, <1>10, OneStep DEF y

-----------------------------------------------------------------------------
LEMMA ExchangeNext == ExchangeInv /\ [Next]_vars => ExchangeInv'
  <1> SUFFICES ASSUME ExchangeInv, [Next]_vars
               PROVE  ExchangeInv'
    OBVIOUS
  <1>1. ASSUME NEW h \in Handshakes, MakeFirstShare(h) PROVE ExchangeInv'
    BY <1>1, FirstShareKeeps
  <1>2. ASSUME NEW h \in Handshakes, Answer(h) PROVE ExchangeInv'
    BY <1>2, AnswerKeeps
  <1>3. ASSUME NEW h \in Handshakes, Conclude(h) PROVE ExchangeInv'
    BY <1>3, ConcludeKeeps
  <1>4. ASSUME NEW h \in Handshakes, Encrypt(h) PROVE ExchangeInv'
    BY <1>4, EncryptKeeps
  <1>5. ASSUME NEW h \in Handshakes, TakeBlinding(h) PROVE ExchangeInv'
    BY <1>5, BlindingKeeps
  <1>6. ASSUME NEW h \in Handshakes, DecryptPremaster(h) PROVE ExchangeInv'
    BY <1>6, DecryptKeeps
  <1>7. ASSUME NEW h \in Handshakes, Replace(h) PROVE ExchangeInv'
    BY <1>7, ReplaceKeeps
  <1>8. CASE UNCHANGED vars
    BY <1>8 DEF vars, ExchangeInv
  <1> QED BY <1>1, <1>2, <1>3, <1>4, <1>5, <1>6, <1>7, <1>8 DEF Next

LEMMA ExchangeAlways == Spec => []ExchangeInv
  BY ExchangeInit, ExchangeNext, PTL DEF Spec

\* Two ends whose shares nobody touched come to the same secret, or to none
\* for a reason: for every group, curve and RSA key, all private numbers and
\* every order in which the handshakes use the blinding pair of the key.
THEOREM KeyExchangeSame == Spec => []SameSecret
  BY ExchangeAlways, SoundIsSame, PTL

\* The server never stops at a bad premaster secret, and goes on with one
\* only if PKCS #1 calls its bytes well formed and it has an offered version.
THEOREM KeyExchangeWellFormed == Spec => []OnlyWellFormed
  BY ExchangeAlways, SoundIsWellFormed, PTL

-----------------------------------------------------------------------------
(***************************************************************************)
(* A share that fixes the secret.  SRP is left out: what its secret is     *)
(* depends on the values of a hash, of which the model knows nothing.      *)
(***************************************************************************)
GroupKinds == {"ffdh", "ecdh", "x", "kem"}

WithoutSRP == \A x \in Setups, h \in Handshakes : x[h].kind # "srp"

\* A share of the right form, with any number or point in it.
OfForm(s, share) ==
    /\ s.kind = "ffdh" =>
          \E l, n : n \in Nat /\ share = [length |-> l, value |-> n]
    /\ s.kind \in {"ecdh", "x"} =>
          \E f, n : n \in Nat /\ share = [format |-> f, point |-> n]
    /\ s.kind = "kem" =>
          \/ share = <<>>
          \/ \E z, f, n :
                n \in Nat /\ share = Joined(s, z,
                          ClassicPart([format |-> f, point |-> n]))

\* The secret or refusal that comes of the group, for private number r.
OfGroup(s, r, share) ==
    CASE s.kind = "ffdh" -> FFDHShared(s, r, share)
      [] s.kind = "ecdh" -> ECDHShared(s, r, share)
      [] s.kind = "x"    -> XShared(s, r, share)
      [] s.kind = "kem"  -> XShared(Classic(s), r, ClassicOf(s, share).value)

\* A power, or a multiple, and the next one.
LEMMA NextPower ==
    ASSUME NEW p, Prime(p), NEW y \in Nat, 2 <= y, y < p - 1, NEW a \in Nat
    PROVE  powMod(y, a + 1, p) # powMod(y, a, p)
  <1> DEFINE S == powMod(y, a, p)
  <1>1. p \in Nat \ {0} /\ y \in Int /\ y % p # 0
    BY DEF Prime
  <1>2. S \in Int /\ S % p = S /\ S # 0
    BY <1>1, PowRange, PowNotZero
  <1>3. powMod(y, a + 1, p) = (S * y) % p
    BY PowMod
  <1> HIDE DEF S
  <1> SUFFICES ASSUME (S * y) % p = S
               PROVE  FALSE
    BY <1>3 DEF S
  <1>4. S * y \in Int /\ S * y - S = S * (y - 1)
    BY <1>1, <1>2
  <1> DEFINE z == S * y
  <1> HIDE DEF z
  <1>5. (z - S) % p = 0
    BY <1>1, <1>2, <1>4, ModDifference DEF z
  <1>6. (S * (y - 1)) % p = 0 /\ y - 1 \in Int
    BY <1>4, <1>5 DEF z
  <1>7. (y - 1) % p = y - 1 /\ y - 1 # 0
    BY <1>1
  <1> QED BY <1>2, <1>6, <1>7, NoZeroDivisor

LEMMA NextMultiple ==
    ASSUME NEW o \in Nat \ {0}, NEW y \in Int, NEW a \in Nat
    PROVE  (y * (a + 1)) % o = (y * a) % o => y % o = 0
  <1> DEFINE u == y * (a + 1)
             v == y * a
  <1>1. u \in Int /\ v \in Int /\ u - v = y
    OBVIOUS
  <1> HIDE DEF u, v
  <1>2. u % o = v % o => (u - v) % o = 0
    BY <1>1, ModDifference
  <1> QED BY <1>1, <1>2 DEF u, v

\* Two private numbers that are neighbours give two secrets.
LEMMA FFDHVaries ==
    ASSUME NEW s, s.kind = "ffdh", Proper(s), NEW share, OfForm(s, share),
           NEW a \in Nat,
           IsSecret(FFDHShared(s, a, share)),
           IsSecret(FFDHShared(s, a + 1, share))
    PROVE  FFDHShared(s, a, share) # FFDHShared(s, a + 1, share)
  <1> DEFINE p == s.prime
             S(r) == powMod(share.value, r, p)
  <1>1. Prime(p)
    BY DEF Proper
  <1>2. share.value \in Nat
    BY DEF OfForm
  <1>3. \A r : IsSecret(FFDHShared(s, r, share)) =>
            /\ 2 <= share.value /\ share.value < p - 1
            /\ FFDHShared(s, r, share) = Secret(FFDHBytes(s, S(r)))
    BY Results DEF FFDHShared
  <1>4. \A n : FFDHBytes(s, n).value = n
    BY DEF FFDHBytes, Padded, Shortest
  <1>5. S(a) # S(a + 1)
    BY <1>1, <1>2, <1>3, NextPower
  <1> HIDE DEF S
  <1>6. FFDHBytes(s, S(a)) # FFDHBytes(s, S(a + 1))
    BY <1>4, <1>5
  <1> QED BY <1>3, <1>6, Results

LEMMA ECDHVaries ==
    ASSUME NEW s, s.kind = "ecdh", Proper(s), NEW share, OfForm(s, share),
           NEW a \in Nat,
           IsSecret(ECDHShared(s, a, share)),
           IsSecret(ECDHShared(s, a + 1, share))
    PROVE  ECDHShared(s, a, share) # ECDHShared(s, a + 1, share)
  <1> DEFINE o == s.order
             y == share.point
  <1>1. o \in Nat \ {0}
    BY DEF Proper
  <1>2. y \in Nat
    BY DEF OfForm
  <1>3. \A r : IsSecret(ECDHShared(s, r, share)) =>
            /\ y \in 1..o-1
            /\ ECDHShared(s, r, share) = Secret((y * r) % o)
    BY Results DEF ECDHShared
  <1> HIDE DEF o, y
  <1>4. y % o # 0
    BY <1>1, <1>2, <1>3
  <1>5. (y * (a + 1)) % o # (y * a) % o
    <2>1. y \in Int
      BY <1>2
    <2>2. (y * (a + 1)) % o = (y * a) % o => y % o = 0
      BY <1>1, <2>1, NextMultiple, Zenon
    <2> QED BY <1>4, <2>2, Zenon
  <1> QED BY <1>3, <1>5, Results

LEMMA XVaries ==
    ASSUME NEW s,
           \E q \in 1..s.order : Prime(q) /\ s.order = Cofactor * q,
           NEW share, share.point \in Nat, NEW a \in Nat,
           IsSecret(XShared(s, a, share)),
           IsSecret(XShared(s, a + 1, share))
    PROVE  XShared(s, a, share) # XShared(s, a + 1, share)
  <1> DEFINE o == s.order
             y == share.point
             z == y * Cofactor
  <1>1. o \in Nat \ {0}
    BY DEF Prime, Cofactor
  <1>2. y \in Nat /\ z \in Int
    BY DEF Cofactor
  <1>3. \A r \in Nat : (y * Clamped(s, r)) % o = (z * r) % o
    <2> TAKE r \in Nat
    <2> DEFINE c == Cofactor * r
    <2>1. c \in Int /\ y * c = z * r
      BY <1>2 DEF Cofactor
    <2>2. Clamped(s, r) = c % o
      BY DEF Clamped
    <2> HIDE DEF c, o, z, y
    <2>3. y \in Int
      BY <1>2
    <2>4. (y * (c % o)) % o = (y * c) % o
      BY <1>1, <2>1, <2>3, ModTimes, Zenon
    <2> QED BY <2>1, <2>2, <2>4
  <1>4. \A r : IsSecret(XShared(s, r, share)) =>
            /\ XShared(s, r, share) = Secret((y * Clamped(s, r)) % o)
            /\ (y * Clamped(s, r)) % o # 0
    BY Results DEF XShared, _non_zero_check
  <1> HIDE DEF o, z, y
  <1> SUFFICES ASSUME (z * (a + 1)) % o = (z * a) % o
               PROVE  (z * a) % o = 0
    <2>1. a \in Nat /\ a + 1 \in Nat
      OBVIOUS
    <2> QED BY <2>1, <1>3, <1>4, Results
  <1>5. z % o = 0
    BY <1>1, <1>2, NextMultiple, Zenon
  <1>6. z % o = 0 % o /\ 0 * a = 0 /\ 0 % o = 0 /\ 0 \in Int /\ a \in Int
    BY <1>1, <1>5
  <1>7. (z * a) % o = (0 * a) % o
    BY <1>1, <1>2, <1>6, ModFactor, Zenon
  <1> QED BY <1>6, <1>7, Zenon

LEMMA OfGroupVaries ==
    ASSUME NEW s, s.kind \in GroupKinds, Proper(s),
           NEW share, OfForm(s, share), s.kind = "kem" => Splits(s, share),
           NEW a \in Nat,
           IsSecret(OfGroup(s, a, share)), IsSecret(OfGroup(s, a + 1, share))
    PROVE  OfGroup(s, a, share) # OfGroup(s, a + 1, share)
  <1>1. CASE s.kind = "ffdh"
    BY <1>1, FFDHVaries DEF OfGroup
  <1>2. CASE s.kind = "ecdh"
    BY <1>2, ECDHVaries DEF OfGroup
  <1>3. CASE s.kind = "x"
    <2>1. share.point \in Nat
      BY <1>3 DEF OfForm
    <2> QED BY <1>3, <2>1, XVaries DEF OfGroup, Proper
  <1>4. CASE s.kind = "kem"
    <2>1. PICK z, f, n : n \in Nat /\ share = Joined(s, z,
                             ClassicPart([format |-> f, point |-> n]))
      <3>1. share # <<>>
        BY <1>4 DEF Splits
      <3>2. s.kind \notin {"ffdh", "ecdh", "x"}
        BY <1>4
      <3> QED BY <1>4, <3>1, <3>2, Zenon DEF OfForm
    <2> DEFINE part == ClassicOf(s, share).value
    <2>2. part = [format |-> f, point |-> n]
      BY <2>1, Parts DEF ClassicPart
    <2>3. part.point \in Nat
      BY <2>1, <2>2
    <2> HIDE DEF part
    <2>4. \A r : OfGroup(s, r, share) = XShared(Classic(s), r, part)
      BY <1>4 DEF OfGroup, part
    <2>5. Classic(s).order = s.order
      BY DEF Classic
    <2> QED BY <1>4, <2>3, <2>4, <2>5, XVaries DEF Proper
  <1> QED BY <1>1, <1>2, <1>3, <1>4 DEF GroupKinds

\* The secret of an end, without the part of the key encapsulation, is that
\* of the group.
LEMMA HybridIsOfGroup ==
    ASSUME NEW s, s.kind = "kem", NEW z, NEW r,
           IsSecret(Hybrid(s, z, r))
    PROVE  IsSecret(r) /\ ClassicSecret(s, Hybrid(s, z, r)) = Secret(r.secret)
  <1>1. IsSecret(r) /\ Hybrid(s, z, r) = Secret(Joined(s, z, r.secret))
    BY DEF Hybrid
  <1>2. \A x : Secret(x).secret = x
    BY DEF Secret
  <1> QED BY <1>1, <1>2, Parts DEF ClassicSecret

LEMMA FirstIsOfGroup ==
    ASSUME NEW s, s.kind \in GroupKinds, NEW r, NEW share,
           IsSecret(SecretOfFirst(s, r, share))
    PROVE  /\ IsSecret(OfGroup(s, r, share))
           /\ ClassicSecret(s, SecretOfFirst(s, r, share))
                 = OfGroup(s, r, share)
           /\ s.kind = "kem" => Splits(s, share)
  <1>1. CASE s.kind # "kem"
    BY <1>1 DEF GroupKinds, SecretOfFirst, OfGroup, ClassicSecret
  <1>2. CASE s.kind = "kem"
    <2> DEFINE group == XShared(Classic(s), r, ClassicOf(s, share).value)
    <2>1. /\ SecretOfFirst(s, r, share) = KEMShared(s, r, share)
          /\ OfGroup(s, r, share) = group
      BY <1>2 DEF SecretOfFirst, OfGroup
    <2>2. /\ Splits(s, share)
          /\ KEMShared(s, r, share) =
                Hybrid(s, decaps(r, PqcOf(s, share)), group)
      BY <2>1, Results DEF KEMShared
    <2>3. IsSecret(group) => Secret(group.secret) = group
      BY Results DEF XShared, Secret
    <2> HIDE DEF group
    <2> QED BY <1>2, <2>1, <2>2, <2>3, HybridIsOfGroup
  <1> QED BY <1>1, <1>2

LEMMA AnsweredParts ==
    ASSUME NEW s, NEW public, NEW result
    PROVE  /\ "refused" \in DOMAIN public =>
                 Answered(s, public, result).result = public
           /\ "refused" \notin DOMAIN public =>
                 /\ Answered(s, public, result).result = result
                 /\ Answered(s, public, result).share = public.share
  BY DEF Answered

LEMMA AnswerIsOfGroup ==
    ASSUME NEW s, s.kind \in GroupKinds, NEW r, NEW share,
           IsSecret(AnswerOf(s, r, share).result)
    PROVE  /\ IsSecret(OfGroup(s, r, share))
           /\ ClassicSecret(s, AnswerOf(s, r, share).result)
                 = OfGroup(s, r, share)
           /\ s.kind = "kem" => Splits(s, share)
  <1> DEFINE answer == AnswerOf(s, r, share)
             group == OfGroup(s, r, share)
  <1>1. CASE s.kind # "kem"
    <2>1. \/ answer = [result |-> Refused("small prime")]
          \/ answer = Answered(s, PublicOfFirst(s, r), group)
      BY <1>1 DEF GroupKinds, AnswerOf, OfGroup, PublicOfFirst
    <2>2. \A x : [result |-> x].result = x
      OBVIOUS
    <2>3. "refused" \in DOMAIN PublicOfFirst(s, r) =>
             ~IsSecret(PublicOfFirst(s, r))
      BY <1>1, Results
         DEF GroupKinds, PublicOfFirst, FFDHPublic, ECDHPublic, XPublic
    <2> DEFINE public == PublicOfFirst(s, r)
               answered == Answered(s, public, group)
    <2>4. /\ "refused" \in DOMAIN public => answered.result = public
          /\ "refused" \notin DOMAIN public => answered.result = group
      BY AnsweredParts
    <2>5. IsSecret(answer.result)
      OBVIOUS
    <2> HIDE DEF answer, group, public, answered
    <2>6. answer.result = group
      BY <2>1, <2>2, <2>3, <2>4, <2>5, Results DEF public, answered
    <2> QED BY <1>1, <2>6 DEF ClassicSecret, answer, group
  <1>2. CASE s.kind = "kem"
    <2> DEFINE core == XShared(Classic(s), r, ClassicOf(s, share).value)
               pqc == [rejected |-> FALSE,
                       from |-> <<PqcOf(s, share).value, r>>]
    <2>1. answer = Encapsulate(s, r, share) /\ group = core
      BY <1>2 DEF AnswerOf, OfGroup
    <2>2. Splits(s, share) /\ answer.result = Hybrid(s, pqc, core)
      BY <2>1, Results DEF Encapsulate
    <2>3. IsSecret(core) => Secret(core.secret) = core
      BY Results DEF XShared, Secret
    <2> HIDE DEF answer, group, core, pqc
    <2>4. IsSecret(Hybrid(s, pqc, core))
      BY <2>2 DEF answer
    <2>5. /\ IsSecret(core)
          /\ ClassicSecret(s, answer.result) = core
      BY <1>2, <2>2, <2>3, <2>4, HybridIsOfGroup
    <2> QED BY <2>1, <2>2, <2>5 DEF answer, group
  <1> QED BY <1>1, <1>2

\* Of a share that was taken once, some two private numbers make different
\* things: a secret and a refusal, or two neighbours two secrets.
LEMMA FirstVaries ==
    ASSUME NEW s, s.kind \in GroupKinds, Proper(s),
           NEW share, OfForm(s, share),
           NEW r \in Randoms, IsSecret(SecretOfFirst(s, r, share))
    PROVE  \E r1, r2 \in Randoms :
              ClassicSecret(s, SecretOfFirst(s, r1, share))
                 # ClassicSecret(s, SecretOfFirst(s, r2, share))
  <1> DEFINE First(q) == SecretOfFirst(s, q, share)
  <1>1. \A q : IsSecret(First(q)) =>
            /\ IsSecret(OfGroup(s, q, share))
            /\ ClassicSecret(s, First(q)) = OfGroup(s, q, share)
            /\ s.kind = "kem" => Splits(s, share)
    BY FirstIsOfGroup
  <1>2. \A q : ~IsSecret(First(q)) => ClassicSecret(s, First(q)) = First(q)
    BY DEF ClassicSecret
  <1>3. PICK a \in Randoms : a + 1 \in Randoms
    BY RangeAssumption
  <1>4. a \in Nat
    BY <1>3, RandomsAssumption
  <1>5. IsSecret(First(r))
    OBVIOUS
  <1> HIDE DEF First
  <1>6. CASE IsSecret(First(a)) /\ IsSecret(First(a + 1))
    <2>1. OfGroup(s, a, share) # OfGroup(s, a + 1, share)
      BY <1>1, <1>4, <1>6, OfGroupVaries
    <2> QED BY <1>1, <1>3, <1>6, <2>1 DEF First
  <1>7. CASE ~IsSecret(First(a)) \/ ~IsSecret(First(a + 1))
    BY <1>1, <1>2, <1>3, <1>5, <1>7 DEF First
  <1> QED BY <1>6, <1>7

LEMMA AnswerVaries ==
    ASSUME NEW s, s.kind \in GroupKinds, Proper(s),
           NEW share, OfForm(s, share),
           NEW r \in Randoms, IsSecret(AnswerOf(s, r, share).result)
    PROVE  \E r1, r2 \in Randoms :
              ClassicSecret(s, AnswerOf(s, r1, share).result)
                 # ClassicSecret(s, AnswerOf(s, r2, share).result)
  <1> DEFINE Second(q) == AnswerOf(s, q, share).result
  <1>1. \A q : IsSecret(Second(q)) =>
            /\ IsSecret(OfGroup(s, q, share))
            /\ ClassicSecret(s, Second(q)) = OfGroup(s, q, share)
            /\ s.kind = "kem" => Splits(s, share)
    BY AnswerIsOfGroup
  <1>2. \A q : ~IsSecret(Second(q)) => ClassicSecret(s, Second(q)) = Second(q)
    BY DEF ClassicSecret
  <1>3. PICK a \in Randoms : a + 1 \in Randoms
    BY RangeAssumption
  <1>4. a \in Nat
    BY <1>3, RandomsAssumption
  <1>5. IsSecret(Second(r))
    OBVIOUS
  <1> HIDE DEF Second
  <1>6. CASE IsSecret(Second(a)) /\ IsSecret(Second(a + 1))
    <2>1. OfGroup(s, a, share) # OfGroup(s, a + 1, share)
      BY <1>1, <1>4, <1>6, OfGroupVaries
    <2> QED BY <1>1, <1>3, <1>6, <2>1 DEF Second
  <1>7. CASE ~IsSecret(Second(a)) \/ ~IsSecret(Second(a + 1))
    BY <1>1, <1>2, <1>3, <1>5, <1>7 DEF Second
  <1> QED BY <1>6, <1>7

\* Every share under way has the right form, replaced or not.
LEMMA OfferOfForm ==
    ASSUME NEW s, s.kind \in GroupKinds, Proper(s), NEW r \in Randoms,
           "refused" \notin DOMAIN PublicOfFirst(s, r)
    PROVE  OfForm(s, PublicOfFirst(s, r).share)
  <1>0. r \in Nat
    BY RandomsAssumption
  <1>1. CASE s.kind = "ffdh"
    <2> DEFINE p == s.prime
               Y == powMod(s.generator, r, p)
    <2>1. p \in Nat \ {0} /\ s.generator \in Int
      BY <1>1 DEF Proper, Prime
    <2> HIDE DEF p
    <2>2. Y \in 0..(p - 1)
      BY <1>0, <2>1, PowRange
    <2>3. \E l : PublicOfFirst(s, r).share = [length |-> l, value |-> Y]
      BY <1>1, Results DEF PublicOfFirst, FFDHPublic, Padded, Shortest, p
    <2> HIDE DEF Y
    <2>4. Y \in Nat
      BY <2>1, <2>2
    <2> QED BY <1>1, <2>3, <2>4 DEF OfForm
  <1>2. ASSUME NEW t, t.order \in Nat \ {0}
        PROVE  Clamped(t, r) \in Nat
    <2>1. Cofactor * r \in Int
      BY <1>0 DEF Cofactor
    <2> QED BY <1>2, <2>1 DEF Clamped
  <1>3. s.kind \in {"ecdh", "x", "kem"} => s.order \in Nat \ {0}
    BY DEF Proper, Prime, Cofactor
  <1>4. CASE s.kind = "ecdh"
    <2>1. r % s.order \in Nat
      BY <1>0, <1>3, <1>4
    <2>2. \E f : PublicOfFirst(s, r).share =
                    [format |-> f, point |-> r % s.order]
      BY <1>4, Results DEF PublicOfFirst, ECDHPublic
    <2> QED BY <1>4, <2>1, <2>2 DEF OfForm
  <1>5. CASE s.kind = "x"
    <2>1. PublicOfFirst(s, r).share =
             [format |-> "x", point |-> Clamped(s, r)]
      BY <1>5 DEF PublicOfFirst, XPublic
    <2> QED BY <1>2, <1>3, <1>5, <2>1 DEF OfForm
  <1>6. CASE s.kind = "kem"
    <2> DEFINE n == Clamped(Classic(s), r)
    <2>1. PublicOfFirst(s, r).share =
             Joined(s, Pqc("key", r),
                    ClassicPart([format |-> "x", point |-> n]))
      BY <1>6 DEF PublicOfFirst, KEMPublic, XPublic
    <2>2. Classic(s).order = s.order
      BY DEF Classic
    <2>3. n \in Nat
      BY <1>2, <1>3, <1>6, <2>2
    <2> HIDE DEF n
    <2> QED BY <1>6, <2>1, <2>3 DEF OfForm
  <1> QED BY <1>1, <1>4, <1>5, <1>6 DEF GroupKinds

LEMMA AnswerOfForm ==
    ASSUME NEW s, s.kind \in GroupKinds, Proper(s), NEW r \in Randoms,
           NEW share, IsSecret(AnswerOf(s, r, share).result)
    PROVE  OfForm(s, AnswerOf(s, r, share).share)
  <1>1. CASE s.kind # "kem"
    <2> DEFINE answer == AnswerOf(s, r, share)
               group == OfGroup(s, r, share)
               public == PublicOfFirst(s, r)
    <2>1. \/ answer = [result |-> Refused("small prime")]
          \/ answer = Answered(s, public, group)
      BY <1>1 DEF GroupKinds, AnswerOf, OfGroup, PublicOfFirst
    <2>2. "refused" \in DOMAIN public => ~IsSecret(public)
      BY <1>1, Results
         DEF GroupKinds, PublicOfFirst, FFDHPublic, ECDHPublic, XPublic
    <2>3. IsSecret(answer.result)
      OBVIOUS
    <2> DEFINE answered == Answered(s, public, group)
    <2>4. /\ "refused" \in DOMAIN public => answered.result = public
          /\ "refused" \notin DOMAIN public => answered.share = public.share
      BY AnsweredParts
    <2> HIDE DEF answer, group, public, answered
    <2>5. answer = answered
      <3>1. ASSUME answer = [result |-> Refused("small prime")]
            PROVE  answer.result = Refused("small prime")
        BY <3>1
      <3> QED BY <2>1, <2>3, <3>1, Results DEF answered
    <2>6. "refused" \notin DOMAIN public
      BY <2>2, <2>3, <2>4, <2>5
    <2> QED BY <2>4, <2>5, <2>6, OfferOfForm DEF answer, public
  <1>2. CASE s.kind = "kem"
    <2> DEFINE n == Clamped(Classic(s), r)
    <2>1. AnswerOf(s, r, share) = Encapsulate(s, r, share)
      BY <1>2 DEF AnswerOf
    <2>2. Splits(s, share)
      BY <2>1, Results DEF Encapsulate
    <2>3. \E z : AnswerOf(s, r, share).share =
             Joined(s, z, ClassicPart([format |-> "x", point |-> n]))
      BY <2>1, <2>2 DEF Encapsulate, XPublic
    <2>4. Cofactor * r \in Int /\ Classic(s).order \in Nat \ {0}
      BY <1>2, RandomsAssumption DEF Proper, Prime, Cofactor, Classic
    <2>5. n \in Nat
      BY <2>4 DEF Clamped
    <2> HIDE DEF n
    <2> QED BY <1>2, <2>3, <2>5 DEF OfForm
  <1> QED BY <1>1, <1>2

LEMMA ReplacedOfForm ==
    ASSUME NEW s, s.kind \in GroupKinds, Proper(s),
           NEW share, OfForm(s, share), NEW other \in Replacements(s, share)
    PROVE  OfForm(s, other)
  <1>1. CASE s.kind = "ffdh"
    <2>1. s.prime \in Nat
      BY <1>1 DEF Proper, Prime
    <2>2. PICK l, n : n \in Nat /\ share = [length |-> l, value |-> n]
      BY <1>1 DEF OfForm
    <2>3. \/ \E m \in 0..s.prime :
                other = [length |-> share.length, value |-> m]
          \/ other = [share EXCEPT !.length = @ + 1]
      BY <1>1 DEF Replacements
    <2>4. [share EXCEPT !.length = @ + 1] = [length |-> l + 1, value |-> n]
      BY <2>2
    <2> QED BY <1>1, <2>1, <2>2, <2>3, <2>4 DEF OfForm
  <1>2. s.kind \in {"ecdh", "x", "kem"} => s.order \in Nat \ {0}
    BY DEF Proper, Prime, Cofactor
  <1>3. CASE s.kind \in {"ecdh", "x"}
    <2>1. other \in [format : Formats \cup {"x"}, point : 0..s.order]
      BY <1>3 DEF Replacements
    <2>2. other = [format |-> other.format, point |-> other.point]
          /\ other.point \in Nat
      BY <1>2, <1>3, <2>1
    <2> QED BY <1>3, <2>2 DEF OfForm
  <1>4. CASE s.kind = "kem"
    <2> DEFINE part(n) == ClassicPart([format |-> "x", point |-> n])
               parts == {PqcOf(s, share),
                         [PqcOf(s, share) EXCEPT
                            !.value = IF PqcOf(s, share).of = "key"
                                      THEN 0 ELSE <<0, 0>>]}
    <2>1. Replacements(s, share) =
             {<<>>} \cup {Joined(s, pqc, part(n)) :
                             pqc \in parts, n \in 0..s.order - 1}
      BY <1>4 DEF Replacements
    <2> HIDE DEF part, parts
    <2>2. ASSUME other # <<>>
          PROVE  \E z \in parts, n \in 0..s.order - 1 :
                     other = Joined(s, z, part(n))
      BY <2>1, <2>2
    <2>3. ASSUME NEW z, NEW n \in 0..s.order - 1,
                 other = Joined(s, z, part(n))
          PROVE  OfForm(s, other)
      <3>1. n \in Nat
        BY <1>2, <1>4
      <3> QED BY <1>4, <2>3, <3>1 DEF OfForm, part
    <2>4. CASE other = <<>>
      BY <1>4, <2>4 DEF OfForm
    <2> QED BY <2>2, <2>3, <2>4
  <1> QED BY <1>1, <1>3, <1>4 DEF GroupKinds

\* What is known of a handshake x that is about s: the share an end has
\* taken is of the right form, and its result the one for some number.
Taken(s, x) ==
    s.kind \in GroupKinds =>
        /\ x.phase \in {"begin", "offered", "answered"} => ~IsSecret(x.first)
        /\ x.phase \in {"begin", "offered"} => ~IsSecret(x.second)
        /\ x.phase \in {"offered", "answered"} =>
              OfForm(s, x.share) /\ x.private[1] \in Randoms
        /\ IsSecret(x.first) =>
              /\ OfForm(s, x.share)
              /\ \E r \in Randoms : x.first = SecretOfFirst(s, r, x.share)
        /\ IsSecret(x.second) =>
              /\ OfForm(s, x.got)
              /\ \E r \in Randoms : x.second = AnswerOf(s, r, x.got).result

TakenInv == \A h \in Handshakes : Taken(setup[h], hs[h])

LEMMA TakenIsNotForced ==
    ASSUME WithoutSRP
    PROVE  ExchangeInv /\ TakenInv => NotForced
  <1> SUFFICES ASSUME ExchangeInv, TakenInv, NEW h \in Handshakes
               PROVE  LET s == setup[h]
                          First(t, r) == ClassicSecret(t,
                                  SecretOfFirst(t, r, hs[h].share))
                          Second(t, r) == ClassicSecret(t,
                                  AnswerOf(t, r, hs[h].got).result)
                      IN  s.kind \in {"ffdh", "ecdh", "x", "kem", "srp"} =>
                            /\ IsSecret(hs[h].first) =>
                                  DependsOnPrivate(s, First)
                            /\ IsSecret(hs[h].second) =>
                                  DependsOnPrivate(s, Second)
    BY DEF NotForced
  <1> DEFINE s == setup[h]
             x == hs[h]
             First(t, r) == ClassicSecret(t, SecretOfFirst(t, r, x.share))
             Second(t, r) == ClassicSecret(t, AnswerOf(t, r, x.got).result)
  <1>1. Proper(s) /\ Taken(s, x) /\ s.kind # "srp"
    BY DEF ExchangeInv, Sound, TakenInv, WithoutSRP
  <1> SUFFICES ASSUME s.kind \in GroupKinds
               PROVE  /\ IsSecret(x.first) => DependsOnPrivate(s, First)
                      /\ IsSecret(x.second) => DependsOnPrivate(s, Second)
    BY <1>1 DEF GroupKinds
  <1>2. ASSUME IsSecret(x.first)
        PROVE  \E r1, r2 \in Randoms : First(s, r1) # First(s, r2)
    <2>1. PICK r \in Randoms : x.first = SecretOfFirst(s, r, x.share)
      BY <1>1, <1>2 DEF Taken
    <2> QED BY <1>1, <1>2, <2>1, FirstVaries DEF Taken
  <1>3. ASSUME IsSecret(x.second)
        PROVE  \E r1, r2 \in Randoms : Second(s, r1) # Second(s, r2)
    <2>1. PICK r \in Randoms : x.second = AnswerOf(s, r, x.got).result
      BY <1>1, <1>3 DEF Taken
    <2> QED BY <1>1, <1>3, <2>1, AnswerVaries DEF Taken
  <1>4. s \in {s} \cup
            IF s.kind = "srp"
            THEN {[s EXCEPT !.stored = r, !.password = r] : r \in Randoms}
            ELSE {}
    OBVIOUS
  <1> HIDE DEF s, x
  <1>5. IsSecret(x.first) => DependsOnPrivate(s, First)
    BY <1>2, <1>4, Zenon DEF DependsOnPrivate
  <1>6. IsSecret(x.second) => DependsOnPrivate(s, Second)
    BY <1>3, <1>4, Zenon DEF DependsOnPrivate
  <1> QED BY <1>5, <1>6

LEMMA TakenInit == Init => TakenInv
  <1> SUFFICES ASSUME Init, NEW h \in Handshakes
               PROVE  Taken(setup[h], hs[h])
    BY DEF TakenInv
  <1>1. /\ hs[h].phase = "begin"
        /\ hs[h].first = Unknown /\ hs[h].second = Unknown
    BY DEF Init, Beginning
  <1> QED BY <1>1, Results DEF Taken

\* A step of handshake h from x to y.
LEMMA OneTaken ==
    ASSUME TakenInv, NEW h \in Handshakes, setup' = setup,
           \A i \in Handshakes \ {h} : hs'[i] = hs[i],
           Taken(setup[h], hs'[h])
    PROVE  TakenInv'
  <1> SUFFICES ASSUME NEW i \in Handshakes
               PROVE  Taken(setup[i], hs'[i])
    BY DEF TakenInv
  <1>1. CASE i = h
    BY <1>1
  <1>2. CASE i # h
    BY <1>2 DEF TakenInv
  <1> QED BY <1>1, <1>2

LEMMA FirstShareTaken ==
    ASSUME ExchangeInv, TakenInv, NEW h \in Handshakes, MakeFirstShare(h)
    PROVE  TakenInv'
  <1> DEFINE s == setup[h]
             x == hs[h]
             y == hs'[h]
  <1>1. PICK a \in Randoms :
            hs' = [hs EXCEPT ![h] =
                IF "refused" \in DOMAIN PublicOfFirst(s, a)
                THEN [@ EXCEPT !.first = PublicOfFirst(s, a), !.phase = "over"]
                ELSE [@ EXCEPT !.private[1] = a, !.phase = "offered",
                               !.share = PublicOfFirst(s, a).share]]
    BY DEF MakeFirstShare
  <1>2. /\ Proper(s) /\ Shaped(x) /\ Taken(s, x) /\ DOMAIN hs = Handshakes
        /\ x.phase = "begin" /\ setup' = setup
    BY DEF ExchangeInv, Sound, TakenInv, MakeFirstShare
  <1> DEFINE public == PublicOfFirst(s, a)
             share == public.share
  <1>3. \A i \in Handshakes \ {h} : hs'[i] = hs[i]
    BY <1>1, <1>2
  <1> SUFFICES ASSUME s.kind \in GroupKinds
               PROVE  Taken(s, y)
    BY <1>2, <1>3, OneTaken DEF Taken
  <1>4. "refused" \in DOMAIN public => ~IsSecret(public)
    BY Results DEF GroupKinds, PublicOfFirst, FFDHPublic, ECDHPublic, XPublic,
                   KEMPublic
  <1>5. "refused" \notin DOMAIN public => OfForm(s, share)
    BY <1>2, OfferOfForm
  <1>6. CASE "refused" \in DOMAIN public
    <2> HIDE DEF public
    <2>1. y = [x EXCEPT !.first = public, !.phase = "over"]
      BY <1>1, <1>2, <1>6 DEF public
    <2> HIDE DEF x, y
    <2>2. /\ y.first = public /\ y.phase = "over" /\ y.second = x.second
      BY <1>2, <2>1 DEF Shaped, Fields
    <2> QED BY <1>2, <1>4, <1>6, <2>2 DEF Taken
  <1>7. CASE "refused" \notin DOMAIN public
    <2> HIDE DEF public, share
    <2>1. y = [x EXCEPT !.private[1] = a, !.phase = "offered",
                        !.share = share]
      BY <1>1, <1>2, <1>7 DEF public, share
    <2> HIDE DEF x, y
    <2>2. /\ y.private = [x.private EXCEPT ![1] = a]
          /\ y.phase = "offered" /\ y.share = share
          /\ y.first = x.first /\ y.second = x.second
      BY <1>2, <2>1 DEF Shaped, Fields
    <2>3. y.private[1] = a
      BY <1>2, <2>2 DEF Shaped
    <2> QED BY <1>2, <1>5, <1>7, <2>2, <2>3 DEF Taken
  <1> QED BY <1>6, <1>7

LEMMA AnswerTaken ==
    ASSUME ExchangeInv, TakenInv, NEW h \in Handshakes, Answer(h)
    PROVE  TakenInv'
  <1> DEFINE s == setup[h]
             x == hs[h]
             y == hs'[h]
  <1>1. PICK b \in Randoms :
            LET answer == AnswerOf(s, b, x.share)
            IN  hs' = [hs EXCEPT ![h] =
                    IF IsSecret(answer.result)
                    THEN [@ EXCEPT !.private[2] = b, !.phase = "answered",
                                   !.second = answer.result, !.got = x.share,
                                   !.share = answer.share]
                    ELSE [@ EXCEPT !.second = answer.result,
                                   !.phase = "over"]]
    BY DEF Answer
  <1>2. /\ Proper(s) /\ Shaped(x) /\ Taken(s, x) /\ DOMAIN hs = Handshakes
        /\ x.phase = "offered" /\ setup' = setup
    BY DEF ExchangeInv, Sound, TakenInv, Answer
  <1> DEFINE answer == AnswerOf(s, b, x.share)
             result == answer.result
             share == answer.share
             got == x.share
  <1>3. \A i \in Handshakes \ {h} : hs'[i] = hs[i]
    BY <1>1, <1>2
  <1> SUFFICES ASSUME s.kind \in GroupKinds
               PROVE  Taken(s, y)
    BY <1>2, <1>3, OneTaken DEF Taken
  <1>4. OfForm(s, got)
    BY <1>2 DEF Taken
  <1>5. CASE IsSecret(result)
    <2>1. y = [x EXCEPT !.private[2] = b, !.phase = "answered",
                        !.second = result, !.got = got, !.share = share]
      BY <1>1, <1>2, <1>5
    <2>2. OfForm(s, share)
      BY <1>2, <1>5, AnswerOfForm
    <2>3. result = AnswerOf(s, b, got).result
      OBVIOUS
    <2> HIDE DEF x, y, got, share, result
    <2>4. /\ y.private = [x.private EXCEPT ![2] = b]
          /\ y.first = x.first /\ y.phase = "answered"
          /\ y.second = result /\ y.got = got /\ y.share = share
      BY <1>2, <2>1 DEF Shaped, Fields
    <2>5. y.private[1] = x.private[1]
      BY <1>2, <2>4 DEF Shaped
    <2> QED BY <1>2, <1>4, <1>5, <2>2, <2>3, <2>4, <2>5 DEF Taken
  <1>6. CASE ~IsSecret(result)
    <2>1. y = [x EXCEPT !.second = result, !.phase = "over"]
      BY <1>1, <1>2, <1>6
    <2> HIDE DEF x, y, result
    <2>2. y.phase = "over" /\ y.second = result /\ y.first = x.first
      BY <1>2, <2>1 DEF Shaped, Fields
    <2> QED BY <1>2, <1>6, <2>2 DEF Taken
  <1> QED BY <1>5, <1>6

LEMMA ConcludeTaken ==
    ASSUME ExchangeInv, TakenInv, NEW h \in Handshakes, Conclude(h)
    PROVE  TakenInv'
  <1> DEFINE s == setup[h]
             x == hs[h]
             y == hs'[h]
             secret == SecretOfFirst(s, x.private[1], x.share)
  <1>1. hs' = [hs EXCEPT ![h].first = secret, ![h].phase = "over"]
    BY DEF Conclude
  <1>2. /\ Shaped(x) /\ Taken(s, x) /\ DOMAIN hs = Handshakes
        /\ x.phase = "answered" /\ setup' = setup
    BY DEF ExchangeInv, Sound, TakenInv, Conclude
  <1> HIDE DEF secret
  <1>3. /\ \A i \in Handshakes \ {h} : hs'[i] = hs[i]
        /\ y = [x EXCEPT !.first = secret, !.phase = "over"]
    BY <1>1, <1>2
  <1> HIDE DEF x, y
  <1>4. /\ y.first = secret /\ y.phase = "over" /\ y.share = x.share
        /\ y.second = x.second /\ y.got = x.got
    BY <1>2, <1>3 DEF Shaped, Fields
  <1>5. Taken(s, y)
    BY <1>2, <1>4 DEF Taken, secret
  <1> QED BY <1>2, <1>3, <1>5, OneTaken DEF y

LEMMA ReplaceTaken ==
    ASSUME ExchangeInv, TakenInv, NEW h \in Handshakes, Replace(h)
    PROVE  TakenInv'
  <1> DEFINE s == setup[h]
             x == hs[h]
             y == hs'[h]
  <1>1. PICK share \in Replacements(s, x.share) \ {x.share} :
            hs' = [hs EXCEPT ![h].share = share, ![h].faithful = FALSE]
    BY DEF Replace
  <1>2. /\ Proper(s) /\ Shaped(x) /\ Taken(s, x) /\ DOMAIN hs = Handshakes
        /\ x.phase \in {"offered", "answered"} /\ setup' = setup
    BY DEF ExchangeInv, Sound, TakenInv, Replace
  <1>3. /\ \A i \in Handshakes \ {h} : hs'[i] = hs[i]
        /\ y = [x EXCEPT !.share = share, !.faithful = FALSE]
    BY <1>1, <1>2
  <1> SUFFICES ASSUME s.kind \in GroupKinds
               PROVE  Taken(s, y)
    BY <1>2, <1>3, OneTaken DEF Taken
  <1>4. OfForm(s, share)
    BY <1>2, ReplacedOfForm DEF Taken
  <1> HIDE DEF x, y
  <1>5. /\ y.private = x.private /\ y.phase = x.phase /\ y.share = share
        /\ y.first = x.first /\ y.second = x.second /\ y.got = x.got
    BY <1>2, <1>3 DEF Shaped, Fields
  <1> QED BY <1>2, <1>4, <1>5 DEF Taken

\* The steps of the RSA handshakes are none of its business.
LEMMA RSATaken ==
    ASSUME ExchangeInv, TakenInv, NEW h \in Handshakes,
           Encrypt(h) \/ TakeBlinding(h) \/ DecryptPremaster(h)
    PROVE  TakenInv'
  <1>1. /\ setup' = setup /\ DOMAIN hs = Handshakes
        /\ setup[h].kind = "rsa"
    BY DEF ExchangeInv, Sound, InOrder, Encrypt, TakeBlinding,
           DecryptPremaster
  <1>2. \A i \in Handshakes \ {h} : hs'[i] = hs[i]
    BY <1>1 DEF Encrypt, TakeBlinding, DecryptPremaster
  <1>3. Taken(setup[h], hs'[h])
    BY <1>1 DEF Taken, GroupKinds
  <1> QED BY <1>1, <1>2, <1>3, OneTaken

LEMMA TakenNext == ExchangeInv /\ TakenInv /\ [Next]_vars => TakenInv'
  <1> SUFFICES ASSUME ExchangeInv, TakenInv, [Next]_vars
               PROVE  TakenInv'
    OBVIOUS
  <1>1. CASE UNCHANGED vars
    BY <1>1 DEF vars, TakenInv
  <1>2. CASE Next
    BY <1>2, FirstShareTaken, AnswerTaken, ConcludeTaken, RSATaken,
       ReplaceTaken DEF Next
  <1> QED BY <1>1, <1>2

\* Nobody on the path can fix the secret of an end by the share he puts in
\* the place of another: whatever an end of a finite-field, elliptic-curve
\* or hybrid exchange took, it would have come to something else with
\* another of its private numbers.
THEOREM KeyExchangeNotForced == ASSUME WithoutSRP PROVE Spec => []NotForced
  <1>1. Init => TakenInv
    BY TakenInit
  <1>2. ExchangeInv /\ TakenInv /\ [Next]_vars => TakenInv'
    BY TakenNext
  <1>3. ExchangeInv /\ TakenInv => NotForced
    BY TakenIsNotForced
  <1> QED BY <1>1, <1>2, <1>3, ExchangeAlways, PTL DEF Spec
=============================================================================
