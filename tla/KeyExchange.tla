----------------------------- MODULE KeyExchange -----------------------------
(***************************************************************************)
(* How the two ends of a handshake come to a shared secret: the classes of *)
(* keyexchange.py over small groups, and the RSA key of the server, which  *)
(* handshakes in several threads use at once (utils/rsakey.py).            *)
(*                                                                         *)
(* One end makes the first share, the other answers it with its own and    *)
(* has the secret, the first end concludes.  The first end is the server   *)
(* up to TLS 1.2 and the client in TLS 1.3.  With RSA there is one share,  *)
(* the encrypted premaster secret.  Something on the path may put another  *)
(* share in the place of one that is under way.                            *)
(***************************************************************************)
EXTENDS Numbers, Sequences, FiniteSets, FiniteSetsExt

CONSTANTS
    Handshakes,    \* handshakes that the server runs at the same time
    Setups,        \* what each may be about: functions from Handshakes
    ByteSize,      \* values of a byte of the shared secrets
    Randoms,       \* the numbers private keys are drawn from
    KeyN, KeyE, KeyD,  \* the server's RSA key
    Encoded,       \* the bytes a number below KeyN stands for
    MinPrime,      \* the smallest prime a client takes from a server
    MaxAltered     \* shares that are replaced on their way, at most

Idle == [kind |-> "idle"]

VARIABLES
    setup,     \* what each handshake is about
    hs,        \* each handshake: phase, private values, shares, secrets
    blinding,  \* the blinding pair the RSA key keeps for its next operation
    altered    \* shares replaced so far

vars == <<setup, hs, blinding, altered>>

---------------------------------------------------------------------------
(* Numbers and their bytes.                                                *)

numBytes(n) == CHOOSE k \in 0..n : /\ ByteSize ^ k > n
                                   /\ k = 0 \/ ByteSize ^ (k - 1) <= n

\* numberToByteArray, to the shortest form (a zero takes a byte) or to a
\* given length.
Shortest(n) == [length |-> IF n = 0 THEN 1 ELSE numBytes(n), value |-> n]
Padded(n, length) == [length |-> length, value |-> n]

Refused(why) == [refused |-> why]
Secret(bytes) == [secret |-> bytes]
IsSecret(result) == "secret" \in DOMAIN result
Unknown == Refused("not yet")

---------------------------------------------------------------------------
(* Finite-field Diffie-Hellman.  A share is a number up to TLS 1.2 and     *)
(* bytes, with their length, in TLS 1.3.                                   *)

FFDHBytes(s, n) == IF s.version = "1.3" THEN Padded(n, numBytes(s.prime))
                                        ELSE Shortest(n)

\* Either end makes its share with a FFDHKeyExchange, whose constructor looks
\* at the generator.
ValidGenerator(s) == 1 < s.generator /\ s.generator < s.prime

FFDHPublic(s, private) ==
    LET Y == powMod(s.generator, private, s.prime)
    IN  IF ~ValidGenerator(s) THEN Refused("generator")
        ELSE IF Y \in {1, s.prime - 1} THEN Refused("small subgroup")
        ELSE [share |-> IF s.version = "1.3"
                        THEN Padded(Y, numBytes(s.prime)) ELSE Shortest(Y)]

_normalise_peer_share(s, share) ==
    s.version = "1.3" => share.length = numBytes(s.prime)

FFDHShared(s, private, share) ==
    LET S == powMod(share.value, private, s.prime)
    IN  IF ~_normalise_peer_share(s, share) THEN Refused("length")
        ELSE IF ~(2 <= share.value /\ share.value < s.prime - 1)
        THEN Refused("peer share")
        ELSE IF S \in {1, s.prime - 1} THEN Refused("small subgroup")
        ELSE Secret(FFDHBytes(s, S))

---------------------------------------------------------------------------
(* Elliptic curves, written additively: a point is its multiple of the     *)
(* generator, 0 the neutral point.  A NIST curve has a prime order and     *)
(* points in two formats; the x curves have a cofactor, private keys that  *)
(* are multiples of it, and a secret that is zero for a small order point. *)

Formats == {"uncompressed", "compressed"}

FirstCommon(mine, theirs) ==
    {mine[i] : i \in {j \in 1..Len(mine) :
                        /\ mine[j] \in theirs
                        /\ \A k \in 1..j - 1 : mine[k] \notin theirs}}

\* ext_negotiated: the client's first format that the server named as well.
NegotiatedFormat(s) ==
    IF s.clientFormats # <<>> /\ s.serverFormats # {}
    THEN FirstCommon(s.clientFormats, s.serverFormats)
    ELSE {"uncompressed"}

\* ext_supported.
ValidFormats(s) ==
    IF s.clientFormats # <<>> /\ s.serverFormats # {}
    THEN {f \in s.serverFormats : \E i \in 1..Len(s.clientFormats) :
                                        s.clientFormats[i] = f}
    ELSE {"uncompressed"}

ECDHPublic(s, private) ==
    IF NegotiatedFormat(s) = {} THEN Refused("no common point format")
    ELSE [share |-> [format |-> CHOOSE f \in NegotiatedFormat(s) : TRUE,
                     point |-> private % s.order]]

ECDHShared(s, private, share) ==
    IF ValidFormats(s) = {} THEN Refused("no common point format")
    ELSE IF \/ share.format \notin ValidFormats(s)
            \/ share.point \notin 1..s.order-1
    THEN Refused("invalid point")
    ELSE Secret((share.point * private) % s.order)

Cofactor == 2
Clamped(s, private) == (Cofactor * private) % s.order

XPublic(s, private) ==
    [share |-> [format |-> "x", point |-> Clamped(s, private)]]

ZeroPasses(value) == TRUE   \* the shared secret is not looked at

_non_zero_check(value) == value # 0

XShared(s, private, share) ==
    LET S == (share.point * Clamped(s, private)) % s.order
    IN  IF share.format # "x" THEN Refused("length")
        ELSE IF ~_non_zero_check(S) THEN Refused("zero secret")
        ELSE Secret(S)

---------------------------------------------------------------------------
(* Hybrid key encapsulation: the ML-KEM part and the classic part, in an   *)
(* order that depends on the group.  A part is [part, of, value].          *)

Classic(s) == [kind |-> "x", order |-> s.order]
Pqc(of, value) == [part |-> "pqc", of |-> of, value |-> value]
ClassicPart(share) == [part |-> "classic", of |-> "point", value |-> share]

Joined(s, pqc, classic) ==
    IF s.pqcFirst THEN <<pqc, classic>> ELSE <<classic, pqc>>

KEMPublic(s, private) ==
    [share |-> Joined(s, Pqc("key", private),
                      ClassicPart(XPublic(Classic(s), private).share))]

\* _split_key_shares, by the lengths of the parts.
Splits(s, share) == Len(share) = 2
PqcOf(s, share) == IF s.pqcFirst THEN share[1] ELSE share[2]
ClassicOf(s, share) == IF s.pqcFirst THEN share[2] ELSE share[1]

Hybrid(s, pqcSecret, classicSecret) ==
    IF IsSecret(classicSecret)
    THEN Secret(Joined(s, pqcSecret, classicSecret.secret)) ELSE classicSecret

Encapsulate(s, private, share) ==
    IF ~Splits(s, share) THEN [result |-> Refused("length")]
    ELSE [result |-> Hybrid(s, [rejected |-> FALSE,
                                from |-> <<PqcOf(s, share).value, private>>],
                            XShared(Classic(s), private,
                                    ClassicOf(s, share).value)),
          share |-> Joined(s, Pqc("ciphertext",
                                  <<PqcOf(s, share).value, private>>),
                           ClassicPart(XPublic(Classic(s), private).share))]

\* Decapsulation of what was not made for the key gives another secret.
decaps(private, pqc) ==
    IF pqc.of = "ciphertext" /\ pqc.value[1] = private
    THEN [rejected |-> FALSE, from |-> pqc.value]
    ELSE [rejected |-> TRUE, from |-> pqc.value]

KEMShared(s, private, share) ==
    IF ~Splits(s, share) THEN Refused("length")
    ELSE Hybrid(s, decaps(private, PqcOf(s, share)),
                XShared(Classic(s), private, ClassicOf(s, share).value))
---------------------------------------------------------------------------
(* SRP.  The server's database holds v = g^x for the user's password x.    *)

makeX(password) == password
makeK(N, g) == 1 + (((2 * N) + g) % N)
makeU(N, A, B) == 1 + ((A + (3 * B)) % N)

SRPVerifier(s) == powMod(s.g, makeX(s.stored), s.N)

\* B, which the server sends first.
SRPServerPublic(s, b) ==
    [share |-> (powMod(s.g, b, s.N) + (makeK(s.N, s.g) * SRPVerifier(s)))
                    % s.N]

SRPServerSecret(s, b, A) ==
    IF A % s.N = 0 THEN Refused("A")
    ELSE LET u == makeU(s.N, A, SRPServerPublic(s, b).share)
         IN  Secret(Shortest(powMod((A * powMod(SRPVerifier(s), u, s.N)) % s.N,
                                    b, s.N)))

SRPClientPublic(s, a) == [share |-> powMod(s.g, a, s.N)]

SRPClientSecret(s, a, B) ==
    IF ~s.knownGroup THEN Refused("group")
    ELSE IF B % s.N = 0 THEN Refused("B")
    ELSE LET x == makeX(s.password)
             v == powMod(s.g, x, s.N)
             u == makeU(s.N, SRPClientPublic(s, a).share, B)
         IN  Secret(Shortest(powMod((B - (makeK(s.N, s.g) * v)) % s.N,
                                    a + (u * x), s.N)))

---------------------------------------------------------------------------
(* RSA.  A premaster secret is a number below KeyN whose bytes, Encoded,   *)
(* are [first, type: the first two bytes, zeros: where the others are 0,   *)
(* version: the two bytes after the padding].                              *)

PremasterLength == 2                  \* 48 in the code
Size == 2 + 8 + 1 + PremasterLength   \* numBytes(n)

Zeroed(em, from, to) == {i \in em.zeros : from <= i /\ i <= to}

MessageStartAnyPadding(em) ==   \* a short padding is not noticed
    LET separators == Zeroed(em, 10, Size - 1)
    IN  IF em.first # 0 \/ em.type # 2 \/ separators = {} THEN 0
        ELSE Min(separators) + 1

\* decrypt, of the bytes that the private key operation gave: where the
\* message starts, or 0 for a synthetic one, by the loop of the code.
MessageStart(em) ==
    LET separators == Zeroed(em, 10, Size - 1)
        error == \/ em.first # 0 \/ em.type # 2
                 \/ Zeroed(em, 2, 9) # {}
                 \/ separators = {}
    IN  IF error THEN 0 ELSE Min(separators) + 1

\* What PKCS #1 asks of the bytes: 0, 2, eight or more that are not zero, 0,
\* and a message of the right length.
WellFormed(em) ==
    /\ em.first = 0 /\ em.type = 2
    /\ \E pad \in 8..Size - 3 :
        /\ pad + 2 \in em.zeros
        /\ \A i \in 2..pad + 1 : i \notin em.zeros
        /\ Size - (pad + 3) = PremasterLength

\* processClientKeyExchange: a premaster secret that will not do gives way
\* to random bytes, and nobody is told.
FreshRandom == -1   \* bytes that nobody else has

Premaster(s, m) ==
    LET em == Encoded[m]
        start == MessageStart(em)
    IN  IF /\ start # 0 /\ Size - start = PremasterLength
           /\ em.version \in {s.clientVersion, s.serverVersion}
        THEN Secret(m) ELSE Secret(FreshRandom)

RSAShare(m) == [share |-> powMod(m, KeyE, KeyN)]

\* The premaster secrets that a client may make up.
Premasters(s) ==
    {m \in 0..KeyN - 1 : /\ WellFormed(Encoded[m])
                         /\ Encoded[m].version = s.clientVersion}

Units == {u \in 2..KeyN - 1 : \E i \in 1..KeyN - 1 : (u * i) % KeyN = 1}
invMod(u) == CHOOSE i \in 1..KeyN - 1 : (u * i) % KeyN = 1

\* The pair on the first pass, and its next.
NoPair == [blinder |-> 0, unblinder |-> 0]
FirstPair(u) == [blinder |-> powMod(invMod(u), KeyE, KeyN), unblinder |-> u]
NextPair(pair) == [blinder |-> (pair.blinder * pair.blinder) % KeyN,
                   unblinder |-> (pair.unblinder * pair.unblinder) % KeyN]

---------------------------------------------------------------------------
(* The handshakes.                                                         *)

\* Who makes the first share.
PublicOfFirst(s, private) ==
    CASE s.kind = "ffdh" -> FFDHPublic(s, private)
      [] s.kind = "ecdh" -> ECDHPublic(s, private)
      [] s.kind = "x"    -> XPublic(s, private)
      [] s.kind = "kem"  -> KEMPublic(s, private)
      [] s.kind = "srp"  -> SRPServerPublic(s, private)

SecretOfFirst(s, private, share) ==
    CASE s.kind = "ffdh" -> FFDHShared(s, private, share)
      [] s.kind = "ecdh" -> ECDHShared(s, private, share)
      [] s.kind = "x"    -> XShared(s, private, share)
      [] s.kind = "kem"  -> KEMShared(s, private, share)
      [] s.kind = "srp"  -> SRPServerSecret(s, private, share)

\* The secret of the end that answers, and its share: it makes its share
\* before it looks at the other.
Answered(s, public, result) ==
    IF "refused" \in DOMAIN public THEN [result |-> public]
    ELSE [result |-> result, share |-> public.share]

AnswerOf(s, private, share) ==
    CASE s.kind = "ffdh" ->
           IF s.version # "1.3" /\ s.prime < MinPrime
           THEN [result |-> Refused("small prime")]
           ELSE Answered(s, FFDHPublic(s, private),
                         FFDHShared(s, private, share))
      [] s.kind = "ecdh" -> Answered(s, ECDHPublic(s, private),
                                     ECDHShared(s, private, share))
      [] s.kind = "x"    -> Answered(s, XPublic(s, private),
                                     XShared(s, private, share))
      [] s.kind = "kem"  -> Encapsulate(s, private, share)
      [] s.kind = "srp"  -> Answered(s, SRPClientPublic(s, private),
                                     SRPClientSecret(s, private, share))

\* What may stand in the place of a share: any other of its form.
Replacements(s, share) ==
    CASE s.kind = "ffdh" ->
           {[length |-> share.length, value |-> n] : n \in 0..s.prime}
               \cup {[share EXCEPT !.length = @ + 1]}
      [] s.kind \in {"ecdh", "x"} ->
           [format : Formats \cup {"x"}, point : 0..s.order]
      [] s.kind = "kem"  ->
           {<<>>} \cup
           {Joined(s, pqc, ClassicPart([format |-> "x", point |-> p])) :
                pqc \in {PqcOf(s, share),
                         [PqcOf(s, share) EXCEPT
                            !.value = IF PqcOf(s, share).of = "key"
                                      THEN 0 ELSE <<0, 0>>]},
                p \in 0..s.order - 1}
      [] s.kind = "srp"  -> 0..s.N
      [] s.kind = "rsa"  -> 0..KeyN - 1

\* An end has nothing until it has drawn its private number.
Beginning ==
    [phase |-> "begin", private |-> <<0, 0>>, share |-> 0, got |-> 0,
     faithful |-> TRUE,
     first |-> Unknown, second |-> Unknown, pair |-> NoPair]

Init ==
    /\ setup \in Setups
    /\ hs = [h \in Handshakes |-> Beginning]
    /\ blinding = NoPair
    /\ altered = 0

\* makeServerKeyExchange, or the client's key share of TLS 1.3.
MakeFirstShare(h) ==
    /\ hs[h].phase = "begin" /\ setup[h].kind \notin {"idle", "rsa"}
    /\ \E private \in Randoms :
        LET public == PublicOfFirst(setup[h], private)
        IN  hs' = [hs EXCEPT ![h] =
                IF "refused" \in DOMAIN public
                THEN [@ EXCEPT !.first = public, !.phase = "over"]
                ELSE [@ EXCEPT !.private[1] = private, !.phase = "offered",
                               !.share = public.share]]
    /\ UNCHANGED <<setup, blinding, altered>>

\* processServerKeyExchange and makeClientKeyExchange, or the server's
\* answer in TLS 1.3.
Answer(h) ==
    /\ hs[h].phase = "offered" /\ setup[h].kind # "rsa"
    /\ \E private \in Randoms :
        LET answer == AnswerOf(setup[h], private, hs[h].share)
        IN  hs' = [hs EXCEPT ![h] =
                IF IsSecret(answer.result)
                THEN [@ EXCEPT !.private[2] = private, !.phase = "answered",
                               !.second = answer.result, !.got = hs[h].share,
                               !.share = answer.share]
                ELSE [@ EXCEPT !.second = answer.result, !.phase = "over"]]
    /\ UNCHANGED <<setup, blinding, altered>>

\* processClientKeyExchange, or the client with the server's share.
Conclude(h) ==
    /\ hs[h].phase = "answered" /\ setup[h].kind # "rsa"
    /\ hs' = [hs EXCEPT ![h].first = SecretOfFirst(setup[h],
                                          hs[h].private[1], hs[h].share),
                        ![h].phase = "over"]
    /\ UNCHANGED <<setup, blinding, altered>>

\* The client encrypts a premaster secret.
Encrypt(h) ==
    /\ hs[h].phase = "begin" /\ setup[h].kind = "rsa"
    /\ \E m \in Premasters(setup[h]) :
        hs' = [hs EXCEPT ![h].second = Secret(m), ![h].phase = "answered",
                         ![h].share = RSAShare(m).share]
    /\ UNCHANGED <<setup, blinding, altered>>

\* _rawPrivateKeyOp under the key's lock: take the pair, leave its next.
TakeBlinding(h) ==
    /\ hs[h].phase = "answered" /\ setup[h].kind = "rsa"
    /\ \E pair \in IF blinding.blinder = 0 THEN {FirstPair(u) : u \in Units}
                                            ELSE {blinding} :
        /\ hs' = [hs EXCEPT ![h].pair = pair, ![h].phase = "blinded"]
        /\ blinding' = NextPair(pair)
    /\ UNCHANGED <<setup, altered>>

UnblindedShared(h) ==   \* the key's unblinder as it is by then
    (powMod((hs[h].share * hs[h].pair.blinder) % KeyN, KeyD, KeyN)
        * blinding.unblinder) % KeyN

\* And outside of the lock: the operation, and what comes of it.
Unblinded(h) ==
    (powMod((hs[h].share * hs[h].pair.blinder) % KeyN, KeyD, KeyN)
        * hs[h].pair.unblinder) % KeyN

DecryptPremaster(h) ==
    /\ hs[h].phase = "blinded"
    /\ hs' = [hs EXCEPT ![h].phase = "over",
                        ![h].first = Premaster(setup[h], Unblinded(h))]
    /\ UNCHANGED <<setup, blinding, altered>>

Replace(h) ==
    /\ altered < MaxAltered
    /\ hs[h].phase \in {"offered", "answered"}
    /\ \E share \in Replacements(setup[h], hs[h].share) \ {hs[h].share} :
        hs' = [hs EXCEPT ![h].share = share, ![h].faithful = FALSE]
    /\ altered' = altered + 1
    /\ UNCHANGED <<setup, blinding>>

\* What the standard groups, the standard curves and an RSA key are, and how
\* the private numbers are drawn: from all of some length, so that some of
\* them are neighbours.
Drawn(q) == \A r \in Randoms : r % q # 0

Proper(s) ==
    CASE s.kind = "ffdh" ->
           Prime(s.prime) /\ s.generator \in Nat /\ s.generator % s.prime # 0
      [] s.kind = "ecdh" ->
           /\ s.order \in Nat \ {0} /\ Drawn(s.order)
           /\ s.clientFormats \in Seq(Formats) /\ s.serverFormats \subseteq Formats
      [] s.kind \in {"x", "kem"} ->
           \E q \in 1..s.order :
               Prime(q) /\ s.order = Cofactor * q /\ q # Cofactor /\ Drawn(q)
      [] s.kind = "srp" ->
           /\ Prime(s.N) /\ s.g \in Nat /\ s.g % s.N # 0
           /\ s.password \in Nat /\ s.stored \in Nat
      [] OTHER -> s.kind \in {"rsa", "idle"}

ASSUME RandomsAssumption == Randoms \subseteq Nat
ASSUME RangeAssumption == \E r \in Randoms : r + 1 \in Randoms
ASSUME SetupsAssumption == \A x \in Setups, h \in Handshakes : Proper(x[h])
ASSUME KeyAssumption ==
    /\ KeyN \in Nat /\ KeyN > 1 /\ KeyE \in Nat /\ KeyD \in Nat
    /\ \A m \in 0..KeyN - 1 : powMod(powMod(m, KeyE, KeyN), KeyD, KeyN) = m
ASSUME EncodedAssumption ==
    \A m \in 0..KeyN - 1 : Encoded[m].zeros \subseteq 0..Size - 1

Next ==
    \E h \in Handshakes :
        \/ MakeFirstShare(h) \/ Answer(h) \/ Conclude(h)
        \/ Encrypt(h) \/ TakeBlinding(h) \/ DecryptPremaster(h)
        \/ Replace(h)

Spec == Init /\ [][Next]_vars

---------------------------------------------------------------------------
(* Properties.                                                             *)

\* The setups that have to come to nothing: the client does not take the
\* server's group or neither end its generator, or there is no point format
\* that both know.
Mismatched(s) ==
    CASE s.kind = "ffdh" -> \/ ~ValidGenerator(s)
                            \/ s.version # "1.3" /\ s.prime < MinPrime
      [] s.kind = "ecdh" -> NegotiatedFormat(s) = {}
      [] s.kind = "srp"  -> ~s.knownGroup
      [] OTHER -> FALSE

SamePassword(s) == s.kind = "srp" => s.password = s.stored

\* When nobody touched the shares, the two ends have the same secret, byte
\* for byte: whatever the private numbers, leading zeros, group, format and
\* order of the parts, and whatever the other threads do with the RSA key
\* meanwhile.  Only a degenerate share of their own making excuses them.
SameSecret ==
    \A h \in Handshakes :
        hs[h].phase = "over" /\ hs[h].faithful =>
            LET s == setup[h]
                unlucky == {Refused("small subgroup"), Refused("B")}
            IN  IF Mismatched(s)
                THEN ~IsSecret(hs[h].first) /\ ~IsSecret(hs[h].second)
                ELSE \/ {hs[h].first, hs[h].second} \cap unlucky # {}
                     \/ /\ IsSecret(hs[h].first) /\ IsSecret(hs[h].second)
                        /\ SamePassword(s) => hs[h].first = hs[h].second

\* The share of a peer never fixes the secret by itself: an end that took
\* one would have had another secret with another private number (with SRP,
\* or for a user with another password).
DependsOnPrivate(s, Outcome(_, _)) ==
    \E r1, r2 \in Randoms, s1, s2 \in {s} \cup
            IF s.kind = "srp"
            THEN {[s EXCEPT !.stored = r, !.password = r] : r \in Randoms}
            ELSE {} :
        Outcome(s1, r1) # Outcome(s2, r2)

ClassicSecret(s, result) ==
    IF s.kind = "kem" /\ IsSecret(result)
    THEN Secret(ClassicOf(s, result.secret)) ELSE result

NotForced ==
    \A h \in Handshakes :
        LET s == setup[h]
            First(t, r) ==
                ClassicSecret(t, SecretOfFirst(t, r, hs[h].share))
            Second(t, r) ==
                ClassicSecret(t, AnswerOf(t, r, hs[h].got).result)
        IN  s.kind \in {"ffdh", "ecdh", "x", "kem", "srp"} =>
                /\ IsSecret(hs[h].first) => DependsOnPrivate(s, First)
                /\ IsSecret(hs[h].second) => DependsOnPrivate(s, Second)

\* The server never tells a bad premaster secret from a good one by
\* stopping, and it only goes on with one that is well formed, as PKCS #1
\* has it and not as the loop of decrypt finds it, and has a version that
\* was offered.
OnlyWellFormed ==
    \A h \in Handshakes :
        setup[h].kind = "rsa" /\ hs[h].phase = "over" =>
            /\ IsSecret(hs[h].first)
            /\ LET m == hs[h].first.secret
               IN  \/ m = FreshRandom /\ ~hs[h].faithful
                   \/ WellFormed(Encoded[m])
                      /\ Encoded[m].version \in {setup[h].clientVersion,
                                                 setup[h].serverVersion}
=============================================================================
