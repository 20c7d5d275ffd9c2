------------------------------ MODULE Negotiation -----------------------------
(***************************************************************************)
(* What two tlslite ends make of their HandshakeSettings and of each       *)
(* other's hellos up to TLS 1.2: version, cipher suite, group and          *)
(* signature algorithm, as tlslite/handshakesettings.py,                   *)
(* tlslite/tlsconnection.py and tlslite/keyexchange.py choose them.        *)
(*                                                                         *)
(* A version (3, n) is n.  A signature algorithm is <<scheme, hash>>.      *)
(* Certificates are self-signed, ECDSA keys are on secp256r1; a choice is  *)
(* the sequence of what is left to choose from, empty when nothing is.     *)
(***************************************************************************)
EXTENDS CipherSuites

Lesser(a, b) == IF a < b THEN a ELSE b

Curves == {"x25519", "secp256r1"}
FfGroups == {"ffdhe2048", "ffdhe3072"}
Groups == Curves \cup FfGroups
CertKinds == {"none", "rsa", "rsa-pss", "ecdsa", "Ed25519", "dsa"}
Hashes == {"sha1", "sha256", "sha384"}
SigAlgorithms ==
    {"dvnizk_ed25519", "Ed25519", "mldsa44"} \X {"none"}
    \cup {"ecdsa", "dsa", "pkcs1", "pss_rsae", "pss_pss"} \X Hashes

\* getFirstMatching: the set of what it returns, and all that it could return.
FirstMatching(preferences, matches) ==
    UNION {{p[i] : i \in {k \in DOMAIN p :
                             /\ p[k] \in m
                             /\ \A j \in DOMAIN p : p[j] \in m => k <= j}} :
           p \in {preferences}, m \in {matches}}
Common(preferences, offered) ==
    SelectSeq(preferences, LAMBDA x : Contains(offered, x))

-----------------------------------------------------------------------------
(* HandshakeSettings.                                                      *)
SettingsType ==
    [min : Versions, max : Versions, versions : Seq(Versions),
     macs : SUBSET {"sha", "sha256", "sha384", "md5", "aead"},
     ciphers : SUBSET CipherNames,
     kxs : SUBSET {"rsa", "dhe_rsa", "dhe_dsa", "ecdhe_rsa", "ecdhe_ecdsa",
                   "srp_sha", "srp_sha_rsa", "dh_anon", "ecdh_anon"},
     more : Seq({"dvnizk_ed25519", "Ed25519", "mldsa44"}),
     ecdsa : Seq(Hashes), dsa : Seq(Hashes),
     rsaSchemes : Seq({"pss", "pkcs1"}), rsa : Seq(Hashes),
     curves : Seq(Curves), dhGroups : Seq(FfGroups),
     defaultCurve : Curves, shares : Seq(Groups),
     etm : BOOLEAN, ems : {"none", "use", "require"}, fallback : BOOLEAN,
     sizes : BOOLEAN]   \* 2048 bits are within minKeySize and maxKeySize

\* validate, what it refuses.
Valid(s) ==
    /\ s.min <= s.max
    /\ ToSet(s.shares) \subseteq ToSet(s.curves) \cup ToSet(s.dhGroups)
    /\ s.max >= 3 => s.more \o s.ecdsa \o s.dsa \o s.rsa # <<>>
    /\ s.ciphers # {}

\* validate, what it corrects; of versions it leaves Supported.
Validated(s) ==
    [s EXCEPT !.macs = IF s.max < 3 THEN @ \cap {"sha", "md5"} ELSE @]
Supported(s) == {v \in ToSet(s.versions) : s.max < 4 => v < 4}

\* _sigHashesToList for a certificate, or "none" for all that is known.
Hashing(scheme, hashes) == [i \in DOMAIN hashes |-> <<scheme, hashes[i]>>]
Intrinsic(schemes) == [i \in DOMAIN schemes |-> <<schemes[i], "none">>]

MoreAlgorithms(s, cert, version) ==
    Intrinsic(SelectSeq(s.more, LAMBDA scheme :
        /\ version >= 3
        /\ version >= 4 \/ scheme # "mldsa44"
        /\ \/ cert \in {"none", scheme}
           \/ cert = "Ed25519" /\ scheme = "dvnizk_ed25519"))

EcdsaAlgorithms(s, cert, version) ==
    Hashing("ecdsa", SelectSeq(s.ecdsa, LAMBDA hash :
        /\ cert \in {"none", "ecdsa"}
        /\ \/ version < 4
           \/ hash # "sha1" /\ (cert = "ecdsa" => hash = "sha256")))

DsaAlgorithms(s, cert, version) ==
    IF cert \in {"none", "dsa"} /\ version < 4 THEN Hashing("dsa", s.dsa)
    ELSE <<>>

PssAlgorithms(cert, hash) ==
    SelectSeq(<<<<"pss_rsae", hash>>, <<"pss_pss", hash>>>>, LAMBDA a :
        /\ hash # "sha1"
        /\ cert = "none" \/ (cert = "rsa-pss" <=> a[1] = "pss_pss"))
RsaAlgorithms(s, cert, version) ==
    LET Of(scheme) ==
            IF scheme = "pss"
            THEN FlattenSeq([i \in DOMAIN s.rsa |->
                                PssAlgorithms(cert, s.rsa[i])])
            ELSE IF version >= 4 \/ cert = "rsa-pss" THEN <<>>
            ELSE Hashing("pkcs1", s.rsa)
    IN  IF cert \notin {"none", "rsa", "rsa-pss"} THEN <<>>
        ELSE FlattenSeq([i \in DOMAIN s.rsaSchemes |-> Of(s.rsaSchemes[i])])

_sigHashesToList(s, cert, version) ==
    MoreAlgorithms(s, cert, version) \o EcdsaAlgorithms(s, cert, version)
    \o DsaAlgorithms(s, cert, version) \o RsaAlgorithms(s, cert, version)

-----------------------------------------------------------------------------
(* The client's hello.                                                     *)
Hellos ==
    [version : Versions, versions : Seq(Versions),
     suites : SUBSET (UNION {SuitesOfCipher[c] : c \in CipherNames}),
     fallback : BOOLEAN, etm : BOOLEAN, ems : BOOLEAN,
     algorithms : Seq(SigAlgorithms), groups : Seq(Groups)]

ClientSuites(s, auth) ==
    LET all == CASE auth = "srp" -> Together.srpAll
                 [] auth = "cert" -> ToSet(tls13Order) \cup Listed.ecdheEcdsa
                                     \cup Listed.ecdheCert
                                     \cup Listed.dheCert \cup Listed.cert
                                     \cup Listed.dheDsa
                 [] auth = "anon" -> Together.anonAll
    IN  {suite \in all : _filterSuites(suite, s, s.max)}

ClientAlgorithms(s) ==
    LET in13 == IF s.max >= 4 THEN _sigHashesToList(s, "none", 4) ELSE <<>>
        in12 == IF s.min <= 3 THEN _sigHashesToList(s, "none", 3) ELSE <<>>
    IN  IF s.max < 3 THEN <<>>
        ELSE in13 \o SelectSeq(in12, LAMBDA a : ~Contains(in13, a))

Speaks13(s) == \E v \in Supported(s) : v > 3

ClientGroups(s, suites) ==
    LET Used(groups, In(_)) ==
            IF \E suite \in suites : In(suite) THEN groups ELSE <<>>
        groups == Used(s.curves, InEcdhAll) \o Used(s.dhGroups, InDhAll)
    IN  IF groups = <<>> \/ ~Speaks13(s) THEN groups
        ELSE s.shares \o SelectSeq(groups, LAMBDA g : ~Contains(s.shares, g))

\* _clientSendClientHello: SSL 3.0 sends no extensions.
ClientHello(s, auth) ==
    LET suites == ClientSuites(s, auth)
        extended == s.max > 0
    IN  [version |-> Lesser(s.max, 3),
         versions |-> IF Speaks13(s) THEN s.versions ELSE <<>>,
         suites |-> suites,
         fallback |-> s.fallback,
         etm |-> extended /\ s.etm,
         ems |-> extended /\ s.ems # "none",
         algorithms |-> ClientAlgorithms(s),
         groups |-> IF extended THEN ClientGroups(s, suites) ELSE <<>>]

-----------------------------------------------------------------------------
(* The server's choices.                                                   *)

\* No version in the hello reaches minVersion.
TooOld(s, hello) ==
    LET offered == {hello.version} \cup
                   (IF hello.version >= 3 THEN ToSet(hello.versions) ELSE {})
    IN  \A v \in offered : v < s.min

ServerVersions(s, hello) ==
    IF hello.versions # <<>>
    THEN FirstMatching(s.versions,
                       {v \in Supported(s) : Contains(hello.versions, v)})
    ELSE {Lesser(hello.version, Lesser(s.max, 3))}

\* What _serverGetClientHello refuses before it looks at suites.
Refused(s, hello) ==
    \/ TooOld(s, hello)
    \/ ServerVersions(s, hello) = {}
    \/ Contains(hello.versions, 4) /\ hello.groups = <<>>
    \/ hello.fallback /\ \E v \in ServerVersions(s, hello) : v < s.max

EcUsable(s, hello) ==
    hello.groups = <<>> \/ Common(hello.groups, s.curves) # <<>>
FfUsable(s, hello) ==
    \/ Common(hello.groups, s.dhGroups) # <<>>
    \/ ToSet(hello.groups) \cap FfGroups = {}

\* By what the caller of the server brought: a verifierDB, then a
\* certificate, then leave to stay anonymous; preferred first.
ServerTable(server, hello) ==
    LET s == server.settings
        If(condition, suites) == IF condition THEN suites ELSE <<>>
        ec == EcUsable(s, hello)
        ff == FfUsable(s, hello)
    IN  IF server.db
        THEN If(server.cert # "none", srpCertSuites) \o srpSuites
        ELSE IF server.cert # "none"
        THEN If(ec \/ ff, tls13Order)
             \o If(ec, ecdheEcdsaSuites \o ecdheCertSuites)
             \o If(ff, dheCertSuites \o dheDsaSuites) \o certSuites
        ELSE anonSuites \o ecdhAnonSuites
ServerAllows(suite, s, version) ==
    _filterSuites(suite, s, version) /\ filterForVersion(suite, version, version)
ServerSuites(server, hello, version) ==
    {suite \in ToSet(ServerTable(server, hello)) :
        ServerAllows(suite, server.settings, version)}

\* _pickServerKeyExchangeSig: empty when no algorithm is common.
Sha1 == <<"sha1", "sha1">>
ServerAlgorithms(s, cert, hello, version) ==
    IF hello.algorithms = <<>> THEN <<Sha1>>
    ELSE Common(_sigHashesToList(s, cert, version), hello.algorithms)

\* _server_select_certificate: empty when it raises.
SelectedSuites(server, hello, version) ==
    LET s == server.settings
    IN  IF \/ ServerAlgorithms(s, server.cert, hello, version) = <<>>
           \/ /\ server.cert = "ecdsa" /\ version <= 3
              /\ hello.groups # <<>> /\ hello.algorithms # <<>>
              /\ ~Contains(hello.groups, "secp256r1")
        THEN {}
        ELSE FirstMatching(ServerTable(server, hello),
                 {suite \in hello.suites :
                     /\ ServerAllows(suite, s, version)
                     /\ filter_for_certificate(suite, server.cert)})

NegotiatesEtm(s, hello, suite) ==
    s.etm /\ hello.etm /\ suite \notin streamSuites \cup aeadSuites

\* The end of ServerHello.random.
Sentinel(s, version) ==
    IF version = 3 /\ s.max > 3 THEN "TLS 1.2"
    ELSE IF version < 3 /\ s.max >= 3 THEN "TLS 1.1" ELSE "none"

\* makeServerKeyExchange: the curves it chooses from.
CurvesInCommon(s, hello) ==
    Common(IF hello.groups = <<>> THEN <<s.defaultCurve>> ELSE hello.groups,
           s.curves)

\* The finite fields, "default" for dhParams or the built-in prime.
FfGroupsInCommon(s, hello) ==
    LET both == Common(hello.groups, s.dhGroups)
    IN  IF both # <<>> THEN both
        ELSE IF s.dhGroups # <<>> /\ ~FfUsable(s, hello) THEN <<>>
        ELSE <<"default">>

KeyExchangeGroups(s, hello, suite) ==
    IF InEcdhAll(suite) THEN CurvesInCommon(s, hello)
    ELSE IF InDhAll(suite) THEN FfGroupsInCommon(s, hello)
    ELSE <<"none">>

HasCertificate(suite) ==
    InCertAll(suite) \/ InEcdsa(suite) \/ InDheDsa(suite)
Signs(suite) ==
    HasCertificate(suite) /\ ~InCert(suite)

\* An assertion of getHash or a missing method stops signServerKeyExchange.
CannotSign(cert, algorithm, version) ==
    \/ version < 3 /\ cert = "Ed25519"
    \/ version = 3 /\ algorithm[1] \in {"sha1", "dvnizk_ed25519"}

-----------------------------------------------------------------------------
(* What each end accepts of the other.                                     *)

\* The end of ServerHello.random gives a downgrade away.
DowngradeSeen(s, version, sentinel) ==
    \/ s.max > 3 /\ version <= 3 /\ sentinel # "none"
    \/ s.max = 3 /\ version < 3 /\ sentinel = "TLS 1.1"

\* _clientGetServerHello; a version from the list may exceed maxVersion.
AcceptsServerHello(s, hello, sh) ==
    /\ sh.version >= s.min
    /\ sh.version <= s.max \/ sh.version \in Supported(s)
    /\ sh.suite \in hello.suites
    /\ filterForVersion(sh.suite, sh.version, sh.version)
    /\ s.ems = "require" => sh.ems
    /\ ~DowngradeSeen(s, sh.version, sh.sentinel)

\* _check_certchain_with_settings.
AcceptsCertificate(s, cert, version) ==
    CASE cert = "ecdsa" -> version > 3 \/ Contains(s.curves, "secp256r1")
      [] cert = "Ed25519" -> version >= 3 /\ Contains(s.more, "Ed25519")
      [] OTHER -> s.sizes

\* verifyServerKeyExchange, and the check of the server's CertificateVerify.
AcceptsAlgorithm(s, cert, algorithm, version) ==
    version = 3 => Contains(_sigHashesToList(s, cert, 3), algorithm)

\* The client wants pkcs1 in every TLS 1.2 CertificateRequest.
AcceptsRequest(suite, version, requested) ==
    /\ HasCertificate(suite) /\ ~InSrpAll(suite)
    /\ version = 3 => \E a \in ToSet(requested) : a[1] = "pkcs1"

\* makeCertificateVerify: what it chooses from, the first of its own if none
\* was asked for, nothing when it stops with an exception.
ClientSignatures(s, cert, requested, version) ==
    LET own == _sigHashesToList(s, cert, 3)
        both == Common(own, requested)
        chosen == IF both # <<>> THEN both ELSE own
    IN  IF version < 3
        THEN IF cert = "Ed25519" THEN <<>> ELSE <<Sha1>>
        ELSE IF chosen = <<>> \/ chosen[1][1] = "dvnizk_ed25519" THEN <<>>
        ELSE chosen
=============================================================================
