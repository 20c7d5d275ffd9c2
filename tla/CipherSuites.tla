----------------------------- MODULE CipherSuites -----------------------------
(***************************************************************************)
(* The cipher suite tables of tlslite/constants.py and the tables of       *)
(* tlslite/recordlayer.py that turn a suite into keys.                     *)
(*                                                                         *)
(* A suite is <<key exchange, cipher, mac>>, the parts its name is made    *)
(* of; what the library knows about it is what the lists below say, and    *)
(* they were written by hand.  A version (3, n) is n.                      *)
(***************************************************************************)
EXTENDS Integers, SequencesExt

Versions == 0..4       \* SSL 3.0, TLS 1.0, 1.1, 1.2, 1.3

KeyExchanges == {"rsa", "dhe_rsa", "dhe_dss", "dh_dss", "ecdhe_rsa",
                "ecdhe_ecdsa", "ecdh_rsa", "ecdh_ecdsa", "srp_sha",
                "srp_sha_rsa", "srp_sha_dss", "dh_anon", "ecdh_anon"}
Static == {"ecdh_rsa", "ecdh_ecdsa"}
Ephemeral == {"ecdhe_rsa", "ecdhe_ecdsa"}
Finite == {"rsa", "dhe_rsa", "dh_anon"}

-----------------------------------------------------------------------------
(* By cipher.                                                              *)
\* TLC enumerates this where it would keep a product symbolic.
Suites(kxs, ciphers, macs) ==
    {<<kx, c, m>> : kx \in kxs, c \in ciphers, m \in macs}
tripleDESSuites == Suites(KeyExchanges, {"3des"}, {"sha"})
aes128Suites ==
    Suites(KeyExchanges, {"aes128"}, {"sha"})
    \cup Suites(Finite \cup Ephemeral \cup Static \cup {"dh_dss", "dhe_dss"},
                {"aes128"}, {"sha256"})
aes256Suites ==
    Suites(KeyExchanges, {"aes256"}, {"sha"})
    \cup Suites(Finite \cup {"dh_dss", "dhe_dss"}, {"aes256"}, {"sha256"})
    \cup Suites(Ephemeral \cup Static, {"aes256"}, {"sha384"})
WithGcm == Finite \cup Ephemeral \cup Static
                 \cup {"dhe_dss", "dh_dss", "tls13"}
aes128GcmSuites == Suites(WithGcm, {"aes128gcm"}, {"aead"})
aes256GcmSuites == Suites(WithGcm, {"aes256gcm"}, {"aead"})
WithCcm == {"rsa", "dhe_rsa", "ecdhe_ecdsa"}
aes128CcmSuites == Suites(WithCcm \cup {"tls13"}, {"aes128ccm"}, {"aead"})
aes128Ccm_8Suites ==
    Suites(WithCcm \cup {"tls13"}, {"aes128ccm_8"}, {"aead"})
aes256CcmSuites == Suites(WithCcm, {"aes256ccm"}, {"aead"})
aes256Ccm_8Suites == Suites(WithCcm, {"aes256ccm_8"}, {"aead"})
WithChacha == Ephemeral \cup {"dhe_rsa"}
chacha20draft00Suites ==
    Suites(WithChacha, {"chacha20-poly1305_draft00"}, {"aead"})
chacha20Suites ==
    Suites(WithChacha \cup {"tls13"}, {"chacha20-poly1305"}, {"aead"})
rc4Suites ==
    Suites(Ephemeral \cup Static \cup {"rsa", "ecdh_anon"}, {"rc4"}, {"sha"})
    \cup Suites({"dh_anon", "rsa"}, {"rc4"}, {"md5"})
nullSuites ==
    Suites({"rsa"}, {"null"}, {"md5", "sha", "sha256"})
    \cup Suites(Ephemeral \cup Static \cup {"ecdh_anon"}, {"null"}, {"sha"})

(* By what protects a record.                                              *)
HmacSuites == tripleDESSuites \cup aes128Suites \cup aes256Suites
                    \cup rc4Suites \cup nullSuites
shaSuites == {s \in HmacSuites : s[3] = "sha"}
sha256Suites == {s \in HmacSuites : s[3] = "sha256"
                                    /\ s[1] \notin {"dh_dss", "dhe_dss"}}
sha384Suites == {s \in HmacSuites : s[3] = "sha384"}
                \cup {s \in aes256GcmSuites : s[1] \in {"dhe_dss", "dh_dss"}}
md5Suites == {s \in HmacSuites : s[3] = "md5"}
streamSuites == rc4Suites \cup nullSuites
aeadSuites ==
    aes128GcmSuites \cup aes256GcmSuites \cup aes128CcmSuites
    \cup aes128Ccm_8Suites \cup aes256CcmSuites \cup aes256Ccm_8Suites
    \cup chacha20Suites \cup chacha20draft00Suites

(* By version and PRF.                                                     *)
sha384PrfSuites == sha384Suites \cup aes256GcmSuites
ssl3Suites == shaSuites \cup md5Suites
tls13Suites == {s \in aeadSuites : s[1] = "tls13"}
Since12 == sha256Suites \cup sha384Suites \cup aeadSuites
sha256PrfSuites == Since12 \ sha384PrfSuites
tls12Suites == Since12 \ tls13Suites

(* filterForVersion.  Each filter of a list keeps its order, and is what it *)
(* lets through.                                                           *)
filterForVersion(s, minVersion, maxVersion) ==
    \/ minVersion <= 3 /\ s \in ssl3Suites
    \/ maxVersion >= 3 /\ minVersion <= 3 /\ s \in tls12Suites
    \/ maxVersion > 3 /\ s \in tls13Suites

-----------------------------------------------------------------------------
(* By key exchange, preferred first.                                       *)
WithKx(kx, protections) ==
    [i \in DOMAIN protections |-> <<kx, protections[i][1], protections[i][2]>>]
Gcm == <<<<"aes256gcm", "aead">>, <<"aes128gcm", "aead">>>>
Ccm == <<<<"aes256ccm", "aead">>, <<"aes128ccm", "aead">>>>
Ccm_8 == <<<<"aes256ccm_8", "aead">>, <<"aes128ccm_8", "aead">>>>
Chacha == <<<<"chacha20-poly1305", "aead">>,
                  <<"chacha20-poly1305_draft00", "aead">>>>
Cbc256 == <<<<"aes256", "sha256">>, <<"aes128", "sha256">>>>
Cbc384 == <<<<"aes256", "sha384">>, <<"aes128", "sha256">>>>
Cbc == <<<<"aes256", "sha">>, <<"aes128", "sha">>>>
Des == <<<<"3des", "sha">>>>
Rc4 == <<<<"rc4", "sha">>>>

tls13Order ==
    WithKx("tls13", <<<<"aes256gcm", "aead">>, <<"aes128gcm", "aead">>,
                  <<"chacha20-poly1305", "aead">>, <<"aes128ccm", "aead">>,
                  <<"aes128ccm_8", "aead">>>>)
srpSuites == WithKx("srp_sha", Cbc \o Des)
srpCertSuites == WithKx("srp_sha_rsa", Cbc \o Des)
certSuites ==
    WithKx("rsa", Gcm \o Ccm \o Cbc256 \o Cbc \o Ccm_8 \o Des \o Rc4
              \o <<<<"rc4", "md5">>, <<"null", "md5">>, <<"null", "sha">>,
                   <<"null", "sha256">>>>)
dheCertSuites ==
    WithKx("dhe_rsa", Chacha \o Gcm \o Ccm \o Cbc256 \o Cbc \o Ccm_8 \o Des)
ecdheCertSuites ==
    WithKx("ecdhe_rsa", Chacha \o Gcm \o Cbc384 \o Cbc \o Des \o Rc4
                    \o <<<<"null", "sha">>>>)
ecdheEcdsaSuites ==
    WithKx("ecdhe_ecdsa", Chacha \o Gcm \o Ccm \o Cbc384 \o Cbc \o Des \o Ccm_8
                      \o Rc4 \o <<<<"null", "sha">>>>)
dheDsaSuites == WithKx("dhe_dss", Gcm \o Cbc256 \o Cbc \o Des)
anonSuites ==
    WithKx("dh_anon", Gcm \o <<<<"aes256", "sha256">>, <<"aes256", "sha">>,
                           <<"aes128", "sha256">>, <<"aes128", "sha">>,
                           <<"3des", "sha">>, <<"rc4", "md5">>>>)
ecdhAnonSuites ==
    WithKx("ecdh_anon", Cbc \o Des \o Rc4 \o <<<<"null", "sha">>>>)

Listed ==
    [srp |-> ToSet(srpSuites), srpCert |-> ToSet(srpCertSuites),
     cert |-> ToSet(certSuites), dheCert |-> ToSet(dheCertSuites),
     ecdheCert |-> ToSet(ecdheCertSuites),
     ecdheEcdsa |-> ToSet(ecdheEcdsaSuites), dheDsa |-> ToSet(dheDsaSuites),
     anon |-> ToSet(anonSuites), ecdhAnon |-> ToSet(ecdhAnonSuites)]
Together ==
    [srpAll |-> Listed.srp \cup Listed.srpCert,
     certAll |-> Listed.srpCert \cup Listed.cert \cup Listed.dheCert
                 \cup Listed.ecdheCert,
     dhAll |-> Listed.dheCert \cup Listed.anon \cup Listed.dheDsa,
     ecdhAll |-> Listed.ecdheEcdsa \cup Listed.ecdheCert
                 \cup Listed.ecdhAnon,
     anonAll |-> Listed.anon \cup Listed.ecdhAnon]
InSrpAll(s) == s \in Together.srpAll
InCert(s) == s \in Listed.cert
InCertAll(s) == s \in Together.certAll
InEcdsa(s) == s \in Listed.ecdheEcdsa
InDheDsa(s) == s \in Listed.dheDsa
InDhAll(s) == s \in Together.dhAll
InEcdhAll(s) == s \in Together.ecdhAll
InAnon(s) == s \in Together.anonAll

(* filter_for_certificate, by the type of the server's certificate.        *)
filter_for_certificate(s, cert) ==
    \/ s \in tls13Suites
    \/ cert = "rsa" /\ InCertAll(s)
    \/ cert = "rsa-pss" /\ InCertAll(s) /\ ~InCert(s)
    \/ cert \in {"ecdsa", "Ed25519"} /\ InEcdsa(s)
    \/ cert = "dsa" /\ InDheDsa(s)
    \/ cert = "none" /\ (s \in Listed.srp \/ InAnon(s))

(* _filterSuites: what the settings let through.                           *)
MacAllowed(s, macs, version) ==
    \/ "sha" \in macs /\ s \in shaSuites
    \/ "sha256" \in macs /\ version >= 3 /\ s \in sha256Suites
    \/ "sha384" \in macs /\ version >= 3 /\ s \in sha384Suites
    \/ "md5" \in macs /\ s \in md5Suites
    \/ "aead" \in macs /\ version >= 3 /\ s \in aeadSuites

CipherNames ==
    {"chacha20-poly1305", "chacha20-poly1305_draft00", "aes128gcm",
     "aes256gcm", "aes128ccm", "aes128ccm_8", "aes256ccm", "aes256ccm_8",
     "aes128", "aes256", "3des", "rc4", "null"}
SuitesOfCipher ==
    [c \in CipherNames |->
        IF c = "chacha20-poly1305" THEN chacha20Suites
        ELSE IF c = "chacha20-poly1305_draft00" THEN chacha20draft00Suites
        ELSE IF c = "aes128gcm" THEN aes128GcmSuites
        ELSE IF c = "aes256gcm" THEN aes256GcmSuites
        ELSE IF c = "aes128ccm" THEN aes128CcmSuites
        ELSE IF c = "aes128ccm_8" THEN aes128Ccm_8Suites
        ELSE IF c = "aes256ccm" THEN aes256CcmSuites
        ELSE IF c = "aes256ccm_8" THEN aes256Ccm_8Suites
        ELSE IF c = "aes128" THEN aes128Suites
        ELSE IF c = "aes256" THEN aes256Suites
        ELSE IF c = "3des" THEN tripleDESSuites
        ELSE IF c = "rc4" THEN rc4Suites
        ELSE nullSuites]

CipherAllowed(s, ciphers, version) ==
    \E c \in ciphers :
        /\ version >= 3 \/ c \in {"aes128", "aes256", "3des", "rc4", "null"}
        /\ s \in SuitesOfCipher[c]

KxAllowed(s, kxs, version) ==
    \/ version >= 4 /\ s \in tls13Suites
    \/ "rsa" \in kxs /\ InCert(s)
    \/ "dhe_rsa" \in kxs /\ s \in Listed.dheCert
    \/ "dhe_dsa" \in kxs /\ InDheDsa(s)
    \/ "ecdhe_rsa" \in kxs /\ s \in Listed.ecdheCert
    \/ "ecdhe_ecdsa" \in kxs /\ InEcdsa(s)
    \/ "srp_sha" \in kxs /\ s \in Listed.srp
    \/ "srp_sha_rsa" \in kxs /\ s \in Listed.srpCert
    \/ "dh_anon" \in kxs /\ s \in Listed.anon
    \/ "ecdh_anon" \in kxs /\ s \in Listed.ecdhAnon

_filterSuites(s, settings, version) ==
    /\ KxAllowed(s, settings.kxs, version)
    /\ CipherAllowed(s, settings.ciphers, version)
    /\ MacAllowed(s, settings.macs, version)

-----------------------------------------------------------------------------
(* What the rest of the library makes of a suite.                          *)

\* The table that holds the suite names its cipher: it is in one of them only.
canonicalCipherName(s) ==
    CHOOSE c \in CipherNames : s \in SuitesOfCipher[c]

canonicalMacName(s) ==
    IF s \in sha384Suites THEN "sha384"
    ELSE IF s \in sha256Suites THEN "sha256"
    ELSE IF s \in shaSuites THEN "sha"
    ELSE IF s \in md5Suites THEN "md5" ELSE "none"

KeySettings == [key : {0, 16, 24, 32}, iv : {0, 4, 8, 12, 16},
                make : {"AESGCM", "AESCCM_8", "AESCCM", "CHACHA20", "AES",
                        "RC4", "TripleDES", "none"}]

\* _getCipherSettings: length of key and IV, and the cipher's constructor.
_getCipherSettings(s) ==
    LET Make(key, iv, make) == [key |-> key, iv |-> iv, make |-> make]
    IN  IF s \in aes256GcmSuites THEN Make(32, 4, "AESGCM")
        ELSE IF s \in aes128GcmSuites THEN Make(16, 4, "AESGCM")
        ELSE IF s \in aes256Ccm_8Suites THEN Make(32, 4, "AESCCM_8")
        ELSE IF s \in aes256CcmSuites THEN Make(32, 4, "AESCCM")
        ELSE IF s \in aes128Ccm_8Suites THEN Make(16, 4, "AESCCM_8")
        ELSE IF s \in aes128CcmSuites THEN Make(16, 4, "AESCCM")
        ELSE IF s \in chacha20Suites THEN Make(32, 12, "CHACHA20")
        ELSE IF s \in chacha20draft00Suites THEN Make(32, 4, "CHACHA20")
        ELSE IF s \in aes128Suites THEN Make(16, 16, "AES")
        ELSE IF s \in aes256Suites THEN Make(32, 16, "AES")
        ELSE IF s \in rc4Suites THEN Make(16, 0, "RC4")
        ELSE IF s \in tripleDESSuites THEN Make(24, 8, "TripleDES")
        ELSE IF s \in nullSuites THEN Make(0, 0, "none")
        ELSE Make(0, 0, "assertion")

\* _getMacSettings: length and digest.
_getMacSettings(s) ==
    LET Mac(length, digest) == [length |-> length, digest |-> digest]
    IN  IF s \in aeadSuites THEN Mac(0, "none")
        ELSE IF s \in shaSuites THEN Mac(20, "sha")
        ELSE IF s \in sha256Suites THEN Mac(32, "sha256")
        ELSE IF s \in sha384Suites THEN Mac(48, "sha384")
        ELSE IF s \in md5Suites THEN Mac(16, "md5")
        ELSE Mac(0, "assertion")
=============================================================================
