----------------------------- MODULE MCHandshake12 ----------------------------
\* The meetings for the runs of Handshake12, by what they vary.
EXTENDS Handshake12

Default ==      \* HandshakeSettings(), with fewer names of each kind
    [min |-> 1, max |-> 4, versions |-> <<4, 3, 2, 1>>,
     macs |-> {"sha", "sha256", "sha384", "aead"},
     ciphers |-> {"aes128gcm", "aes128"},
     kxs |-> {"rsa", "dhe_rsa", "dhe_dsa", "ecdhe_rsa", "ecdhe_ecdsa",
              "srp_sha", "srp_sha_rsa", "dh_anon", "ecdh_anon"},
     more |-> <<"dvnizk_ed25519", "Ed25519">>,
     ecdsa |-> <<"sha384", "sha256", "sha1">>, dsa |-> <<"sha256", "sha1">>,
     rsaSchemes |-> <<"pss", "pkcs1">>,
     rsa |-> <<"sha384", "sha256", "sha1">>,
     curves |-> <<"x25519", "secp256r1">>,
     dhGroups |-> <<"ffdhe2048", "ffdhe3072">>,
     defaultCurve |-> "secp256r1", shares |-> <<"secp256r1", "x25519">>,
     etm |-> TRUE, ems |-> "use", fallback |-> FALSE, sizes |-> TRUE]
\* For TLS 1.2 and below.
Old == [Default EXCEPT !.max = 3, !.more = <<"Ed25519">>]
\* The versions from low to high, in lists without gaps.
Ranged(s, low, high) ==
    [s EXCEPT !.min = low, !.max = high,
              !.versions = SelectSeq(<<4, 3, 2, 1, 0>>,
                                     LAMBDA v : v \in low..high)]

PlainClient ==
    [settings |-> Old, auth |-> "cert", cert |-> "none", user |-> "none",
     password |-> TRUE, rejects |-> FALSE]
PlainServer ==
    [settings |-> Old, db |-> FALSE, cert |-> "rsa", reqCert |-> FALSE,
     cache |-> TRUE, ticketKeys |-> <<>>, tickets |-> TRUE,
     rejects |-> FALSE]
Plain == [client |-> PlainClient, server |-> PlainServer, restart |-> FALSE,
          late |-> {}]

Meets(rounds, n) == [rounds |-> rounds, faults |-> n]
Once(rounds) == {Meets(<<r>>, 0) : r \in rounds}

\* Versions of both ends, with a fallback and with the network's faults.
Low == [Default EXCEPT !.kxs = {"rsa", "ecdhe_rsa"},
                       !.macs = {"sha", "aead"}]
Between(low, high, above) ==
    [Plain EXCEPT !.client.settings = Ranged(Low, low, high),
                  !.server.settings = Ranged([Low EXCEPT !.macs = @], above[1],
                                             above[2])]
Ranges == {r \in (0..3) \X (0..4) : r[1] <= r[2]}
VersionMeetings ==
    Once({Between(r[1], r[2], q) : r \in Ranges, q \in Ranges}
         \cup {[Between(1, v, <<1, w>>) EXCEPT
                   !.client.settings.fallback = TRUE] :
                  v \in 1..4, w \in 2..4})
FaultyMeetings ==
    {Meets(<<[Between(1, v, <<1, w>>) EXCEPT
                !.client.settings.ems = ems, !.server.cache = cached,
                !.server.ticketKeys = IF cached THEN <<>> ELSE <<"key1">>]>>,
           1) :
        v \in 2..4, w \in 2..4, ems \in {"none", "use"}, cached \in BOOLEAN}
    \cup {Meets(<<Between(1, 3, <<1, 3>>), Between(1, 3, <<1, 3>>)>>, 1)}

\* Certificates, ways to authenticate and key exchanges.
Exchanges == {{"rsa"}, {"dhe_rsa"}, {"dhe_dsa"}, {"ecdhe_rsa"},
              {"ecdhe_ecdsa"}, {"ecdhe_rsa", "rsa"}, Default.kxs}
CertMeetings ==
    Once({[Plain EXCEPT
             !.client.settings = [Ranged(s, 1, v) EXCEPT !.kxs = kxs],
             !.server.cert = cert] :
             s \in {Default, Old}, v \in 2..4, kxs \in Exchanges,
             cert \in CertKinds \ {"none"}})
SrpMeetings ==
    Once({[Plain EXCEPT
             !.client = [@ EXCEPT !.auth = auth, !.user = user,
                                  !.password = password,
                                  !.settings = Ranged(Default, 1, v)],
             !.server = [@ EXCEPT !.db = db, !.cert = cert]] :
             auth \in {"srp", "anon", "cert"},
             user \in {"none", "alice", "bob"}, password \in BOOLEAN,
             v \in 3..4, db \in BOOLEAN, cert \in {"none", "rsa", "ecdsa"}})

\* Ciphers and MACs by version.
CipherMeetings ==
    Once({[Plain EXCEPT
             !.client.settings = [Ranged(Old, 0, v) EXCEPT
                                     !.ciphers = {c, "3des"}, !.macs = macs],
             !.server.settings = [Ranged(Old, 0, 3) EXCEPT
                                     !.ciphers = CipherNames,
                                     !.macs = @ \cup {"md5"}],
             !.server.cert = cert] :
             v \in {0, 2, 3}, c \in CipherNames,
             macs \in {Default.macs, {"sha"}, {"sha256", "aead"},
                       {"sha384", "md5"}},
             cert \in {"rsa", "ecdsa", "dsa"}})

\* Groups of both ends.
GroupMeetings ==
    Once({[Plain EXCEPT
             !.client.settings = [Ranged(Default, 1, v) EXCEPT
                !.curves = curves, !.dhGroups = groups,
                !.shares = SelectSeq(@, LAMBDA g : Contains(curves, g))],
             !.server.settings = [Ranged(Default, 1, 3) EXCEPT
                !.curves = accepted, !.dhGroups = <<"ffdhe2048">>,
                !.shares = <<>>],
             !.server.cert = cert] :
             v \in {3, 4}, curves \in {<<>>, <<"x25519">>, <<"secp256r1">>},
             groups \in {<<>>, <<"ffdhe2048">>, <<"ffdhe3072">>},
             accepted \in {<<"x25519">>, <<"secp256r1">>},
             cert \in {"rsa", "ecdsa"}})

\* Client certificates and signature algorithms.
Signing ==
    {Old, [Old EXCEPT !.more = <<"dvnizk_ed25519", "Ed25519">>],
     [Old EXCEPT !.rsaSchemes = <<"pkcs1">>, !.ecdsa = <<>>],
     [Old EXCEPT !.rsaSchemes = <<"pss">>, !.rsa = <<"sha384">>,
                 !.more = <<>>],
     [Old EXCEPT !.rsa = <<>>], [Old EXCEPT !.sizes = FALSE]}
RequestMeetings ==
    Once({[Plain EXCEPT
             !.client = [@ EXCEPT !.cert = cert,
                                  !.settings = Ranged(s, 1, v)],
             !.server = [@ EXCEPT !.reqCert = TRUE, !.cert = own,
                                  !.settings = q]] :
             cert \in CertKinds, s \in Signing, v \in 2..3, q \in Signing,
             own \in {"rsa", "ecdsa"}}
         \cup {[Plain EXCEPT !.server.settings.ciphers = {}]})

\* Resumption: by ID or ticket, after a change of either end's settings.
Kept ==
    {[Plain EXCEPT !.server.cache = kept[1], !.server.ticketKeys = kept[2],
                   !.server.reqCert = req, !.client.cert = "rsa",
                   !.client.settings.ems = ems[1],
                   !.server.settings.ems = ems[2],
                   !.client.settings.etm = etm,
                   !.client.settings.ciphers = {"aes128"}] :
        kept \in {<<TRUE, <<>>>>, <<FALSE, <<"key1">>>>,
                  <<TRUE, <<"key1">>>>},
        req \in BOOLEAN, etm \in BOOLEAN,
        ems \in {<<"none", "use">>, <<"use", "use">>, <<"use", "none">>}}
Changed(r) ==
    {r, [r EXCEPT !.restart = TRUE],
     [r EXCEPT !.late = {Server}], [r EXCEPT !.late = {Client}],
     [r EXCEPT !.server.ticketKeys = <<"key2">>],
     [r EXCEPT !.server.ticketKeys = <<"key2", "key1">>],
     [r EXCEPT !.client.settings.ems = "use"],
     [r EXCEPT !.client.settings.ems = "none"],
     [r EXCEPT !.client.settings.ems = "require"],
     [r EXCEPT !.client.settings.etm = FALSE],
     [r EXCEPT !.server.settings.ems = "require"],
     [r EXCEPT !.client.settings.ciphers = {"aes128gcm"}],
     [r EXCEPT !.server.settings.ciphers = {"aes128gcm"}],
     [r EXCEPT !.server.settings.kxs = {"rsa"}],
     [r EXCEPT !.client.settings = Ranged(@, 1, 2)],
     [r EXCEPT !.client.settings = Ranged([@ EXCEPT !.more = <<>>], 3, 4)],
     [r EXCEPT !.client.cert = "none"],
     [r EXCEPT !.client.rejects = TRUE],
     [r EXCEPT !.server.rejects = TRUE]}
ResumptionMeetings ==
    UNION {{Meets(<<r, q>>, 0) : q \in Changed(r)} : r \in Kept}

\* Three meetings: a rejected session, one resumed twice, users that change.
RejectedMeetings ==
    {Meets(<<[r EXCEPT !.client.rejects = c, !.server.rejects = s], r, r>>, 0) :
        r \in {x \in Kept : x.client.settings.ems = "use"
                            /\ x.server.settings.ems = "use"
                            /\ x.client.settings.etm},
        c \in BOOLEAN, s \in BOOLEAN}
UserMeetings ==
    LET Srp(kept, user) ==
            [Plain EXCEPT !.client.auth = "srp", !.client.user = user,
                          !.server.db = TRUE, !.server.cache = kept,
                          !.server.ticketKeys =
                              IF kept THEN <<>> ELSE <<"key1">>]
    IN  {Meets(<<Srp(kept, "alice"), Srp(kept, user)>>, 0) :
            kept \in BOOLEAN, user \in {"alice", "bob"}}
        \cup {Meets(<<Srp(TRUE, "alice"), Plain>>, 0),
              Meets(<<Plain, Srp(TRUE, "alice")>>, 0),
              Meets(<<Plain, Plain>>, 0)}

\* The server's ticketLifetime has passed.
ExpiredTicket ==
    LET Ticketed == [Plain EXCEPT !.server.ticketKeys = <<"key1">>]
    IN  {Meets(<<Ticketed, [Ticketed EXCEPT !.late = {Server}]>>, 0)}

AllMeetings ==
    UNION {VersionMeetings, FaultyMeetings, CertMeetings, SrpMeetings,
           CipherMeetings, GroupMeetings, RequestMeetings,
           ResumptionMeetings, RejectedMeetings, UserMeetings}
=============================================================================
