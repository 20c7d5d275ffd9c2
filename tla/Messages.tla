------------------------------- MODULE Messages -------------------------------
(***************************************************************************)
(* The messages of messages.py: what parse() reads and what write()        *)
(* writes, class by class, and the class _getMsg() takes for a message.    *)
(* A version (3, x) is x, one of SSL 2 is -1.                               *)
(***************************************************************************)
EXTENDS Extensions

CONSTANTS
    HRR,        \* TLS_1_3_HRR, the random that marks a HelloRetryRequest
    HashLength, \* the length of the PRF's hash
    Compressors, Decompressors  \* compression_algo_impls: what is installed

Message(parse, write) == [type |-> None, parse |-> parse, write |-> write]

\* A handshake message: its type, and a length that parse() checks at the end
\* and postWrite() adds.  _getMsg() has taken the type before.
HandshakeMsg(type, parse, write) ==
    [type |-> type, parse |-> <<Checked(3, parse)>>, write |-> <<Checked(3, write)>>]

Version == <<Uint(1), Uint(1)>>
ExtensionList(kind) == Items(2, <<Extension(kind)>>)

-------------------------------------------------------------------------------
\* Records and their direct contents.

RecordHeader3 ==
    Message(<<Uint(1)>> \o Version \o <<Uint(2)>>, <<Uint(1)>> \o Version \o <<Uint(2)>>)

Alert == Message(<<Uint(1), Uint(1)>>, <<Uint(1), Uint(1)>>)
ChangeCipherSpec == Message(<<Uint(1), End>>, <<Uint(1)>>)
ApplicationData == Message(<<Rest>>, <<Rest>>)
Heartbeat == Message(<<Uint(1), Var(2), Rest>>, <<Uint(1), Var(2), Rest>>)

-------------------------------------------------------------------------------
\* The hellos.

ClientHello ==
    HandshakeMsg(1,
        Version \o <<Fix(32), Lim(Var(1), 0, 32), List(2, 2), List(1, 1),
                     Opt(ExtensionList("universal"))>>,
        Version \o <<Rest, Var(1), List(2, 2), List(1, 1),
                     Opt(ExtensionList("universal"))>>)

\* Mutant: only the last binder is cut off.
TruncatedLast(hello) ==
    LET exts == hello[1][7]
        binders == exts[Len(exts)][1][3][1][2]
        length == 1 + Len(binders[Len(binders)][1])
    IN  Onto(Write(ClientHello.write, hello), LAMBDA w :
            Bytes(SubSeq(w, 1, Len(w) - length)))

\* psk_truncate(): the hello without the binders, which close it.
Truncated(hello) ==
    LET exts == hello[1][7]
        psk == exts[Len(exts)][1]
        binders == psk[3][1][2]
        length == 2 + FoldLeft(LAMBDA a, b : a + Len(b[1]) + 1, 0, binders)
    IN  IF psk[2] # "PreSharedKeyExtension" THEN Raises("ValueError")
        ELSE Onto(Write(ClientHello.write, hello), LAMBDA w :
                 Bytes(SubSeq(w, 1, Len(w) - length)))

\* The hello in the format of SSL 2: lengths of suites, session ID and
\* challenge, then these.  parse() fills the challenge up to a random.
ClientHelloSSL2 ==
    [type |-> 1, parse |-> Version \o <<Parts(<<3, 1, 1>>)>>,
     write |-> Version \o <<Parts(<<3, 1, 1>>)>>]
Filled(v) ==
    [v EXCEPT ![3][3] = IF Len(@) < 32 THEN Zeros(32 - Len(@)) \o @ ELSE @]

HelloRequest == HandshakeMsg(0, <<>>, <<>>)

ServerHello ==
    HandshakeMsg(2,
        Version \o <<Fix(32), Var(1), Uint(2), Uint(1),
                     Opt(Case(3, {HRR}, ExtensionList("hrr"),
                                        ExtensionList("server")))>>,
        Version \o <<Rest, Var(1), Uint(2), Uint(1),
                     Opt(ExtensionList("server"))>>)

ServerHello2 ==
    [type |-> 4,
     parse |-> <<Uint(1), Uint(1), Uint(1), Uint(1), Parts(<<1, 3, 1>>)>>,
     write |-> <<Uint(1), Uint(1), Uint(1), Uint(1), Parts(<<1, 3, 1>>)>>]

EncryptedExtensions ==
    HandshakeMsg(8, <<NeedOr("SyntaxError"), ExtensionList("universal")>>,
                    <<ExtensionList("universal")>>)

-------------------------------------------------------------------------------
\* Certificates and signatures.

CertificateEntry ==
    [parse |-> <<Der(Var(3), "SyntaxError"), ExtensionList("cert")>>,
     write |-> <<Var(3), Opt(ExtensionList("cert"))>>]

\* An empty certificate raises DecodeError, a bad one BadCertificateError.
Certificate12 ==
    HandshakeMsg(11,
        <<Items(3, <<Der(Lim(Var(3), 1, 256 ^ 3), "BadCertificateError")>>)>>,
        <<Items(3, <<Var(3)>>)>>)
Certificate13 ==
    HandshakeMsg(11, <<Var(1), Items(3, CertificateEntry.parse)>>,
                     <<Var(1), Items(3, CertificateEntry.write)>>)
Certificate(version) == IF version <= 3 THEN Certificate12 ELSE Certificate13

CompressedCertificate(send, receive) ==
    HandshakeMsg(25,
        <<Packed(<<Var(1), Items(3, CertificateEntry.parse)>>, send, receive)>>,
        <<Packed(<<Var(1), Items(3, CertificateEntry.write)>>, send, receive)>>)

CertificateRequest12(version) ==
    HandshakeMsg(13,
        <<List(1, 1)>> \o (IF version = 3 THEN <<Tuples(1, 2, 2)>> ELSE <<>>)
                       \o <<Items(2, <<Var(2)>>)>>,
        <<List(1, 1)>> \o (IF version >= 3 THEN <<Tuples(1, 2, 2)>> ELSE <<>>)
                       \o <<Items(2, <<Var(2)>>)>>)
CertificateRequest13 ==
    HandshakeMsg(13,
        <<Var(1), NeedOr("SyntaxError"), ExtensionList("universal")>>,
        <<Var(1), ExtensionList("universal")>>)
CertificateRequest(version) ==
    IF version <= 3 THEN CertificateRequest12(version) ELSE CertificateRequest13

CertificateVerify(version) ==
    LET layout == (IF version >= 3 THEN <<Uint(1), Uint(1)>> ELSE <<>>) \o <<Var(2)>>
    IN  HandshakeMsg(15, layout, layout)

CertificateStatus == HandshakeMsg(22, <<Uint(1), Var(3)>>, <<Uint(1), Var(3)>>)

-------------------------------------------------------------------------------
\* The exchange of keys.  A family of suites is the set of the lists of
\* constants.py it belongs to.

Params(family) ==
    CASE "srpAllSuites" \in family  -> <<Var(2), Var(2), Var(1), Var(2)>>
      [] "dhAllSuites" \in family   -> <<Var(2), Var(2), Var(2)>>
      [] "ecdhAllSuites" \in family ->
            <<Only(Uint(1), {3}, "AssertionError"), Uint(2), Var(1)>>

Signed(family) ==
    family \cap {"certAllSuites", "ecdheEcdsaSuites", "dheDsaSuites"} # {}

\* Numbers keep the length they came with.
ServerKeyExchange(family, version) ==
    LET Signature(alg) == IF ~ Signed(family) THEN <<>>
                          ELSE (IF version = 3 THEN <<alg, alg>> ELSE <<>>) \o <<Var(2)>>
    IN  HandshakeMsg(12,
            Params(family) \o Signature(Uint(1)),
            Params(family) \o Signature(Only(Uint(1), 1..255, "AssertionError")))

ServerHelloDone == HandshakeMsg(14, <<>>, <<>>)

ClientKeyExchange(family, version) ==
    LET key == CASE "srpAllSuites" \in family -> Num(Var(2))
                 [] "certSuites" \in family   -> IF version = 0 THEN Rest ELSE Var(2)
                 [] "dhAllSuites" \in family  -> Num(Lim(Var(2), 1, 256 ^ 2))
                 [] "ecdhAllSuites" \in family -> Var(1)
        written == IF "dhAllSuites" \in family THEN Num(Var(2)) ELSE key
    IN  HandshakeMsg(16, <<key>>, <<written>>)

ClientMasterKey ==
    [type |-> 2, parse |-> <<Fix(3), Parts(<<1, 1, 1>>)>>,
     write |-> <<Fix(3), Parts(<<1, 1, 1>>)>>]

NextProtocol == HandshakeMsg(67, <<Var(1), Drop(Var(1))>>, <<Var(1), Pad>>)

VerifyDataLength(version) ==
    CASE version = 0    -> 36
      [] version \in 1..3 -> 12
      [] version > 3    -> HashLength
Finished(version) == HandshakeMsg(20, <<Fix(VerifyDataLength(version))>>, <<Rest>>)

SSL2Finished(type) == [type |-> type, parse |-> <<Rest>>, write |-> <<Rest>>]

KeyUpdate == HandshakeMsg(24, <<Uint(1)>>, <<Uint(1)>>)

-------------------------------------------------------------------------------
\* Tickets.

NewSessionTicket ==
    LET layout == <<Fix(4), Fix(4), Var(1), Var(2), ExtensionList("universal")>>
    IN  HandshakeMsg(4, layout, layout)
NewSessionTicket1_0 == HandshakeMsg(4, <<Fix(4), Var(2)>>, <<Fix(4), Var(2)>>)

\* What a ticket seals: version, master secret, protocol version, suite,
\* nonce, time, from version 1 the client's certificates, from version 2
\* encrypt-then-MAC, extended master secret and the server's name.
SessionTicketPayload ==
    LET Since(version, f) == Case(1, version..2, f, Grp(<<>>))
    IN  Message(
          <<Only(Uint(2), 0..2, "ValueError"), Var(2)>> \o Version
            \o <<Uint(2), Var(1), Fix(8),
                 Since(1, Items(3, CertificateEntry.parse)),
                 Since(2, Grp(<<Bool, Bool, Var(2)>>)), EndOr("ValueError")>>,
          <<Uint(2), Var(2)>> \o Version
            \o <<Uint(2), Var(1), Fix(8),
                 Since(1, Items(3, CertificateEntry.write)),
                 Since(2, Grp(<<Bool, Bool, Var(2)>>))>>)

-------------------------------------------------------------------------------
\* _getMsg(): the class for a handshake message of the given type, at an end
\* that has negotiated the version, the family of suites or none (None), and
\* the length of the hash.  A type nobody handles raises AssertionError.
Dispatch(type, version, family) ==
    CASE type = 1  -> ClientHello
      [] type = 2  -> ServerHello
      [] type = 11 -> Certificate(version)
      [] type = 25 -> CompressedCertificate(Compressors, Decompressors)
      [] type = 13 -> CertificateRequest(version)
      [] type = 15 -> CertificateVerify(version)
      [] type = 12 -> ServerKeyExchange(family, version)
      [] type = 14 -> ServerHelloDone
      [] type = 16 -> ClientKeyExchange(family, version)
      [] type = 20 -> Finished(version)
      [] type = 67 -> NextProtocol
      [] type = 8  -> EncryptedExtensions
      [] type = 4  -> IF version < 4 THEN NewSessionTicket1_0 ELSE NewSessionTicket
      [] type = 24 -> KeyUpdate
===============================================================================
