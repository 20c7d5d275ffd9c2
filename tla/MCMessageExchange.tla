-------------------------- MODULE MCMessageExchange ---------------------------
(***************************************************************************)
(* Samples of every message and extension class: usual ones, empty ones,   *)
(* and ones with a field that is too long for its length.  The reader has  *)
(* only a decompressor for algorithm 2, the sender has both.               *)
(***************************************************************************)
EXTENDS MessageExchange

R32 == [i \in 1..32 |-> i]
MCHRR == [i \in 1..32 |-> 200]
Long(n) == [i \in 1..n |-> 7]
Key == <<48, 5>>
Tack == <<Long(64), 1, 2, <<0, 0, 0, 3>>, Long(32), Long(64)>>

Universal == <<
    <<"TLSExtension", <<<<1, 2>>>>>>,
    <<"SNIExtension", <<None>>>>,
    <<"SNIExtension", <<<< <<0, <<97, 98>>>>, <<0, <<99>>>> >>>>>>,
    <<"StatusRequestExtension", <<None>>>>,
    <<"StatusRequestExtension", <<<<1, <<<<<<9>>>>>>, <<3>>>>>>>>,
    <<"ClientCertTypeExtension", <<<<0, 1>>>>>>,
    <<"SupportedGroupsExtension", <<<<29, 23>>>>>>,
    <<"SupportedGroupsExtension", <<<<>>>>>>,
    <<"ECPointFormatsExtension", <<<<0>>>>>>,
    <<"SRPExtension", <<<<97>>>>>>,
    <<"SRPExtension", <<Long(256)>>>>,
    <<"SignatureAlgorithmsExtension", <<<<<<4, 3>>, <<8, 7>>>>>>>>,
    <<"ALPNExtension", <<<<<<<<104, 50>>>>, <<<<104>>>>>>>>>>,
    <<"ALPNExtension", <<<<<<Long(256)>>>>>>>>,
    <<"NPNExtension", <<<<<<<<104, 50>>>>, <<<<104>>>>>>>>>>,
    <<"PaddingExtension", <<Zeros(3)>>>>,
    <<"RenegotiationInfoExtension", <<<<>>>>>>,
    <<"RenegotiationInfoExtension", <<<<1, 2>>>>>>,
    <<"HeartbeatExtension", <<1>>>>,
    <<"SupportedVersionsExtension", <<<<<<3, 4>>, <<3, 3>>>>>>>>,
    <<"ClientKeyShareExtension", <<<<<<29, <<5, 6>>>>, <<23, <<7>>>>>>>>>>,
    <<"SignatureAlgorithmsCertExtension", <<<<<<4, 3>>>>>>>>,
    <<"PreSharedKeyExtension", <<None>>>>,
    <<"PreSharedKeyExtension",
      <<<<<<<<<<1, 2>>, Zeros(4)>>, <<<<3>>, Zeros(4)>>>>, <<<<<<8, 9>>>>, <<<<7>>>>>>>>>>>>,
    <<"PskKeyExchangeModesExtension", <<<<1, 0>>>>>>,
    <<"CookieExtension", <<<<1, 2, 3>>>>>>,
    <<"RecordSizeLimitExtension", <<16385>>>>,
    <<"RecordSizeLimitExtension", <<65536>>>>,
    <<"SessionTicketExtension", <<<<>>>>>>,
    <<"SessionTicketExtension", <<<<4, 5>>>>>>,
    <<"CompressedCertificateExtension", <<<<1, 2>>>>>>,
    <<"DelegatedCredentialExtension", <<<<<<8, 7>>>>>>>> >>
ServerOnly == <<
    <<"ServerCertTypeExtension", <<0>>>>,
    <<"TACKExtension", <<<<Tack>>, 1>>>>,
    <<"ServerKeyShareExtension", <<<<29, <<5, 6>>>>>>>>,
    <<"SrvSupportedVersionsExtension", <<3, 4>>>>,
    <<"SrvPreSharedKeyExtension", <<1>>>> >>
InCertificate == <<
    <<"CertificateStatusExtension", <<1, <<4, 4>>>>>>,
    <<"DelegatedCredentialCertExtension",
      <<Zeros(4), 8, 7, Key, 8, 7, <<1, 2>>>>>> >>
InRetry == <<
    <<"HRRKeyShareExtension", <<23>>>>,
    <<"SrvSupportedVersionsExtension", <<3, 4>>>>,
    <<"CookieExtension", <<<<1, 2>>>>>> >>

All(kind, list) == [i \in 1..Len(list) |-> InHello(kind, list[i][1], list[i][2])]

\* An extension as an entry of a list.
In(c, fields) == <<<<Layouts[c].type, c, fields>>>>

Hello(sid, exts) == <<3, 3, R32, sid, <<4865, 47>>, <<0>>, exts>>
Hellos == <<
    Hello(<<>>, None),
    Hello(Long(2), <<>>),
    Hello(Long(32), <<In("SNIExtension", <<<<<<0, <<97>>>>>>>>),
                      In("SupportedVersionsExtension", <<<<<<3, 4>>>>>>),
                      <<<<23, "TLSExtension", <<<<>>>>>>>>,
                      In("ClientKeyShareExtension", <<<<<<29, <<5, 6>>>>>>>>)>>),
    Hello(<<>>, <<In("PskKeyExchangeModesExtension", <<<<1>>>>),
                  In("PreSharedKeyExtension",
                     <<<<<<<<<<1, 2>>, Zeros(4)>>, <<<<3>>, Zeros(4)>>>>,
                         <<<<<<8, 9, 10>>>>, <<<<7>>>>>>>>>>)>>) >>
ServerHellos == <<
    <<3, 3, R32, <<1>>, 47, 0, None>>,
    <<3, 3, R32, <<>>, 4865, 0, <<In("SrvSupportedVersionsExtension", <<3, 4>>),
                                  In("ServerKeyShareExtension", <<<<29, <<5>>>>>>),
                                  In("SrvPreSharedKeyExtension", <<0>>)>>>>,
    <<3, 3, MCHRR, <<>>, 4865, 0, <<In("SrvSupportedVersionsExtension", <<3, 4>>),
                                    In("HRRKeyShareExtension", <<23>>),
                                    In("CookieExtension", <<<<1>>>>)>>>> >>

Srp == {"srpAllSuites", "certAllSuites"}
DhAnon == {"dhAllSuites", "dhAnonSuites"}
DheDsa == {"dhAllSuites", "dheDsaSuites"}
Ecdhe == {"ecdhAllSuites", "certAllSuites"}
Rsa == {"certSuites", "certAllSuites"}

SKE(value, version, family) ==
    Handshake("ServerKeyExchange", ServerKeyExchange(family, version),
              value, version, family)
CKE(name, value, version, family) ==
    Handshake(name, ClientKeyExchange(family, version), value, version, family)
H(name, class, value, version) == Handshake(name, class, value, version, None)


Entries == <<<<Key, <<In("CertificateStatusExtension", <<1, <<4>>>>)>>>>, <<Key, <<>>>>>>

Handshakes ==
    [i \in 1..Len(Hellos) |-> H("ClientHello", ClientHello, Hellos[i], 0)]
    \o [i \in 1..Len(ServerHellos) |-> H("ServerHello", ServerHello, ServerHellos[i], 0)]
    \o <<
    H("EncryptedExtensions", EncryptedExtensions, <<<<>>>>, 4),
    H("EncryptedExtensions", EncryptedExtensions,
      <<<<In("ALPNExtension", <<<<<<<<104>>>>>>>>)>>>>, 4),
    H("Certificate", Certificate12, <<<<>>>>, 3),
    H("Certificate", Certificate12, <<<<<<Key>>, <<Key>>>>>>, 0),
    H("Certificate", Certificate13, <<<<>>, <<>>>>, 4),
    H("Certificate", Certificate13, <<<<1>>, Entries>>, 4),
    H("CompressedCertificate", CompressedCertificate({1}, {1}), <<<<1, <<<<>>, Entries>>>>>>, 4),
    H("CompressedCertificate", CompressedCertificate({1, 2}, {1, 2}),
      <<<<2, <<<<>>, Entries>>>>>>, 4),
    H("CertificateRequest", CertificateRequest12(2), <<<<1, 64>>, <<<<<<1>>>>>>>>, 2),
    H("CertificateRequest", CertificateRequest12(3),
      <<<<1>>, <<<<4, 3>>>>, <<<<<<1>>>>, <<<<2, 3>>>>>>>>, 3),
    H("CertificateRequest", CertificateRequest13,
      <<<<7>>, <<In("SupportedGroupsExtension", <<<<29>>>>)>>>>, 4),
    H("CertificateVerify", CertificateVerify(2), <<<<1, 2>>>>, 2),
    H("CertificateVerify", CertificateVerify(4), <<8, 7, <<1, 2>>>>, 4),
    SKE(<<<<5>>, <<2>>, <<1, 1>>, <<0, 3>>, 4, 3, <<9>>>>, 3, Srp),
    SKE(<<<<5>>, <<2>>, <<3>>>>, 3, DhAnon),
    SKE(<<<<5>>, <<2>>, <<3>>, <<9>>>>, 1, DheDsa),
    SKE(<<3, 23, <<4, 1>>, 4, 3, <<9>>>>, 3, Ecdhe),
    SKE(<<3, 23, Long(256), 4, 3, <<9>>>>, 3, Ecdhe),
    H("ServerHelloDone", ServerHelloDone, <<>>, 3),
    CKE("ClientKeyExchange", <<<<5, 1>>>>, 3, Srp),
    CKE("ClientKeyExchange", <<<<5, 1>>>>, 3, DhAnon),
    CKE("ClientKeyExchangeRSA", <<<<0, 1>>>>, 3, Rsa),
    CKE("ClientKeyExchangeRSA", <<<<0, 1>>>>, 0, Rsa),
    CKE("ClientKeyExchangeECDH", <<<<4, 1>>>>, 3, Ecdhe),
    H("NextProtocol", NextProtocol, <<<<104, 50>>>>, 3),
    H("NextProtocol", NextProtocol, <<Long(30)>>, 3),
    H("Finished", Finished(0), <<Long(36)>>, 0),
    H("Finished", Finished(3), <<Long(12)>>, 3),
    H("Finished", Finished(4), <<Long(HashLength)>>, 4),
    H("KeyUpdate", KeyUpdate, <<1>>, 4),
    H("NewSessionTicket", NewSessionTicket1_0, <<Zeros(4), <<5, 6>>>>, 3),
    H("NewSessionTicket", NewSessionTicket, <<Zeros(4), Zeros(4), <<1>>, <<2>>, <<>>>>, 4)
    >>

Others == <<
    Sized("RecordHeader3", RecordHeader3, <<22, 3, 3, 5>>),
    Sized("RecordHeader3", RecordHeader3, <<22, 3, 3, 65536>>),
    Sized("Alert", Alert, <<2, 40>>),
    Plain("ChangeCipherSpec", ChangeCipherSpec, <<1>>),
    Plain("ApplicationData", ApplicationData, <<<<1, 2>>>>),
    Plain("Heartbeat", Heartbeat, <<1, <<5, 6>>, Long(16)>>),
    Untyped("CertificateStatus", CertificateStatus, <<1, <<5, 6>>>>),
    Untyped("HelloRequest", HelloRequest, <<>>),
    Plain("ClientHelloSSL2", ClientHelloSSL2, <<0, 2, <<<<65664, 5>>, <<1>>, Long(16)>>>>),
    Plain("ServerHello2", ServerHello2, <<0, 1, 0, 2, <<Key, <<65664>>, <<1>>>>>>),
    Plain("ClientMasterKey", ClientMasterKey, <<<<1, 0, 128>>, <<<<1>>, <<2, 3>>, <<>>>>>>),
    Plain("SSL2Finished", SSL2Finished(3), <<Long(3)>>),
    Plain("SessionTicketPayload", SessionTicketPayload,
          <<0, <<1, 2>>, 3, 4, 4865, <<5>>, Zeros(8), <<>>, <<>>>>),
    Plain("SessionTicketPayload", SessionTicketPayload,
          <<1, <<1, 2>>, 3, 4, 4865, <<5>>, Zeros(8), Entries, <<>>>>),
    Plain("SessionTicketPayload", SessionTicketPayload,
          <<2, <<1, 2>>, 3, 3, 47, <<>>, Zeros(8), <<>>, <<TRUE, FALSE, <<97>>>>>>) >>

AllSamples ==
    All("universal", Universal) \o All("server", ServerOnly)
    \o All("cert", InCertificate) \o All("hrr", InRetry)
    \o Handshakes \o Others

===============================================================================
