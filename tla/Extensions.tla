----------------------------- MODULE Extensions -------------------------------
(***************************************************************************)
(* The hello and certificate extensions of extensions.py: what parse()     *)
(* reads and what extData writes, class by class, and the tables by which  *)
(* TLSExtension.parse() picks the class.                                   *)
(***************************************************************************)
EXTENDS Codec

\* The type of the extension, the layout that parse() reads and the one that
\* extData writes.
Class(type, parse, write) == [type |-> type, parse |-> parse, write |-> write]

-------------------------------------------------------------------------------
\* The generic classes.

\* Any type without a class of its own, that of extended_master_secret here.
TLSExtension == Class(23, <<Rest>>, <<Rest>>)

VarBytesExtension(type, l) ==
    Class(type, <<Opt(Var(l)), End>>, <<Opt(Var(l))>>)

VarListExtension(type, w, l) ==
    Class(type, <<Opt(List(w, l)), End>>, <<Opt(List(w, l))>>)

VarSeqListExtension(type, w, k, l) ==
    Class(type, <<Opt(Tuples(w, k, l)), End>>, <<Opt(Tuples(w, k, l))>>)

IntExtension(type, n) ==
    Class(type, <<Opt(Uint(n)), End>>, <<Opt(Uint(n))>>)

\* parse() of some subclasses refuses the empty payload first.
NotEmpty(c) == [c EXCEPT !.parse = <<Need>> \o @]

-------------------------------------------------------------------------------
ServerName == <<Uint(1), Var(2)>>
SNIExtension ==
    Class(0, <<Opt(Items(2, ServerName)), End>>, <<Opt(Items(2, ServerName))>>)

StatusRequestExtension ==
    Class(5, <<Opt(Grp(<<Uint(1), Items(2, <<Var(2)>>), Var(2)>>)), End>>,
             <<Opt(Grp(<<Uint(1), Items(2, <<Var(2)>>), Var(2)>>))>>)

CertificateStatusExtension ==
    Class(5, <<Only(Uint(1), {1}, "DecodeError"), Var(3), End>>,
             <<Uint(1), Var(3)>>)

ClientCertTypeExtension == VarListExtension(9, 1, 1)
ServerCertTypeExtension == NotEmpty(IntExtension(9, 1))
SupportedGroupsExtension == VarListExtension(10, 2, 2)
ECPointFormatsExtension == VarListExtension(11, 1, 1)

\* The code does not look at what follows the identity.
SRPExtension == Class(12, <<Var(1)>>, <<Opt(Var(1))>>)

SignatureAlgorithmsExtension == VarSeqListExtension(13, 1, 2, 2)
HeartbeatExtension == NotEmpty(IntExtension(15, 1))

\* Mutant: what follows the list is not looked at.
ALPNUnchecked == Class(16, <<Items(2, <<Var(1)>>)>>, <<Opt(Items(2, <<Var(1)>>))>>)
ALPNExtension ==
    Class(16, <<Items(2, <<Var(1)>>), End>>, <<Opt(Items(2, <<Var(1)>>))>>)

PaddingExtension == Class(21, <<Rest>>, <<Rest>>)
CompressedCertificateExtension == VarListExtension(27, 2, 1)
RecordSizeLimitExtension == IntExtension(28, 2)
DelegatedCredentialExtension == VarSeqListExtension(34, 1, 2, 2)

\* valid_time, expected algorithm, public key, algorithm, signature.
DelegatedCredential ==
    <<Fix(4), Uint(1), Uint(1), Der(Var(3), "SyntaxError"),
      Uint(1), Uint(1), Var(2)>>
DelegatedCredentialCertExtension ==
    Class(34, DelegatedCredential,
              <<Fix(4), Uint(1), Uint(1), Var(3), Uint(1), Uint(1), Var(2)>>)

SessionTicketExtension == Class(35, <<Rest>>, <<Rest>>)

PskIdentity == <<Var(2), Fix(4)>>
PreSharedKeyExtension ==
    Class(41, <<Opt(Grp(<<Items(2, PskIdentity), Items(2, <<Var(1)>>)>>)), End>>,
              <<Opt(Grp(<<Items(2, PskIdentity), Items(2, <<Var(1)>>)>>))>>)
SrvPreSharedKeyExtension == IntExtension(41, 2)

SupportedVersionsExtension == VarSeqListExtension(43, 1, 2, 1)
SrvSupportedVersionsExtension ==
    Class(43, <<Uint(1), Uint(1), End>>, <<Uint(1), Uint(1)>>)

CookieExtension == VarBytesExtension(44, 2)
PskKeyExchangeModesExtension == VarListExtension(45, 1, 1)
SignatureAlgorithmsCertExtension == VarSeqListExtension(50, 1, 2, 2)

KeyShareEntry == <<Uint(2), Var(2)>>
\* An empty payload is read as no list of shares, which cannot be written.
ClientKeyShareExtension ==
    Class(51, <<Opt(Items(2, KeyShareEntry)), End>>, <<Items(2, KeyShareEntry)>>)
ServerKeyShareExtension ==
    Class(51, <<Opt(Grp(KeyShareEntry)), End>>, <<Opt(Grp(KeyShareEntry))>>)
HRRKeyShareExtension == Class(51, <<Uint(2), End>>, <<Opt(Uint(2))>>)

TACK == <<Fix(64), Uint(1), Uint(1), Fix(4), Fix(32), Fix(64)>>
TACKExtension == Class(62208, <<Items(2, TACK), Uint(1)>>, <<Items(2, TACK), Uint(1)>>)

NPNExtension == Class(13172, <<Loop(<<Var(1)>>)>>, <<Opt(Loop(<<Var(1)>>))>>)
RenegotiationInfoExtension == VarBytesExtension(65281, 1)

-------------------------------------------------------------------------------
Layouts ==
    [TLSExtension |-> TLSExtension,
     SNIExtension |-> SNIExtension,
     StatusRequestExtension |-> StatusRequestExtension,
     CertificateStatusExtension |-> CertificateStatusExtension,
     ClientCertTypeExtension |-> ClientCertTypeExtension,
     ServerCertTypeExtension |-> ServerCertTypeExtension,
     SupportedGroupsExtension |-> SupportedGroupsExtension,
     ECPointFormatsExtension |-> ECPointFormatsExtension,
     SRPExtension |-> SRPExtension,
     SignatureAlgorithmsExtension |-> SignatureAlgorithmsExtension,
     HeartbeatExtension |-> HeartbeatExtension,
     ALPNExtension |-> ALPNExtension,
     PaddingExtension |-> PaddingExtension,
     CompressedCertificateExtension |-> CompressedCertificateExtension,
     RecordSizeLimitExtension |-> RecordSizeLimitExtension,
     DelegatedCredentialExtension |-> DelegatedCredentialExtension,
     DelegatedCredentialCertExtension |-> DelegatedCredentialCertExtension,
     SessionTicketExtension |-> SessionTicketExtension,
     PreSharedKeyExtension |-> PreSharedKeyExtension,
     SrvPreSharedKeyExtension |-> SrvPreSharedKeyExtension,
     SupportedVersionsExtension |-> SupportedVersionsExtension,
     SrvSupportedVersionsExtension |-> SrvSupportedVersionsExtension,
     CookieExtension |-> CookieExtension,
     PskKeyExchangeModesExtension |-> PskKeyExchangeModesExtension,
     SignatureAlgorithmsCertExtension |-> SignatureAlgorithmsCertExtension,
     ClientKeyShareExtension |-> ClientKeyShareExtension,
     ServerKeyShareExtension |-> ServerKeyShareExtension,
     HRRKeyShareExtension |-> HRRKeyShareExtension,
     TACKExtension |-> TACKExtension,
     NPNExtension |-> NPNExtension,
     RenegotiationInfoExtension |-> RenegotiationInfoExtension]

\* The tables: the class for each type, in the given classes.
Registered(classes) ==
    [t \in {Layouts[c].type : c \in classes} |->
        CHOOSE c \in classes : Layouts[c].type = t]

_universalExtensions ==
    Registered({"SNIExtension", "StatusRequestExtension",
        "ClientCertTypeExtension", "SupportedGroupsExtension",
        "ECPointFormatsExtension", "SRPExtension",
        "SignatureAlgorithmsExtension", "ALPNExtension", "NPNExtension",
        "PaddingExtension", "RenegotiationInfoExtension", "HeartbeatExtension",
        "SupportedVersionsExtension", "ClientKeyShareExtension",
        "SignatureAlgorithmsCertExtension", "PreSharedKeyExtension",
        "PskKeyExchangeModesExtension", "CookieExtension",
        "RecordSizeLimitExtension", "SessionTicketExtension",
        "CompressedCertificateExtension", "DelegatedCredentialExtension"})
_serverExtensions ==
    Registered({"ServerCertTypeExtension", "TACKExtension",
        "ServerKeyShareExtension", "SrvSupportedVersionsExtension",
        "SrvPreSharedKeyExtension"})
_certificateExtensions ==
    Registered({"CertificateStatusExtension", "DelegatedCredentialCertExtension"})
_hrrExtensions ==
    Registered({"HRRKeyShareExtension", "SrvSupportedVersionsExtension"})

\* TLSExtension(server=...).parse() looks into the table of its kind first and
\* into the universal one then; @@ prefers its left side.
\* Mutant: the universal table first.
TablesUniversalFirst ==
    [universal |-> _universalExtensions,
     server |-> _universalExtensions @@ _serverExtensions,
     cert |-> _universalExtensions @@ _certificateExtensions,
     hrr |-> _universalExtensions @@ _hrrExtensions]
Tables ==
    [universal |-> _universalExtensions,
     server |-> _serverExtensions @@ _universalExtensions,
     cert |-> _certificateExtensions @@ _universalExtensions,
     hrr |-> _hrrExtensions @@ _universalExtensions]

Extension(kind) == Ext(Tables[kind], Layouts)
===============================================================================
