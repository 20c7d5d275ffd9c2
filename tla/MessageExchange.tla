--------------------------- MODULE MessageExchange ----------------------------
(***************************************************************************)
(* One end writes a message, the way to the other end may change it, the   *)
(* other end reads what arrives.  The defragmenter cuts the stream into    *)
(* messages by their own length, and so the outer length always fits; all  *)
(* the inner ones may be wrong.                                            *)
(***************************************************************************)
EXTENDS Messages

CONSTANT Samples   \* the messages that may be written, a sequence

\* Descriptions of samples.  A handshake message is read by an end that has
\* negotiated version and family; an extension is read in a hello or
\* certificate of the given kind; anything else by its own class (an untyped one
\* is a handshake message that _getMsg() does not know).
Handshake(name, class, value, version, family) ==
    [name |-> name, sort |-> "handshake", class |-> class, value |-> <<value>>,
     version |-> version, family |-> family, header |-> 4, sizeAt |-> 2]
InHello(kind, class, value) ==
    [name |-> class, sort |-> "extension", kind |-> kind, class |-> class,
     value |-> <<<<Layouts[class].type, class, value>>>>, header |-> 4, sizeAt |-> 3]
Untyped(name, class, value) ==
    [name |-> name, sort |-> "untyped", class |-> class, value |-> <<value>>,
     header |-> 3, sizeAt |-> 1]
Sized(name, class, value) ==
    [name |-> name, sort |-> "sized", class |-> class, value |-> value]
Plain(name, class, value) ==
    [name |-> name, sort |-> "plain", class |-> class, value |-> value]

VARIABLES
    sent,   \* the message written, None before
    wire,   \* what was written, [ok, bytes] or the exception
    hurt,   \* the bytes were changed on the way
    got     \* what the reader made of it, None before

vars == <<sent, wire, hurt, got>>

-------------------------------------------------------------------------------
WriteLayoutOf(s) ==
    IF s.sort = "extension" THEN <<Extension(s.kind)>> ELSE s.class.write

Written(s, v) ==
    Joined(<<Bytes(IF s.sort = "handshake" THEN <<s.class.type>> ELSE <<>>),
             Write(WriteLayoutOf(s), v)>>)

ReadLayoutOf(s, b) ==
    CASE s.sort = "handshake" -> Dispatch(b[1], s.version, s.family).parse
      [] s.sort = "extension" -> <<Extension(s.kind)>>
      [] OTHER -> s.class.parse

ReadBack(s, b) ==
    Then(Read(ReadLayoutOf(s, b), IF s.sort = "handshake" THEN Tail(b) ELSE b),
         LAMBDA v, rest :
             Ok(IF s.name = "ClientHelloSSL2" THEN Filled(v) ELSE v, rest))

\* The bytes with the length in the header made to fit again.
Refit(s, b) ==
    IF s.sort = "plain" THEN b
    ELSE LET body == Len(b) - s.header
             size == Digits(body, s.header + 1 - s.sizeAt)
         IN  SubSeq(b, 1, s.sizeAt - 1) \o size
                 \o SubSeq(b, s.header + 1, Len(b))

\* One byte changed up or down, the end cut off, a byte more.
Damaged(s, b) ==
    LET first == IF s.sort \in {"sized", "plain"} THEN 1 ELSE s.header + 1
    IN  {[b EXCEPT ![i] = (b[i] + d) % 256] : i \in first..Len(b), d \in {1, 255}}
        \cup (IF s.sort = "sized" THEN {}
              ELSE {Refit(s, SubSeq(b, 1, n)) : n \in (first - 1)..(Len(b) - 1)}
                   \cup {Refit(s, Append(b, x)) : x \in {0, 1}})

-------------------------------------------------------------------------------
Init ==
    /\ sent = None /\ wire = None /\ hurt = FALSE /\ got = None

Send(i) ==
    /\ sent = None
    /\ sent' = Samples[i]
    /\ wire' = Written(sent', sent'.value)
    /\ UNCHANGED <<hurt, got>>

Damage ==
    /\ sent # None /\ wire.ok /\ ~ hurt /\ got = None
    /\ \E b \in Damaged(sent, wire.bytes) : wire' = Bytes(b)
    /\ hurt' = TRUE
    /\ UNCHANGED <<sent, got>>

Receive ==
    /\ sent # None /\ wire.ok /\ got = None
    /\ got' = ReadBack(sent, wire.bytes)
    /\ UNCHANGED <<sent, wire, hurt>>

Next == (\E i \in 1..Len(Samples) : Send(i)) \/ Damage \/ Receive

Spec == Init /\ [][Next]_vars

-------------------------------------------------------------------------------
Meant == IF sent.name = "ClientHelloSSL2" THEN Filled(sent.value) ELSE sent.value
Arrived == got # None

\* What _getMsg() has no handler for.  A key exchange whose curve is not a named
\* one is met with an assertion.  A certificate compressed with an algorithm for
\* which only a decompressor is installed, as is the case of Brotli where there is
\* but the bundled one, is compressed again when all has been read; an end that
\* could do so would accept it, this one raises ValueError.
Overlooked ==
    \/ /\ sent.name = "ServerKeyExchange" /\ "ecdhAllSuites" \in sent.family
       /\ Len(wire.bytes) > sent.header /\ wire.bytes[sent.header + 1] # 3
    \/ /\ sent.name = "CompressedCertificate"
       /\ LET r == Read(CompressedCertificate(Decompressors, Decompressors).parse,
                        Tail(wire.bytes))
          IN  r.ok /\ r.val[1][1][1] \notin Compressors

\* The two ends mean the same by a message: what write() of the class the
\* sender uses puts on the wire, parse() of the class _getMsg() and
\* TLSExtension.parse() pick turns into the same fields.  A field too long for
\* its length is not written at all.
ReadAsMeant ==
    Arrived /\ ~ hurt /\ ~ Overlooked => got.ok /\ got.val = Meant

\* Classes whose parse() forgets part of what it reads: bytes at the end, the
\* padding, leading zeros of a number, the encoding of a Boolean, the level of
\* a compression; and the key shares that cannot be written when empty.
Forgetful ==
    {"SRPExtension", "TACKExtension", "DelegatedCredentialCertExtension",
     "ClientKeyShareExtension", "NextProtocol", "ClientKeyExchange",
     "SessionTicketPayload", "CompressedCertificate", "ClientHelloSSL2",
     "ServerHello2", "ClientMasterKey"}

\* Whatever arrives, a message that is accepted is written again byte for byte:
\* the code hashes or signs the written form of hellos with pre-shared keys
\* (psk_truncate), of key exchanges (ServerKeyExchange.hash) and of certificate
\* messages after the handshake, and the peer the form it sent.
WrittenAsRead ==
    Arrived /\ got.ok /\ sent.name \notin Forgetful => Written(sent, got.val) = wire

\* Whatever arrives, what is not accepted is refused with an alert, unless it is
\* one of the two kinds of messages that are overlooked, which never are: the
\* handlers at the end of _getMsg() know these exceptions and no other.  (A
\* ticket is not a message: _getMsg() does not read it.)
Alerts ==
    {"DecodeError", "SyntaxError", "BadCertificateError", "TLSIllegalParameterException"}
RefusedWithAlert ==
    Arrived /\ ~ got.ok /\ sent.name # "SessionTicketPayload" =>
        (got.err \in Alerts <=> ~ Overlooked)

HasBinders(v) ==
    LET exts == v[1][7]
    IN  exts # None /\ exts # <<>> /\ exts[Len(exts)][1][2] = "PreSharedKeyExtension"
           /\ exts[Len(exts)][1][3] # <<None>>

\* The hello without the contents of its binders.
Erased(v) ==
    [v EXCEPT ![1][7][Len(v[1][7])][1][3][1][2] = None]

\* A binder covers all of a hello but the binders: what psk_truncate() leaves is
\* the same for the client and the server exactly if nothing but the contents
\* of binders changed on the way.  (That nothing did is the usual case.)
BindersCoverHello ==
    Arrived /\ got.ok /\ sent.name = "ClientHello" =>
        (HasBinders(sent.value) /\ HasBinders(got.val) =>
            (Truncated(got.val) = Truncated(sent.value)
                <=> /\ Erased(got.val) = Erased(sent.value)
                    /\ Len(wire.bytes) = Len(Written(sent, sent.value).bytes)))

===============================================================================
