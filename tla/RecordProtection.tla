-------------------------- MODULE RecordProtection --------------------------
(***************************************************************************)
(* What recordlayer.py does to the payload of one record on its way out    *)
(* and on its way in, for every kind of protection: none, a stream cipher, *)
(* a block cipher with the MAC under or over the encryption, an AEAD       *)
(* cipher, and SSLv2.                                                      *)
(*                                                                         *)
(* Bytes are symbolic: a byte is a tuple whose first element is the name   *)
(* of its kind.  A cipher wraps every byte with its place in the key       *)
(* stream or chain, which goes on from record to record; a MAC and a tag   *)
(* carry all they authenticate; a byte that does not decrypt is junk.      *)
(* Lengths are those of the code, so padding and limits can go wrong.      *)
(***************************************************************************)
EXTENDS Naturals, Sequences, FiniteSets

CONSTANTS
    BlockLength,    \* bytes in a cipher block
    MacLength,      \* bytes in a MAC
    TagLength,      \* bytes in the tag of an AEAD cipher
    NonceLength     \* bytes of the nonce that AES-GCM sends before TLS 1.3

ASSUME LengthAssumption ==
    {BlockLength, MacLength, TagLength, NonceLength} \subseteq Nat \ {0}

SSLv2 == 20
SSLv3 == 30
TLS10 == 31
TLS11 == 32
TLS12 == 33
TLS13 == 34

ContentTypes == {"ccs", "alert", "handshake", "app"}

\* A ConnectionState: the kind of protection, the version, the sequence
\* number and how far the cipher has run.
NoKeys(version) ==
    [kind |-> "none", gcm |-> FALSE, version |-> version,
     seqnum |-> 0, run |-> 0]

Keyed(mode) ==
    [kind |-> mode.kind, gcm |-> mode.gcm, version |-> mode.version,
     seqnum |-> 0, run |-> 0]

isCBCMode(state) == state.kind \in {"cbc", "etm", "ssl2"}

---------------------------------------------------------------------------
(* Parts that both directions use.                                         *)

CutTo(s, n) == SubSeq(s, 1, n)
After(s, n) == SubSeq(s, n + 1, Len(s))

\* Where in the key stream or chain a record begins.  With an explicit IV the
\* chain of the record before reaches no further than the IV.
ChainStart(state) ==
    IF isCBCMode(state) /\ state.version >= TLS11 THEN 0 ELSE state.run

encrypt(state, data) ==
    [i \in DOMAIN data |-> <<"enc", ChainStart(state) + i, data[i]>>]

decrypt(state, data) ==
    [i \in DOMAIN data |->
        IF data[i][1] = "enc" /\ data[i][2] = ChainStart(state) + i
        THEN data[i][3]
        ELSE <<"junk">>]

fixedIVBlock(version) ==
    IF version >= TLS11 THEN [i \in 1..BlockLength |-> <<"iv", i>>] ELSE <<>>

addPadding(data) ==
    LET length == BlockLength - 1 - (Len(data) % BlockLength)
    IN  data \o [i \in 1..length + 1 |-> <<"pad", length>>]

\* A mutant: the MAC of a record leaves its sequence number out.
MacWithoutCounter(state, contentType, data) ==
    [i \in 1..MacLength |-> <<"mac", i, contentType, state.version, data>>]

\* The MAC covers the sequence number, the type, the version (not in SSLv3)
\* and the data with its length.
calculateMAC(state, contentType, data) ==
    [i \in 1..MacLength |->
        <<"mac", i, state.seqnum, contentType,
          IF state.version = SSLv3 THEN 0 ELSE state.version, data>>]

\* The nonce of an AEAD cipher and what it authenticates besides the data.
Sealing(state, contentType, length) ==
    <<state.seqnum,
      IF state.version = TLS13
      THEN <<"app", TLS12, length + TagLength>>
      ELSE <<contentType, state.version, length>> >>

ssl2Mac(state, data) ==
    [i \in 1..MacLength |-> <<"mac", i, state.seqnum, "app", SSLv2, data>>]

---------------------------------------------------------------------------
(* Sending.                                                                *)

macThenEncrypt(state, contentType, data) ==
    LET withMac == data \o calculateMAC(state, contentType, data)
    IN  CASE state.kind = "none" -> data
          [] state.kind = "stream" -> encrypt(state, withMac)
          [] state.kind = "cbc" ->
               encrypt(state,
                       addPadding(fixedIVBlock(state.version) \o withMac))

encryptThenMAC(state, contentType, data) ==
    LET buf == encrypt(state, addPadding(fixedIVBlock(state.version) \o data))
    IN  buf \o calculateMAC(state, contentType, buf)

encryptThenSeal(state, contentType, data) ==
    LET sealing == Sealing(state, contentType, Len(data))
        sealed  == [i \in DOMAIN data |-> <<"sealed", state.seqnum, data[i]>>]
        tag     == [i \in 1..TagLength |-> <<"tag", i, sealing, data>>]
        nonce   == [i \in 1..NonceLength |-> <<"nonce", i, state.seqnum>>]
    IN  (IF state.gcm /\ state.version # TLS13 THEN nonce ELSE <<>>)
          \o sealed \o tag

\* The record and the number of padding bytes, which the header tells.
ssl2Padded(data) == addPadding(data)

ssl2Encrypt(state, data) ==
    encrypt(state, ssl2Mac(state, ssl2Padded(data)) \o ssl2Padded(data))

\* In TLS 1.3 the type is inside, followed by the zeros that padding_cb asks
\* for: `zeros' is what it would like, the code tells it how many fit.
InnerPlaintext(contentType, data, sendLimit, zeros) ==
    LET typed == Append(data, <<"type", contentType>>)
        room  == IF sendLimit > Len(typed) THEN sendLimit - Len(typed) - 1
                                           ELSE 0
        count == IF zeros < room THEN zeros ELSE room
    IN  typed \o [i \in 1..count |-> <<"zero">>]

Hidden(state, contentType) ==
    state.version = TLS13 /\ state.kind # "none" /\ contentType # "ccs"

\* The type and payload that sendRecord hands to the socket layer.
sendRecord(state, contentType, data, sendLimit, zeros) ==
    CASE Hidden(state, contentType) ->
           [type |-> "app",
            data |-> encryptThenSeal(state, "app",
                       InnerPlaintext(contentType, data, sendLimit, zeros))]
      [] state.version = SSLv2 ->
           [type |-> "ssl2", data |-> ssl2Encrypt(state, data)]
      [] state.version = TLS13 ->
           [type |-> contentType, data |-> data]
      [] state.version \notin {SSLv2, TLS13} /\ state.kind = "aead" ->
           [type |-> contentType,
            data |-> encryptThenSeal(state, contentType, data)]
      [] state.version \notin {SSLv2, TLS13} /\ state.kind = "etm" ->
           [type |-> contentType,
            data |-> encryptThenMAC(state, contentType, data)]
      [] OTHER ->
           [type |-> contentType,
            data |-> macThenEncrypt(state, contentType, data)]

\* The state after a record: a protected one has used a sequence number, and
\* the cipher has run over all the bytes it encrypted.
Moved(state, contentType, data) ==
    IF state.kind = "none" \/ (state.version = TLS13 /\ contentType = "ccs")
    THEN state
    ELSE [state EXCEPT
            !.seqnum = @ + 1,
            !.run = @ + Cardinality({i \in DOMAIN data :
                                        data[i][1] = "enc"})]

---------------------------------------------------------------------------
(* Receiving: the payload, or the name of the alert that is due.           *)

Good(data) == [error |-> "none", data |-> data]
Bad(alert) == [error |-> alert, data |-> <<>>]

decryptStreamThenMAC(state, contentType, buf) ==
    LET data == decrypt(state, buf)
        end  == Len(data) - MacLength
    IN  CASE state.kind = "none" -> Good(buf)
          [] state.kind # "none" /\ Len(data) < MacLength ->
               Bad("bad_record_mac")
          [] OTHER ->
               IF After(data, end)
                    = calculateMAC(state, contentType, CutTo(data, end))
               THEN Good(CutTo(data, end))
               ELSE Bad("bad_record_mac")

\* ct_check_cbc_mac_and_pad: the padding by its last byte (SSLv3 only bounds
\* it), then the MAC where the padding says that it is.
ct_check_cbc_mac_and_pad(state, contentType, data) ==
    /\ Len(data) >= MacLength + 1
    /\ data[Len(data)][1] = "pad"
    /\ LET pad_length == data[Len(data)][2]
           pad_start  == Len(data) - (pad_length + 1)
           mac_start  == pad_start - MacLength
       IN  /\ Len(data) >= pad_length + 1 + MacLength
           /\ IF state.version = SSLv3
              THEN pad_length <= BlockLength
              ELSE \A i \in pad_start + 1..Len(data) :
                        data[i] = <<"pad", pad_length>>
           /\ SubSeq(data, mac_start + 1, pad_start)
                = calculateMAC(state, contentType, CutTo(data, mac_start))

decryptThenMAC(state, contentType, buf) ==
    LET data == After(decrypt(state, buf), Len(fixedIVBlock(state.version)))
    IN  IF Len(buf) % BlockLength # 0
        THEN Bad("decryption_failed")
        ELSE IF ct_check_cbc_mac_and_pad(state, contentType, data)
        THEN Good(CutTo(data, Len(data)
                                - (data[Len(data)][2] + 1 + MacLength)))
        ELSE Bad("bad_record_mac")

PaddingGood(state, data) ==
    /\ data # <<>>
    /\ data[Len(data)][1] = "pad"
    /\ LET length == data[Len(data)][2]
       IN  /\ length + 1 <= Len(data)
           /\ state.version # SSLv3 =>
                \A i \in Len(data) - length..Len(data) :
                    data[i] = <<"pad", length>>

macThenDecrypt(state, contentType, buf) ==
    LET end  == Len(buf) - MacLength
        text == CutTo(buf, end)
        data == After(decrypt(state, text), Len(fixedIVBlock(state.version)))
    IN  CASE \/ Len(buf) < MacLength
             \/ After(buf, end) # calculateMAC(state, contentType, text) ->
               Bad("bad_record_mac")
          [] OTHER ->
               IF Len(text) % BlockLength # 0 THEN Bad("decryption_failed")
               ELSE IF PaddingGood(state, data)
               THEN Good(CutTo(data, Len(data) - (data[Len(data)][2] + 1)))
               ELSE Bad("bad_record_mac")

\* open: the tag must be the one of this nonce, these data and this header.
open(sealing, buf) ==
    LET end   == Len(buf) - TagLength
        data  == [i \in 1..end |-> buf[i][3]]
    IN  IF /\ \A i \in 1..end :
                /\ buf[i][1] = "sealed"
                /\ buf[i][2] = sealing[1]
           /\ \A i \in 1..TagLength :
                buf[end + i] = <<"tag", i, sealing, data>>
        THEN Good(data)
        ELSE Bad("bad_record_mac")

decryptAndUnseal(state, header, buf) ==
    LET explicit == state.gcm /\ state.version # TLS13
        skipped  == IF explicit THEN NonceLength ELSE 0
        rest     == After(buf, skipped)
        end      == Len(rest) - TagLength
        sealing  == Sealing(state, header.type, end)
    IN  CASE Len(buf) < skipped + TagLength -> Bad("bad_record_mac")
          [] Len(buf) >= skipped + TagLength ->
               IF state.version = TLS13 /\ header.type # "app"
               THEN Bad("unexpected_message")
               ELSE IF state.version = TLS13 /\ header.version # TLS12
               THEN Bad("illegal_parameter")
               ELSE IF /\ explicit
                       /\ CutTo(buf, skipped)
                            # [i \in 1..NonceLength |->
                                    <<"nonce", i, state.seqnum>>]
               THEN Bad("bad_record_mac")
               ELSE open(sealing, rest)

decryptSSL2(state, header, buf) ==
    LET plain == decrypt(state, buf)
        data  == After(plain, MacLength)
    IN  IF Len(buf) % BlockLength # 0 THEN Bad("decryption_failed")
        ELSE IF CutTo(plain, MacLength) # ssl2Mac(state, data)
        THEN Bad("bad_record_mac")
        ELSE Good(CutTo(data, Len(data) - header.padding))

\* Which of these a record goes through.  TLS 1.3 lets a ChangeCipherSpec, and
\* before the first protected record a bare alert, pass as they are.  While
\* early data may come, application data under no key are taken for them.
Unprotect(state, header, buf, earlyDataOk) ==
    CASE state.version = SSLv2 -> decryptSSL2(state, header, buf)
      [] /\ state.version = TLS13
         /\ \/ header.type = "ccs"
            \/ header.type = "alert" /\ Len(buf) < 3 /\ state.seqnum = 0 ->
           Good(buf)
      [] state.kind = "none" /\ earlyDataOk /\ header.type = "app" ->
           Bad("bad_record_mac")
      [] OTHER ->
           CASE state.kind = "aead" -> decryptAndUnseal(state, header, buf)
             [] state.kind = "etm" -> macThenDecrypt(state, header.type, buf)
             [] state.kind = "cbc" -> decryptThenMAC(state, header.type, buf)
             [] OTHER -> decryptStreamThenMAC(state, header.type, buf)

\* Take off the zeros and the type: the last byte that is not zero.
tls13_de_pad(data) ==
    LET marks == {i \in DOMAIN data : data[i][1] # "zero"}
        last  == CHOOSE i \in marks : \A j \in marks : j <= i
    IN  IF marks = {} THEN [type |-> "missing", data |-> <<>>]
        ELSE [type |-> data[last][2], data |-> CutTo(data, last - 1)]

\* The record as recvRecord yields it, or the alert.
recvRecord(state, header, buf, recvLimit, earlyDataOk) ==
    LET opened == Unprotect(state, header, buf, earlyDataOk)
        hidden == /\ state.version = TLS13
                  /\ state.kind # "none"
                  /\ header.type = "app"
        inner  == IF opened.error = "none" /\ hidden
                  THEN tls13_de_pad(opened.data)
                  ELSE [type |-> IF header.type = "ssl2" THEN "app"
                                                         ELSE header.type,
                        data |-> opened.data]
        alert  == IF opened.error # "none" THEN opened.error
                  ELSE IF hidden /\ Len(opened.data) > recvLimit + 1
                  THEN "record_overflow"
                  ELSE IF inner.type = "missing" THEN "unexpected_message"
                  ELSE IF Len(inner.data) > recvLimit THEN "record_overflow"
                  ELSE "none"
    IN  [error |-> alert, type |-> inner.type, data |-> inner.data]
=============================================================================
