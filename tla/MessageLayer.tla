---------------------------- MODULE MessageLayer ----------------------------
(***************************************************************************)
(* One direction of a connection, from the calls that send messages        *)
(* (_sendMsg, _queue_message and _queue_flush, _sendMsgs) through          *)
(* fragmentation, protection, the buffered socket and a byte stream of     *)
(* limited capacity, to the reader: header, body, checks, defragmentation  *)
(* and the messages it hands out (tlsrecordlayer.py, recordlayer.py,       *)
(* bufferedsocket.py, defragmenter.py).                                    *)
(*                                                                         *)
(* The end that writes follows a script of calls.  The keys change in      *)
(* mid-script: after the hellos in TLS 1.3, after ChangeCipherSpec before. *)
(* Record limits are those the two ends' record_size_limit settings give.  *)
(* At most MaxFaults records are altered, cut, lost or repeated on their   *)
(* way.                                                                    *)
(***************************************************************************)
EXTENDS RecordProtection

CONSTANTS
    Setups,         \* the connections to look at, see Setup below
    ProtocolLimit,  \* 2^14: what a record may hold
    Expansion,      \* 1024 + 1024: what protection may add
    Expansion13,    \* 256: the same in TLS 1.3
    MaxEarlyData,   \* max_early_data: what of early data may be skipped
    WireCapacity,   \* bytes that the network and the kernel can hold
    MaxFaults       \* records that the network may spoil

\* A setup: [mode, writerIsClient, writerSetting, readerSetting: the two
\* record_size_limit settings, 0 for None; userLimit: the writer's
\* recordSize; zeros: the padding its padding_cb asks for; blocking: its
\* socket; early: its ClientHello announces early data, which this server
\* skips; retry: a second ClientHello; script].

VARIABLES
    setup,      \* the setup of this connection
    snd,        \* the end that writes
    wire,       \* bytes under way
    rcv,        \* the end that reads
    faults,     \* records spoiled so far
    offered,    \* items that calls were made for
    delivered   \* items handed out

vars == <<setup, snd, wire, rcv, faults, offered, delivered>>

---------------------------------------------------------------------------
(* Messages: a type and bytes.                                             *)

Handshake(kind, n) ==
    [type |-> "handshake",
     units |-> <<<<"kind", kind>>, <<"size", n>> >>
                 \o [i \in 1..n |-> <<"data", i>>]]
ChangeCipherSpec == [type |-> "ccs", units |-> <<<<"one">> >>]
Alert == [type |-> "alert", units |-> <<<<"level">>, <<"description">> >>]
ApplicationData(from, n) ==
    [type |-> "app", units |-> [i \in 1..n |-> <<"data", from + i>>]]

\* A record under keys that the peer does not have: early data of a client
\* of another make, this one sends none.
EarlyData(n) ==
    [type |-> "early", units |-> [i \in 1..n |-> <<"early", i>>]]

\* Steps of a call that send nothing.
SwitchKeys == [type |-> "switch", units |-> <<>>]

\* The items of a message; a ChangeCipherSpec of TLS 1.3 is a dummy.
Items(version, type, units) ==
    CASE type = "app" -> [i \in DOMAIN units |-> <<type, units[i]>>]
      [] type \in {"switch", "early"} \/ (type = "ccs" /\ version = TLS13) -> <<>>
      [] OTHER -> <<<<type, units>> >>

RECURSIVE ItemsOf(_, _)
ItemsOf(version, msgs) ==
    IF msgs = <<>> THEN <<>>
    ELSE Items(version, Head(msgs).type, Head(msgs).units)
           \o ItemsOf(version, Tail(msgs))

---------------------------------------------------------------------------
(* Record limits.                                                          *)

AtMost(a, b) == IF a < b THEN a ELSE b

Negotiated == setup.writerSetting # 0 /\ setup.readerSetting # 0

\* What the end that reads advertises: a server answers with no more than
\* the version of the protocol can use.
Advertised ==
    CASE ~setup.writerIsClient -> setup.readerSetting
      [] setup.writerIsClient /\ setup.mode.version = TLS13 ->
           AtMost(ProtocolLimit + 1, setup.readerSetting)
      [] OTHER -> AtMost(ProtocolLimit, setup.readerSetting)

\* A mutant: the type byte is forgotten.
LimitWithType ==
    IF Negotiated THEN AtMost(ProtocolLimit, Advertised) ELSE ProtocolLimit

\* The extension counts the type byte of TLS 1.3, the record layer does not.
_send_record_limit ==
    CASE ~Negotiated -> ProtocolLimit
      [] Negotiated /\ setup.mode.version = TLS13 ->
           AtMost(ProtocolLimit, Advertised - 1)
      [] OTHER -> AtMost(ProtocolLimit, Advertised)

_recv_record_limit ==
    CASE ~Negotiated -> ProtocolLimit
      [] Negotiated /\ setup.mode.version = TLS13 ->
           AtMost(ProtocolLimit, setup.readerSetting - 1)
      [] OTHER -> AtMost(ProtocolLimit, setup.readerSetting)

recordSize == AtMost(setup.userLimit, snd.limit)

---------------------------------------------------------------------------
(* SSLv2 has no handshake here: its records start out protected.           *)

InitialState(mode) ==
    IF mode.version = SSLv2 THEN Keyed(mode) ELSE NoKeys(mode.version)

NoFragments == [t \in ContentTypes |-> <<>>]

Init ==
    /\ setup \in Setups
    /\ snd = [script    |-> setup.script,
              outbox    |-> <<>>,     \* what is left of the call's messages
              queue     |-> <<>>,     \* _write_queue of the socket
              buffering |-> FALSE,    \* buffer_writes
              unsent    |-> <<>>,     \* bytes the socket has not taken yet
              flushing  |-> FALSE,    \* ... in a sendall
              raised    |-> FALSE,    \* a call ended with an exception
              state     |-> InitialState(setup.mode),
              limit     |-> IF /\ setup.mode.version = TLS13
                               /\ ~setup.writerIsClient
                            THEN _send_record_limit
                            ELSE ProtocolLimit]
    /\ wire = <<>>
    /\ rcv = [buffer    |-> <<>>,     \* _read_buffer of the socket
              stage     |-> "first",  \* of the generator: first, rest, body
              part      |-> <<>>,     \* what it has read of this stage
              header    |-> [type |-> "none", length |-> 1],
              fragments |-> NoFragments,
              alert     |-> "none",   \* the error it gave up with
              hellos    |-> 0,        \* ClientHello messages read
              earlyDataOk |-> FALSE,  \* _early_data_ok
              processed |-> 0,        \* _early_data_processed
              state     |-> InitialState(setup.mode),
              limit     |-> ProtocolLimit]
    /\ faults = 0
    /\ offered = <<>>
    /\ delivered = <<>>

---------------------------------------------------------------------------
(* The end that writes.                                                    *)

Idle == snd.outbox = <<>> /\ snd.unsent = <<>> /\ ~snd.buffering

\* _queue_message and _queue_flush: all goes out as one message.
RECURSIVE Joined(_)
Joined(msgs) ==
    IF msgs = <<>> THEN <<>> ELSE Head(msgs).units \o Joined(Tail(msgs))

MsgsOf(call) ==
    IF call.op = "queue"
    THEN <<[type |-> Head(call.msgs).type, units |-> Joined(call.msgs),
            fresh |-> TRUE]>>
    ELSE [i \in DOMAIN call.msgs |->
            [type |-> call.msgs[i].type, units |-> call.msgs[i].units,
             fresh |-> TRUE]]

\* A call of the script begins.  One that waits for the peer's answer begins
\* when the peer has read all that was sent.  _sendMsgs and _sendFinished
\* have the socket hold the records back.
Call ==
    /\ Idle /\ ~snd.raised /\ snd.script # <<>>
    /\ LET call == Head(snd.script)
       IN  /\ call.op = "await" =>
                /\ delivered = offered
                /\ rcv.state.kind = setup.mode.kind \/ call.msgs = <<>>
           /\ snd' = [snd EXCEPT !.script = Tail(@),
                                 !.outbox = MsgsOf(call),
                                 !.buffering = call.op = "group"]
           /\ offered' = offered \o ItemsOf(setup.mode.version, call.msgs)
    /\ UNCHANGED <<setup, wire, rcv, faults, delivered>>

\* changeWriteState, and the limit that was negotiated.
SwitchWriteKeys ==
    /\ snd.unsent = <<>> /\ snd.outbox # <<>>
    /\ Head(snd.outbox).type = "switch"
    /\ snd' = [snd EXCEPT !.outbox = Tail(@),
                          !.state = Keyed(setup.mode),
                          !.limit = _send_record_limit]
    /\ UNCHANGED <<setup, wire, rcv, faults, offered, delivered>>

\* The next fragment of a message: its first byte alone when an old CBC
\* cipher is to be randomised, else no more than a record holds.
FirstByteAlone(m) ==
    /\ m.fresh
    /\ m.type = "app"
    /\ snd.state.version <= TLS10
    /\ isCBCMode(snd.state)

FragmentOf(m) ==
    CutTo(m.units, AtMost(Len(m.units),
                          IF FirstByteAlone(m) THEN 1 ELSE recordSize))

LeftOf(m) ==
    LET rest == After(m.units, Len(FragmentOf(m)))
    IN  IF rest = <<>> THEN <<>>
        ELSE <<[m EXCEPT !.units = rest, !.fresh = FALSE]>>

\* A header and a body on the wire.  The header's first byte tells TLS from
\* SSLv2, whose header has a byte more when there is padding.
OnWire(type, version, body, padding) ==
    (IF type = "ssl2"
     THEN <<<<"ssl2", padding # 0>>, <<"length", Len(body)>> >>
            \o (IF padding # 0 THEN <<<<"padding", padding>> >> ELSE <<>>)
     ELSE <<<<"tls", type>>,
            <<"rest", AtMost(version, TLS12), Len(body)>> >>)
      \o body

\* What the network makes of the body of a protected record.
Spoiled(body) ==
    {[body EXCEPT ![i] = <<"junk">>] : i \in {1, Len(body)}}
        \cup {CutTo(body, Len(body) - 1)}

\* sendRecord of the next fragment.  What is sent while the socket buffers
\* waits in its queue.
Outgoing(bytes) ==
    LET m     == Head(snd.outbox)
        moved == [snd EXCEPT !.outbox = LeftOf(m) \o Tail(@)]
        body  == sendRecord(snd.state, m.type, FragmentOf(m), snd.limit,
                            setup.zeros).data
    IN  [moved EXCEPT
            !.state = Moved(@, m.type, body),
            !.queue = IF snd.buffering THEN @ \o bytes ELSE @,
            !.unsent = IF snd.buffering THEN @ ELSE bytes]

SendEarlyData ==
    /\ snd.unsent = <<>> /\ snd.outbox # <<>>
    /\ Head(snd.outbox).type = "early"
    /\ snd' = [snd EXCEPT !.outbox = Tail(@),
                          !.unsent = OnWire("app", TLS12,
                                            Head(snd.outbox).units, 0)]
    /\ UNCHANGED <<setup, wire, rcv, faults, offered, delivered>>

SendFragment ==
    /\ snd.unsent = <<>> /\ snd.outbox # <<>>
    /\ Head(snd.outbox).type \notin {"switch", "early"}
    /\ LET m       == Head(snd.outbox)
           record  == sendRecord(snd.state, m.type, FragmentOf(m), snd.limit,
                                 setup.zeros)
           padding == IF record.type = "ssl2"
                      THEN Len(ssl2Padded(FragmentOf(m)))
                             - Len(FragmentOf(m))
                      ELSE 0
           Bytes(body) == OnWire(record.type, snd.state.version, body,
                                 padding)
       IN  \/ snd' = Outgoing(Bytes(record.data)) /\ UNCHANGED faults
           \/ /\ faults < MaxFaults
              /\ snd.state.kind # "none" /\ m.type # "ccs"
              /\ faults' = faults + 1
              /\ \/ \E body \in Spoiled(record.data) :
                        snd' = Outgoing(Bytes(body))
                 \/ snd' = Outgoing(<<>>)
                 \/ snd' = Outgoing(Bytes(record.data)
                                        \o Bytes(record.data))
    /\ UNCHANGED <<setup, wire, rcv, offered, delivered>>

\* flush at the end of a grouped call.
Flush ==
    /\ snd.buffering /\ snd.outbox = <<>>
    /\ snd' = [snd EXCEPT !.buffering = FALSE, !.queue = <<>>,
                          !.unsent = snd.queue,
                          !.flushing = snd.queue # <<>>]
    /\ UNCHANGED <<setup, wire, rcv, faults, offered, delivered>>

\* The socket takes what it has room for.  send returns that number; sendall
\* goes on by itself if the socket blocks, and gives up if it does not.
Room == WireCapacity - Len(wire)

Push ==
    /\ snd.unsent # <<>>
    /\ Room > 0
    /\ snd.flushing => setup.blocking \/ Room >= Len(snd.unsent)
    /\ LET n == AtMost(Room, Len(snd.unsent))
       IN  /\ wire' = wire \o CutTo(snd.unsent, n)
           /\ snd' = [snd EXCEPT !.unsent = After(@, n),
                                 !.flushing = @ /\ n < Len(snd.unsent)]
    /\ UNCHANGED <<setup, rcv, faults, offered, delivered>>

FlushFails ==
    /\ snd.flushing /\ ~setup.blocking
    /\ Room < Len(snd.unsent)
    /\ wire' = wire \o CutTo(snd.unsent, Room)
    /\ snd' = [snd EXCEPT !.unsent = <<>>, !.flushing = FALSE,
                          !.raised = TRUE]
    /\ UNCHANGED <<setup, rcv, faults, offered, delivered>>

---------------------------------------------------------------------------
(* The end that reads.                                                     *)

\* The messages that the end that reads has for the reader of its records:
\* Defragmenter with its priorities.
Priorities == <<"ccs", "alert", "handshake">>

SizeIn(type, buf) ==
    CASE type = "ccs" -> IF buf = <<>> THEN 0 ELSE 1
      [] type = "alert" -> IF Len(buf) < 2 THEN 0 ELSE 2
      [] type = "handshake" ->
           IF Len(buf) < 2 \/ Len(buf) - 2 < buf[2][2] THEN 0
                                                     ELSE 2 + buf[2][2]

Waiting == {i \in DOMAIN Priorities :
                SizeIn(Priorities[i], rcv.fragments[Priorities[i]]) > 0}

is_empty(fragments) == \A t \in ContentTypes : fragments[t] = <<>>

\* _sockRecvAll: a read of the socket takes all there is into the buffer
\* and is then given what it asked for.
Wanted ==
    CASE rcv.stage = "first" -> 1
      [] rcv.stage = "rest" -> IF rcv.header.type = "ssl2" /\ rcv.header.long
                               THEN 2 ELSE 1
      [] rcv.stage = "body" -> rcv.header.length

\* A mutant: what is buffered is looked at only when the socket has more.
AvailableOnSocket ==
    IF rcv.buffer = <<>> \/ wire = <<>> THEN wire ELSE rcv.buffer

Available == IF rcv.buffer = <<>> THEN wire ELSE rcv.buffer
Chunk == AtMost(Wanted - Len(rcv.part), Len(Available))
Read == rcv.part \o CutTo(Available, Chunk)
Taken == [rcv EXCEPT !.buffer = After(Available, Chunk), !.part = Read]

Reads(stage) ==
    /\ rcv.alert = "none" /\ Waiting = {}
    /\ rcv.stage = stage
    /\ Available # <<>> \/ Wanted = 0
    /\ wire' = IF rcv.buffer = <<>> THEN <<>> ELSE wire
    /\ UNCHANGED <<setup, snd, faults, offered>>

Partly(stage) ==
    /\ Reads(stage)
    /\ Len(Read) < Wanted
    /\ rcv' = Taken
    /\ UNCHANGED delivered

ReadPart == \E stage \in {"rest", "body"} : Partly(stage)

\* _recvHeader: what follows depends on the first byte.
ReadFirst ==
    /\ Reads("first")
    /\ rcv' = [Taken EXCEPT
                 !.stage = "rest", !.part = <<>>,
                 !.header = IF Read[1][1] = "tls"
                            THEN [type |-> Read[1][2]]
                            ELSE [type |-> "ssl2", long |-> Read[1][2]]]
    /\ UNCHANGED delivered

ParsedHeader ==
    IF rcv.header.type = "ssl2"
    THEN [type |-> "ssl2", version |-> SSLv2, length |-> Read[1][2],
          padding |-> IF rcv.header.long THEN Read[2][2] ELSE 0]
    ELSE [type |-> rcv.header.type, version |-> Read[1][2],
          length |-> Read[1][3], padding |-> 0]

\* The checks on a header, before the body is read.
HeaderAlert(header) ==
    IF /\ header.type = "ssl2"
       /\ \/ header.padding > header.length
          \/ header.padding # 0 /\ header.length % BlockLength # 0
    THEN "illegal_parameter"
    ELSE IF \/ header.length > rcv.limit + Expansion
            \/ /\ rcv.state.version = TLS13
               /\ header.length > rcv.limit + Expansion13
    THEN "record_overflow"
    ELSE "none"

ReadHeader ==
    /\ Reads("rest")
    /\ Len(Read) = Wanted
    /\ rcv' = [Taken EXCEPT !.stage = "body", !.part = <<>>,
                            !.header = ParsedHeader,
                            !.alert = HeaderAlert(ParsedHeader)]
    /\ UNCHANGED delivered

\* What _getMsg and _getNextRecordFromSocket refuse: a record of nothing,
\* and in TLS 1.3 another record between the parts of a handshake message.
RecordAlert(record) ==
    IF record.error # "none" THEN record.error
    ELSE IF record.type # "app" /\ record.data = <<>>
    THEN "unexpected_message"
    ELSE IF /\ setup.mode.version = TLS13
            /\ record.type = "app"
            /\ rcv.fragments["handshake"] # <<>>
    THEN "unexpected_message"
    ELSE "none"

\* A record that does not open is skipped while early data may come and
\* there is not too much of them; the state is as it was before the attempt.
Skippable ==
    /\ rcv.earlyDataOk
    /\ recvRecord(rcv.state, rcv.header, Read, rcv.limit,
                  TRUE).error = "bad_record_mac"
    /\ rcv.processed + Len(Read) < MaxEarlyData

SkipRecord ==
    /\ Reads("body")
    /\ Len(Read) = Wanted
    /\ Skippable
    /\ rcv' = [Taken EXCEPT !.stage = "first", !.part = <<>>,
                            !.header = [type |-> "none", length |-> 1],
                            !.processed = @ + Len(Read)]
    /\ UNCHANGED delivered

\* The body is complete: the record is opened and checked.  Application
\* data go out as they are, a dummy ChangeCipherSpec is dropped, all else
\* is put with the fragments of its type.  The first record that is good
\* ends the skipping of early data, unless it is a ChangeCipherSpec.
ReadRecord ==
    /\ Reads("body")
    /\ Len(Read) = Wanted
    /\ ~Skippable
    /\ LET record == recvRecord(rcv.state, rcv.header, Read, rcv.limit,
                                rcv.earlyDataOk)
           alert  == RecordAlert(record)
           dummy  == setup.mode.version = TLS13 /\ record.type = "ccs"
           kept   == alert = "none" /\ record.type # "app" /\ ~dummy
       IN  /\ rcv' = [Taken EXCEPT
                        !.stage = "first", !.part = <<>>,
                        !.header = [type |-> "none", length |-> 1],
                        !.state = Moved(@, rcv.header.type, Read),
                        !.alert = alert,
                        !.earlyDataOk = @ /\ dummy,
                        !.processed = 0,
                        !.fragments =
                            IF kept
                            THEN [@ EXCEPT ![record.type] = @ \o record.data]
                            ELSE @]
           /\ delivered' = IF alert = "none" /\ record.type = "app"
                           THEN delivered \o Items(setup.mode.version, "app",
                                                   record.data)
                           ELSE delivered

\* get_message, and what the handshake makes of the message: it changes the
\* keys it reads with, and comes to apply the limit it advertised.
RecordAligned == {"hello", "finished", "key_update"}

MessageAlert(type, units, fragments) ==
    IF /\ setup.mode.version = TLS13
       /\ \/ type # "handshake" /\ fragments["handshake"] # <<>>
          \/ /\ type = "handshake"
             /\ units[1][2] \in RecordAligned
             /\ ~is_empty(fragments)
    THEN "unexpected_message"
    ELSE "none"

\* TLS 1.3: the server applies its limit from the first ClientHello on, the
\* keys change after the last one.  Before: the client applies it when it
\* sends its Finished, ahead of the server's; the server after the client's.
AfterMessage(type, units) ==
    LET version == setup.mode.version
        kind    == IF type = "handshake" THEN units[1][2] ELSE type
        hellos  == IF kind = "hello" THEN rcv.hellos + 1 ELSE rcv.hellos
        last    == IF setup.retry THEN 2 ELSE 1
        limited == \/ version = TLS13 /\ kind = "hello"
                                      /\ setup.writerIsClient
                   \/ version = TLS13 /\ kind = "encrypted_extensions"
                   \/ version < TLS13 /\ kind = "ccs"
                                      /\ ~setup.writerIsClient
                   \/ version < TLS13 /\ kind = "finished"
        rekeyed == \/ version = TLS13 /\ kind = "hello" /\ hellos = last
                   \/ version < TLS13 /\ kind = "ccs"
    IN  [hellos |-> hellos,
         early |-> rcv.earlyDataOk \/ (hellos = 1 /\ rcv.hellos = 0
                                          /\ setup.early),
         limit |-> IF limited THEN _recv_record_limit ELSE rcv.limit,
         state |-> IF rekeyed THEN Keyed(setup.mode) ELSE rcv.state]

GetMessage ==
    /\ rcv.alert = "none" /\ Waiting # {}
    /\ LET type  == Priorities[CHOOSE i \in Waiting :
                                    \A j \in Waiting : i <= j]
           size  == SizeIn(type, rcv.fragments[type])
           units == CutTo(rcv.fragments[type], size)
           rest  == [rcv.fragments EXCEPT ![type] = After(@, size)]
           alert == MessageAlert(type, units, rest)
           after == AfterMessage(type, units)
       IN  /\ rcv' = [rcv EXCEPT !.fragments = rest, !.alert = alert,
                                 !.hellos = after.hellos,
                                 !.earlyDataOk = after.early,
                                 !.limit = after.limit,
                                 !.state = after.state]
           /\ delivered' = IF alert = "none"
                           THEN delivered \o Items(setup.mode.version, type,
                                                   units)
                           ELSE delivered
    /\ UNCHANGED <<setup, snd, wire, faults, offered>>

---------------------------------------------------------------------------
Writer ==
    \/ Call \/ SwitchWriteKeys \/ SendEarlyData \/ SendFragment
    \/ Flush \/ Push \/ FlushFails
Reader ==
    \/ ReadFirst \/ ReadPart \/ ReadHeader
    \/ SkipRecord \/ ReadRecord \/ GetMessage

Next == Writer \/ Reader

Spec == Init /\ [][Next]_vars

\* When the ends have something to do: what WF_vars(Writer) and
\* WF_vars(Reader) would call enabled, said without computing the step.
WriterCanStep ==
    IF snd.unsent # <<>>
    THEN Room > 0 \/ (snd.flushing /\ ~setup.blocking)
    ELSE \/ snd.outbox # <<>> \/ snd.buffering
         \/ /\ snd.script # <<>> /\ ~snd.raised
            /\ Head(snd.script).op = "await" =>
                /\ delivered = offered
                /\ \/ rcv.state.kind = setup.mode.kind
                   \/ Head(snd.script).msgs = <<>>

ReaderCanStep ==
    /\ rcv.alert = "none"
    /\ Waiting # {} \/ Available # <<>> \/ Wanted = 0

\* Both ends keep going, as callers that exhaust their generators do.
FairSpec ==
    /\ Spec
    /\ []<>~WriterCanStep \/ []<><<Writer>>_vars
    /\ []<>~ReaderCanStep \/ []<><<Reader>>_vars

---------------------------------------------------------------------------
(* Properties.                                                             *)

\* Whatever calls send messages, however they are cut into records, ciphered,
\* held back, sent and read in pieces, and even when records are spoiled,
\* lost or repeated: what is handed out is what was sent, in order, once.
Channel == INSTANCE MessageChannel WITH taken <- delivered
ImplementsChannel == Channel!Spec

\* The end that reads gives up only on records that were spoiled: no limit,
\* padding, cut or order that this code's writer chooses is refused.
NoFalseAlarm == rcv.alert # "none" => faults > 0

\* What is sent on an undisturbed connection by calls that do not fail
\* arrives: nothing stays in the socket's queue, a buffer or a fragment.
AllDelivered ==
    <>(\/ faults > 0 \/ snd.raised
       \/ snd.script = <<>> /\ Idle /\ delivered = offered)

=============================================================================
