--------------------------- MODULE MCMessageLayer ---------------------------
EXTENDS MessageLayer

Mode(kind, version) == [kind |-> kind, version |-> version, gcm |-> FALSE]
GCM(version) == [kind |-> "aead", version |-> version, gcm |-> TRUE]

OldModes ==
    {Mode("cbc", SSLv3), Mode("cbc", TLS10), Mode("cbc", TLS12),
     Mode("etm", TLS10), Mode("etm", TLS12), Mode("stream", TLS12),
     Mode("aead", TLS12), GCM(TLS12)}

\* A call sends its messages one by one, as one message, or in a group that
\* the socket holds back; or it waits for the peer first.
One(msg) == [op |-> "send", msgs |-> <<msg>>]
Queued(msgs) == [op |-> "queue", msgs |-> msgs]
Group(msgs) == [op |-> "group", msgs |-> msgs]
Answer(msgs) == [op |-> "await", msgs |-> msgs]

Hello == Handshake("hello", 1)
Finished == Handshake("finished", 1)

OldScript ==
    <<One(Hello),
      Group(<<Handshake("client_key_exchange", 3), ChangeCipherSpec,
              SwitchKeys, Finished>>),
      One(ApplicationData(0, 5)), One(Alert)>>

NewScript(client, retry, early, hello) ==
    <<One(Handshake("hello", hello))>>
      \o (IF early THEN <<One(EarlyData(3)), One(EarlyData(4))>> ELSE <<>>)
      \o (IF retry THEN <<Answer(<<>>), One(ChangeCipherSpec),
                          One(Handshake("hello", hello))>>
                   ELSE <<One(ChangeCipherSpec)>>)
      \o (IF client THEN <<Answer(<<SwitchKeys>>)>>
                    ELSE <<One(SwitchKeys)>>)
      \o <<Queued(<<Handshake("encrypted_extensions", 3), Finished>>),
           One(ApplicationData(0, 5)), One(Alert)>>

Ssl2Script == <<One(ApplicationData(0, 3)), One(ApplicationData(3, 4))>>

Setup(mode, client, w, r, user, zeros, blocking, retry, early, script) ==
    [mode |-> mode, writerIsClient |-> client, writerSetting |-> w,
     readerSetting |-> r, userLimit |-> user, zeros |-> zeros,
     blocking |-> blocking, retry |-> retry, early |-> early,
     script |-> script]

\* The reader's setting and the writer's recordSize: the one, the other or
\* neither is what keeps a record short.  7 is ProtocolLimit + 1, the default
\* setting; 0 stands for None.
Sizes == {<<0, 6>>, <<4, 6>>, <<7, 3>>, <<7, 6>>}

OldSetups ==
    {Setup(m, client, 7, size[1], size[2], 0, TRUE, FALSE, FALSE,
           OldScript) :
        m \in OldModes, client \in BOOLEAN, size \in Sizes}

NewSetups ==
    {Setup(GCM(TLS13), client, 7, size[1], size[2], zeros, TRUE, retry, FALSE,
           NewScript(client, retry, FALSE, 1)) :
        client \in BOOLEAN, size \in Sizes,
        zeros \in {0, 2}, retry \in BOOLEAN}

EarlySetups ==
    {Setup(GCM(TLS13), TRUE, 7, r, 6, 0, TRUE, retry, TRUE,
           NewScript(TRUE, retry, TRUE, 1)) :
        r \in {0, 7}, retry \in BOOLEAN}

Ssl2Setups ==
    {Setup(Mode("ssl2", SSLv2), TRUE, 0, 0, user, 0, TRUE, FALSE,
           FALSE, Ssl2Script) : user \in {2, 6}}

\* A socket that does not block.
NonBlockingSetups ==
    {Setup(GCM(TLS12), TRUE, 7, 7, 6, 0, FALSE, FALSE, FALSE, OldScript)}

AllSetups ==
    OldSetups \cup NewSetups \cup EarlySetups \cup Ssl2Setups
        \cup NonBlockingSetups

=============================================================================
