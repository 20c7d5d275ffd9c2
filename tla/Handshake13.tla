----------------------------- MODULE Handshake13 ------------------------------
(***************************************************************************)
(* The TLS 1.3 handshake of tlslite/tlsconnection.py, one client and one   *)
(* server over two FIFO wires: HelloRetryRequest, resumption by ticket,    *)
(* the server's signature or DVNIZK proof, client certificates, tickets,   *)
(* alerts and the checkers the callers may pass.                           *)
(*                                                                         *)
(* A transcript is the sequence of messages it covers; a key is named by   *)
(* its epoch and the transcript it was derived from.  An altered hello may *)
(* be refused or read as another one; a protected record that was damaged, *)
(* or sealed with another key, does not open.                              *)
(***************************************************************************)
EXTENDS Integers, Sequences

CONSTANTS
    Client, Server,   \* the two ends
    Setups,           \* settings and arguments the two handshakes start with
    MaxFaults,        \* bound: breaks of the network and damaged records
    MaxWrites         \* bound: records the client writes after its handshake

Ends == {Client, Server}
Peer(e) == IF e = Client THEN Server ELSE Client
ToSet(s) == {s[i] : i \in DOMAIN s}

Groups == {"x25519", "secp256r1"}
Schemes == {"dvnizk_ed25519", "Ed25519", "rsa_pss"}
Certs == {"none", "Ed25519", "rsa"}

ClientSetups ==
    [shares : Seq(Groups),     \* keyShares
     groups : SUBSET Groups,   \* supported_groups
     schemes : Seq(Schemes),   \* signature_algorithms, preferred first
     ticket : {"none", "good", "unknown"}, \* good: the server has its key
     ticketCert : Certs,       \* client certificate of the ticket's session
     cert : Certs,
     rejects : BOOLEAN]        \* checker raises TLSAuthenticationError
ServerSetups ==
    [groups : Seq(Groups),     \* keyShares, then eccCurves
     schemes : Seq(Schemes),
     cert : Certs \ {"none"},
     reqCert : BOOLEAN,
     tickets : BOOLEAN,        \* ticket_count is not 0
     rejects : BOOLEAN]

ASSUME EndsAssumption == Client # Server
ASSUME SetupsAssumption ==
    Setups \subseteq [client : ClientSetups, server : ServerSetups]
ASSUME BoundsAssumption == MaxFaults \in Nat /\ MaxWrites \in Nat

VARIABLES
    setup,        \* the element of Setups of this run
    at,           \* per end: where its handshake stands
    writeState,   \* per end: [key, seq] of _recordLayer._writeState
    readState,    \* per end: [key, seq] of _recordLayer._readState
    pending,      \* per end: _pendingReadState and _pendingWriteState
    hash,         \* per end: _handshake_hash, the transcript so far
    hello,        \* per end: the ClientHello it sent or got last
    choice,       \* per end: what the hellos settled
    master,       \* per end: transcript up to the server's Finished
    ccsSent,      \* per end: _ccs_sent
    clientCert,   \* the client's certificate as the server received it
    session,      \* per end
    resumed,      \* per end: the attribute of the connection
    closed,       \* per end
    sockOpen,     \* per end: it has not closed its socket
    out,          \* per end: the sealed records it is sending together
    wire,         \* per end: the records it sent that its peer has not read
    broken,       \* the network dropped the connection
    faults        \* faults so far

keyVars == <<writeState, readState, pending>>
talkVars == <<hash, hello, choice, master, ccsSent, clientCert>>
endVars == <<session, resumed, closed, sockOpen>>
netVars == <<wire, broken, faults>>
vars == <<setup, at, out, keyVars, talkVars, endVars, netVars>>

client == setup.client
server == setup.server

Waiting == {"wait_hello", "wait_retry", "wait_second", "wait_flight",
            "wait_cert", "wait_verify", "wait_finished"}
Salvaging == {"salvage", "salvage_tickets"}

-----------------------------------------------------------------------------
(***************************************************************************)
(* Messages, transcripts and keys.                                         *)
(***************************************************************************)
\* A message is a record with its type and the fields the ends act on:
\*   client_hello   shares, groups, schemes, psk, cookie, binder
\*   retry          group
\*   server_hello   group, psk
\*   flight         request, schemes, scheme, right (EncryptedExtensions to
\*                  Finished, coalesced in one record)
\*   certificate    cert
\*   certificate_verify   scheme
\* and nothing else for ccs, finished, tickets, alert and data.  A transcript
\* is the sequence of the messages as they were Seen, altered or intact.
Seen(m) == [msg |-> m, intact |-> TRUE]
Simple(type) == [type |-> type]
NoKey == [epoch |-> "none", hash |-> <<>>]
NoState == [key |-> NoKey, seq |-> 0]
NothingPending == [read |-> NoState, write |-> NoState]
NoHello == [type |-> "none"]
NoChoice == [group |-> "none", psk |-> FALSE, scheme |-> "none",
             request |-> FALSE]
NoSession == [resumable |-> FALSE]

\* _handshakeStart on two fresh connections.
Init ==
    /\ setup \in Setups
    /\ at = [e \in Ends |-> IF e = Client THEN "start" ELSE "wait_hello"]
    /\ writeState = [e \in Ends |-> NoState]
    /\ readState = [e \in Ends |-> NoState]
    /\ pending = [e \in Ends |-> NothingPending]
    /\ hash = [e \in Ends |-> <<>>]
    /\ hello = [e \in Ends |-> NoHello]
    /\ choice = [e \in Ends |-> NoChoice]
    /\ master = [e \in Ends |-> <<>>]
    /\ ccsSent = [e \in Ends |-> FALSE]
    /\ clientCert = "none"
    /\ session = [e \in Ends |-> NoSession]
    /\ resumed = [e \in Ends |-> FALSE]
    /\ closed = [e \in Ends |-> TRUE]
    /\ sockOpen = [e \in Ends |-> TRUE]
    /\ out = [e \in Ends |-> <<>>]
    /\ wire = [e \in Ends |-> <<>>]
    /\ broken = FALSE
    /\ faults = 0

-----------------------------------------------------------------------------
(***************************************************************************)
(* The record layer and _shutdown.                                         *)
(***************************************************************************)
KeyedBy(epoch, transcript) ==
    [key |-> [epoch |-> epoch, hash |-> transcript], seq |-> 0]

\* calcTLS1_3PendingState: a new pair of pending states.
CalcPending(epoch, transcript) ==
    [read |-> KeyedBy(epoch, transcript), write |-> KeyedBy(epoch, transcript)]

\* A change_cipher_spec is never protected; at most one of the messages
\* sent together is.
Protected(state, m) == state.key # NoKey /\ m.type # "ccs"
Sealed(state, msgs) ==
    [i \in DOMAIN msgs |->
        [msg |-> msgs[i],
         key |-> IF Protected(state, msgs[i]) THEN state.key ELSE NoKey,
         seq |-> IF Protected(state, msgs[i]) THEN state.seq ELSE 0,
         intact |-> TRUE]]
Advanced(state) ==
    IF state.key = NoKey THEN state ELSE [state EXCEPT !.seq = @ + 1]

\* Messages sealed in this state are on their way to the socket.
Send(e, state, msgs, where) ==
    /\ out' = [out EXCEPT ![e] = Sealed(state, msgs)]
    /\ writeState' = [writeState EXCEPT ![e] = Advanced(state)]
    /\ at' = [at EXCEPT ![e] = where]

\* The socket takes them.  A peer that closed its socket loses them.
Sent(e, where) ==
    /\ at[e] = where
    /\ ~broken
    /\ wire' = IF sockOpen[Peer(e)] THEN [wire EXCEPT ![e] = @ \o out[e]]
               ELSE wire
    /\ UNCHANGED <<broken, faults>>

Goto(e, where) ==
    /\ at' = [at EXCEPT ![e] = where]
    /\ out' = [out EXCEPT ![e] = <<>>]

\* The write to the socket raises socket.error.
Unsendable(e) == broken \/ ~sockOpen[Peer(e)]

Incoming(e) == wire[Peer(e)] # <<>>
Upcoming(e) == Head(wire[Peer(e)])
Take(e) ==
    /\ wire' = [wire EXCEPT ![Peer(e)] = Tail(@)]
    /\ UNCHANGED <<broken, faults>>
AtEnd(e) == ~Incoming(e) /\ Unsendable(e)

Opens(e) ==
    LET r == Upcoming(e)
    IN  /\ r.key = readState[e].key
        /\ r.key = NoKey \/ (r.seq = readState[e].seq /\ r.intact)

\* recvRecord lets an unprotected alert pass until the new key was used.
PlainAlert(e) ==
    /\ Upcoming(e).msg.type = "alert"
    /\ Upcoming(e).key = NoKey
    /\ readState[e].key # NoKey
    /\ readState[e].seq = 0

\* _getMsg skips a change_cipher_spec once TLS 1.3 was negotiated.
SkipsCcs(e) ==
    /\ at[e] \in Waiting \ {"wait_hello"}
    /\ Upcoming(e).msg.type = "ccs"
    /\ Upcoming(e).intact

\* _getMsg got the message its caller waits for.
Receives(e, where, type) ==
    /\ at[e] = where
    /\ Incoming(e)
    /\ Opens(e)
    /\ Upcoming(e).msg.type = type
    /\ Take(e)

Counted(e) == Advanced(readState[e])

\* What an end can take the message for: altered on the way, a hello can
\* name another group (or differ in what the model leaves out).
Readings(r) ==
    IF r.intact \/ r.msg.type \notin {"retry", "server_hello"} THEN {r.msg}
    ELSE {[r.msg EXCEPT !.group = g] : g \in Groups}
Hashed(e, m) == Append(hash[e], [msg |-> m, intact |-> Upcoming(e).intact])

\* _shutdown(False) and the exception that follows it.
CloseSocketNot(e) == UNCHANGED sockOpen        \* mutant: left open
CloseSocket(e) == sockOpen' = [sockOpen EXCEPT ![e] = FALSE]
KeepSession(e) == UNCHANGED session            \* mutant: may be resumed
DropSession(e) == session' = [session EXCEPT ![e].resumable = FALSE]

ResetStates(e) ==
    /\ writeState' = [writeState EXCEPT ![e] = NoState]
    /\ readState' = [readState EXCEPT ![e] = NoState]
    /\ pending' = [pending EXCEPT ![e] = NothingPending]

Fail(e) ==
    /\ Goto(e, "failed")
    /\ ResetStates(e)
    /\ CloseSocket(e)
    /\ DropSession(e)
    /\ closed' = [closed EXCEPT ![e] = TRUE]
    /\ UNCHANGED <<setup, talkVars, resumed>>

\* _sendError, up to its first attempt to write.
SendError(e) == Send(e, writeState[e], <<Simple("alert")>>, "send_alert")

\* The handshake is over but for the checker, which may reject the peer;
\* state is the write state by then.
Conclude(e, state, resumption) ==
    /\ resumed' = [resumed EXCEPT ![e] = resumption]
    /\ closed' = [closed EXCEPT ![e] = FALSE]
    /\ IF (IF e = Client THEN client ELSE server).rejects
       THEN Send(e, state, <<Simple("alert")>>, "send_reject")
       ELSE /\ Goto(e, "done")
            /\ writeState' = [writeState EXCEPT ![e] = state]

-----------------------------------------------------------------------------
(***************************************************************************)
(* Choices the settings lead to.                                           *)
(***************************************************************************)

\* getFirstMatching: the first preference among what is offered.
FirstMatch(preferences, offered) ==
    LET both == {i \in DOMAIN preferences : preferences[i] \in offered}
    IN  IF both = {} THEN "none"
        ELSE preferences[CHOOSE i \in both : \A j \in both : i <= j]

\* _sigHashesToList for a certificate.
SchemesOf(cert) ==
    CASE cert = "Ed25519" -> {"dvnizk_ed25519", "Ed25519"}
      [] cert = "rsa" -> {"rsa_pss"}

\* _pickServerKeyExchangeSig: the server's preference decides.
ServerScheme(ch) ==
    FirstMatch(server.schemes, ToSet(ch.schemes) \cap SchemesOf(server.cert))

ClientScheme(certificateRequest) ==
    FirstMatch(client.schemes,
               ToSet(certificateRequest.schemes) \cap SchemesOf(client.cert))

\* generate_proof takes the key of the client's FIRST share and converts it
\* only if the negotiated group is x25519: what comes of it.
Proofs(ch, group) ==
    IF ch.shares[1] # group THEN {"wrong", "crash"}
    ELSE IF group = "x25519" THEN {"right"} ELSE {"crash"}

-----------------------------------------------------------------------------
(***************************************************************************)
(* The client.                                                             *)
(***************************************************************************)
FirstHello ==
    [type |-> "client_hello", shares |-> client.shares,
     groups |-> client.groups, schemes |-> client.schemes,
     psk |-> client.ticket, cookie |-> "none", binder |-> <<>>]

\* _clientSendClientHello.
SendClientHello ==
    /\ at[Client] = "start"
    /\ Send(Client, writeState[Client], <<FirstHello>>, "send_hello")
    /\ hash' = [hash EXCEPT ![Client] = <<Seen(FirstHello)>>]
    /\ hello' = [hello EXCEPT ![Client] = FirstHello]
    /\ UNCHANGED <<setup, readState, pending, choice, master, ccsSent,
                   clientCert, endVars, netVars>>

ClientHelloSent ==
    /\ Sent(Client, "send_hello")
    /\ Goto(Client, "wait_hello")
    /\ UNCHANGED <<setup, keyVars, talkVars, endVars>>

\* update_binders: the binder covers all that came before the new hello.
UpdatedBinderStale(transcript) == <<>>    \* mutant: not updated
UpdatedBinder(transcript) ==
    IF client.ticket = "none" THEN <<>> ELSE transcript

\* A HelloRetryRequest: the hello is sent again with the share asked for.
\* (The message_hash that replaces the first hello in the transcript stands
\* for it one to one.)
Retriable(group) == group \in client.groups \ ToSet(client.shares)
SecondHello(group, cookie, transcript) ==
    [FirstHello EXCEPT !.shares = <<group>>, !.cookie = cookie,
                       !.binder = UpdatedBinder(transcript)]

ReadRetry ==
    /\ Receives(Client, "wait_hello", "retry")
    /\ \E m \in Readings(Upcoming(Client)),
          cookie \in IF Upcoming(Client).intact THEN {"good"}
                     ELSE {"good", "altered"} :
          LET h == Hashed(Client, m)
              second == SecondHello(m.group, cookie, h)
          IN  /\ Retriable(m.group)
              /\ Send(Client, writeState[Client], <<Simple("ccs"), second>>,
                      "send_second")
              /\ hash' = [hash EXCEPT ![Client] = Append(h, Seen(second))]
              /\ hello' = [hello EXCEPT ![Client] = second]
    /\ UNCHANGED <<setup, readState, pending, choice, master, ccsSent,
                   clientCert, endVars>>

RefuseRetry ==
    /\ Receives(Client, "wait_hello", "retry")
    /\ \E m \in Readings(Upcoming(Client)) : ~Retriable(m.group)
    /\ SendError(Client)
    /\ UNCHANGED <<setup, readState, pending, talkVars, endVars>>

SecondHelloSent ==
    /\ Sent(Client, "send_second")
    /\ Goto(Client, "wait_retry")
    /\ ccsSent' = [ccsSent EXCEPT ![Client] = TRUE]
    /\ UNCHANGED <<setup, keyVars, hash, hello, choice, master, clientCert,
                   endVars>>

\* ServerHello: the client reads with the handshake key from here on, and
\* writes without one until the server's Finished.
ReadServerHello ==
    /\ \E where \in {"wait_hello", "wait_retry"} :
          Receives(Client, where, "server_hello")
    /\ \E m \in Readings(Upcoming(Client)) :
          LET h == Hashed(Client, m)
              keys == CalcPending("hs", h)
          IN  /\ m.group \in ToSet(hello[Client].shares)
              /\ hash' = [hash EXCEPT ![Client] = h]
              /\ readState' = [readState EXCEPT ![Client] = keys.read]
              /\ pending' = [pending EXCEPT ![Client] =
                                [keys EXCEPT !.read = NoState]]
              /\ choice' = [choice EXCEPT ![Client] =
                               [NoChoice EXCEPT !.group = m.group,
                                                !.psk = m.psk]]
    /\ Goto(Client, "wait_flight")
    /\ UNCHANGED <<setup, writeState, hello, master, ccsSent, clientCert,
                   endVars>>

\* "Server selected not advertised group": raised without an alert.
RejectServerHello ==
    /\ \E where \in {"wait_hello", "wait_retry"} :
          Receives(Client, where, "server_hello")
    /\ \E m \in Readings(Upcoming(Client)) :
          m.group \notin ToSet(hello[Client].shares)
    /\ Fail(Client)

\* From the application keys to the client's Finished: h is the transcript
\* so far, secret the one of the server's Finished.
ClientFinishes(state, h, secret) ==
    LET keys == CalcPending("app", secret)
        finished == Simple("finished")
    IN  /\ readState' = [readState EXCEPT ![Client] = keys.read]
        /\ pending' = [pending EXCEPT ![Client] =
                          [keys EXCEPT !.read = NoState]]
        /\ Send(Client, state,
                IF ccsSent[Client] THEN <<finished>>
                ELSE <<Simple("ccs"), finished>>,
                "send_finished")
        /\ hash' = [hash EXCEPT ![Client] = Append(h, Seen(finished))]

\* The server's flight was verified, and no certificate is asked for.
ReadFlight ==
    /\ Receives(Client, "wait_flight", "flight")
    /\ LET m == Upcoming(Client).msg
           h == Hashed(Client, m)
       IN  /\ m.right /\ ~m.request
           /\ master' = [master EXCEPT ![Client] = h]
           /\ choice' = [choice EXCEPT ![Client].scheme = m.scheme]
           /\ ClientFinishes(pending[Client].write, h, h)
    /\ UNCHANGED <<setup, hello, ccsSent, clientCert, endVars>>

\* The same with a CertificateRequest: the answer may be empty.
ReadFlightRequesting ==
    /\ Receives(Client, "wait_flight", "flight")
    /\ LET m == Upcoming(Client).msg
           h == Hashed(Client, m)
           answer == [type |-> "certificate", cert |-> client.cert]
       IN  /\ m.right /\ m.request
           /\ master' = [master EXCEPT ![Client] = h]
           /\ choice' = [choice EXCEPT ![Client].scheme = m.scheme]
           /\ Send(Client, pending[Client].write, <<answer>>, "send_cert")
           /\ hash' = [hash EXCEPT ![Client] = Append(h, Seen(answer))]
    /\ pending' = [pending EXCEPT ![Client] = NothingPending]
    /\ readState' = [readState EXCEPT ![Client] = Counted(Client)]
    /\ UNCHANGED <<setup, hello, ccsSent, clientCert, endVars>>

\* "DVNIZK-ECC proof verification failed".
RefuseProof ==
    /\ Receives(Client, "wait_flight", "flight")
    /\ ~Upcoming(Client).msg.right
    /\ SendError(Client)
    /\ readState' = [readState EXCEPT ![Client] = Counted(Client)]
    /\ UNCHANGED <<setup, pending, talkVars, endVars>>

\* The request the client is answering is part of its transcript.
Request == master[Client][Len(master[Client])].msg

EmptyCertificateSent ==
    /\ Sent(Client, "send_cert")
    /\ client.cert = "none"
    /\ ClientFinishes(writeState[Client], hash[Client], master[Client])
    /\ UNCHANGED <<setup, hello, choice, master, ccsSent, clientCert, endVars>>

CertificateSent ==
    /\ Sent(Client, "send_cert")
    /\ client.cert # "none"
    /\ LET verify == [type |-> "certificate_verify",
                      scheme |-> ClientScheme(Request)]
       IN  /\ verify.scheme \notin {"none", "dvnizk_ed25519"}
           /\ Send(Client, writeState[Client], <<verify>>, "send_verify")
           /\ hash' = [hash EXCEPT ![Client] = Append(@, Seen(verify))]
    /\ UNCHANGED <<setup, readState, pending, hello, choice, master, ccsSent,
                   clientCert, endVars>>

\* There is no way to sign with the scheme chosen: SignatureScheme has no
\* padding for dvnizk_ed25519, and no name for None.
CannotSign ==
    /\ Sent(Client, "send_cert")
    /\ client.cert # "none"
    /\ ClientScheme(Request) \in {"none", "dvnizk_ed25519"}
    /\ Fail(Client)

VerifySent ==
    /\ Sent(Client, "send_verify")
    /\ ClientFinishes(writeState[Client], hash[Client], master[Client])
    /\ UNCHANGED <<setup, hello, choice, master, ccsSent, clientCert, endVars>>

\* exporter_master_secret leaves out the client's Finished.
WithoutLast(transcript) == SubSeq(transcript, 1, Len(transcript) - 1)
NewSession(e, cert, exporter, resumption) ==
    [group |-> choice[e].group, psk |-> choice[e].psk,
     scheme |-> choice[e].scheme, clientCert |-> cert,
     master |-> master[e], exporter |-> exporter,
     resumption |-> resumption, resumable |-> TRUE]

SwitchedNot(e) == writeState[e]           \* mutant: _changeWriteState left out
Switched(e) == pending[e].write

ClientFinishedSent ==
    /\ Sent(Client, "send_finished")
    /\ session' = [session EXCEPT ![Client] =
                      NewSession(Client, client.cert,
                                 WithoutLast(hash[Client]), hash[Client])]
    /\ pending' = [pending EXCEPT ![Client] = NothingPending]
    /\ Conclude(Client, Switched(Client),
                choice[Client].psk)
    /\ UNCHANGED <<setup, readState, talkVars, sockOpen>>

-----------------------------------------------------------------------------
(***************************************************************************)
(* The server.                                                             *)
(***************************************************************************)

\* The share of the server's choice, and the group to ask for without one.
SharedGroup(ch) == FirstMatch(server.groups, ToSet(ch.shares))
RetryGroup(ch) == FirstMatch(server.groups, ch.groups)

\* verify_binder, against the transcript before this hello.
BinderVerifies(m) == Upcoming(Server).intact /\ m.binder = hash[Server]

\* The hello m is answered: ServerHello, and a change_cipher_spec if no
\* HelloRetryRequest came with one.
Answer(m) ==
    LET group == SharedGroup(m)
        sh == [type |-> "server_hello", group |-> group,
               psk |-> m.psk = "good"]
    IN  /\ Send(Server, writeState[Server],
                IF ccsSent[Server] THEN <<sh>> ELSE <<sh, Simple("ccs")>>,
                "send_answer")
        /\ hash' = [hash EXCEPT ![Server] = Append(Hashed(Server, m), Seen(sh))]
        /\ hello' = [hello EXCEPT ![Server] = m]
        /\ choice' = [choice EXCEPT ![Server] =
                         [group |-> group, psk |-> sh.psk,
                          scheme |-> IF sh.psk THEN "none" ELSE ServerScheme(m),
                          request |-> server.reqCert /\ ~sh.psk]]

\* A hello with an acceptable share.
ReadHello ==
    /\ Receives(Server, "wait_hello", "client_hello")
    /\ LET m == Upcoming(Server).msg
       IN  /\ ServerScheme(m) # "none"
           /\ SharedGroup(m) # "none"
           /\ m.psk = "good" => BinderVerifies(m)
           /\ Answer(m)
    /\ UNCHANGED <<setup, readState, pending, master, ccsSent, clientCert,
                   endVars>>

\* A hello without one: HelloRetryRequest.
ReadHelloRetrying ==
    /\ Receives(Server, "wait_hello", "client_hello")
    /\ LET m == Upcoming(Server).msg
           retry == [type |-> "retry", group |-> RetryGroup(m)]
       IN  /\ ServerScheme(m) # "none"
           /\ SharedGroup(m) = "none"
           /\ retry.group # "none"
           /\ Send(Server, writeState[Server], <<retry, Simple("ccs")>>,
                   "send_retry")
           /\ hash' = [hash EXCEPT ![Server] =
                          Append(Hashed(Server, m), Seen(retry))]
           /\ hello' = [hello EXCEPT ![Server] = m]
           /\ choice' = [choice EXCEPT ![Server].group = retry.group]
    /\ UNCHANGED <<setup, readState, pending, master, ccsSent, clientCert,
                   endVars>>

\* handshake_failure for want of a scheme or a group, illegal_parameter for
\* a binder that does not verify.
RefuseHello ==
    /\ Receives(Server, "wait_hello", "client_hello")
    /\ LET m == Upcoming(Server).msg
       IN  \/ ServerScheme(m) = "none"
           \/ SharedGroup(m) = "none" /\ RetryGroup(m) = "none"
           \/ SharedGroup(m) # "none" /\ m.psk = "good" /\ ~BinderVerifies(m)
    /\ SendError(Server)
    /\ UNCHANGED <<setup, readState, pending, talkVars, endVars>>

RetrySent ==
    /\ Sent(Server, "send_retry")
    /\ Goto(Server, "wait_second")
    /\ ccsSent' = [ccsSent EXCEPT ![Server] = TRUE]
    /\ UNCHANGED <<setup, keyVars, hash, hello, choice, master, clientCert,
                   endVars>>

\* The second hello has the share asked for and brings the cookie back.
AnswersRetry(m) == m.shares = <<choice[Server].group>> /\ m.cookie = "good"

\* It is the first one, but for these, the padding, the tickets and early data:
\* where one of the two was altered, that may have been in one of them.
Repeats(m) ==
    AnswersRetry(m) /\ hash[Server][1].intact /\ Upcoming(Server).intact

ReadSecondHello ==
    /\ Receives(Server, "wait_second", "client_hello")
    /\ LET m == Upcoming(Server).msg
       IN  /\ AnswersRetry(m)
           /\ m.psk = "good" => BinderVerifies(m)
           /\ Answer(m)
    /\ UNCHANGED <<setup, readState, pending, master, ccsSent, clientCert,
                   endVars>>

RefuseSecondHello ==
    /\ Receives(Server, "wait_second", "client_hello")
    /\ LET m == Upcoming(Server).msg
       IN ~Repeats(m) \/ (m.psk = "good" /\ ~BinderVerifies(m))
    /\ SendError(Server)
    /\ UNCHANGED <<setup, readState, pending, talkVars, endVars>>

\* The server writes with the handshake key: its flight, up to Finished.
Flight(right) ==
    [type |-> "flight", request |-> choice[Server].request,
     schemes |-> IF choice[Server].request THEN server.schemes ELSE <<>>,
     scheme |-> choice[Server].scheme, right |-> right]

Outcomes ==
    IF choice[Server].scheme = "dvnizk_ed25519"
    THEN Proofs(hello[Server], choice[Server].group) ELSE {"right"}

AnswerSent ==
    /\ Sent(Server, "send_answer")
    /\ \E outcome \in Outcomes \ {"crash"} :
          LET keys == CalcPending("hs", hash[Server])
              m == Flight(outcome = "right")
          IN  /\ Send(Server, keys.write, <<m>>, "send_flight")
              /\ pending' = [pending EXCEPT ![Server] =
                                [keys EXCEPT !.write = NoState]]
              /\ hash' = [hash EXCEPT ![Server] = Append(@, Seen(m))]
    /\ UNCHANGED <<setup, readState, hello, choice, master, ccsSent,
                   clientCert, endVars>>

\* generate_proof raises on a key it cannot take for a point of Ed25519.
CannotProve ==
    /\ Sent(Server, "send_answer")
    /\ "crash" \in Outcomes
    /\ Fail(Server)

\* The server reads with the handshake key, and writes with the final one.
FlightSent ==
    /\ Sent(Server, "send_flight")
    /\ LET keys == CalcPending("app", hash[Server])
       IN  /\ readState' = [readState EXCEPT ![Server] = pending[Server].read]
           /\ writeState' = [writeState EXCEPT ![Server] = keys.write]
           /\ pending' = [pending EXCEPT ![Server] =
                             [keys EXCEPT !.write = NoState]]
    /\ master' = [master EXCEPT ![Server] = hash[Server]]
    /\ Goto(Server, IF choice[Server].request THEN "wait_cert"
                    ELSE "wait_finished")
    /\ UNCHANGED <<setup, hash, hello, choice, ccsSent, clientCert, endVars>>

ReadCertificate ==
    /\ Receives(Server, "wait_cert", "certificate")
    /\ LET m == Upcoming(Server).msg
       IN  /\ clientCert' = m.cert
           /\ hash' = [hash EXCEPT ![Server] = Hashed(Server, m)]
           /\ Goto(Server, IF m.cert = "none" THEN "wait_finished"
                           ELSE "wait_verify")
    /\ readState' = [readState EXCEPT ![Server] = Counted(Server)]
    /\ UNCHANGED <<setup, writeState, pending, hello, choice, master, ccsSent,
                   endVars>>

ReadVerify ==
    /\ Receives(Server, "wait_verify", "certificate_verify")
    /\ hash' = [hash EXCEPT ![Server] = Hashed(Server, Upcoming(Server).msg)]
    /\ Goto(Server, "wait_finished")
    /\ readState' = [readState EXCEPT ![Server] = Counted(Server)]
    /\ UNCHANGED <<setup, writeState, pending, hello, choice, master, ccsSent,
                   clientCert, endVars>>

\* A resumed session takes the client's certificate from the ticket.
SessionCertSeen == clientCert            \* mutant: not restored
SessionCert ==
    IF choice[Server].psk THEN client.ticketCert ELSE clientCert

ExporterOfAll(transcript) == Append(transcript, Seen(Simple("finished")))
                                         \* mutant: covers the Finished
Exporter(transcript) == transcript

\* The client's Finished: its application keys are the ones it writes with,
\* and the tickets, if any, go out before the handshake is over.
ReadFinished ==
    /\ Receives(Server, "wait_finished", "finished")
    /\ LET h == Hashed(Server, Upcoming(Server).msg)
       IN  /\ hash' = [hash EXCEPT ![Server] = h]
           /\ session' = [session EXCEPT ![Server] =
                             NewSession(Server, SessionCert,
                                        Exporter(hash[Server]), h)]
    /\ readState' = [readState EXCEPT ![Server] = pending[Server].read]
    /\ pending' = [pending EXCEPT ![Server] = NothingPending]
    /\ IF server.tickets
       THEN /\ Send(Server, writeState[Server], <<Simple("tickets")>>,
                    "send_tickets")
            /\ UNCHANGED <<resumed, closed>>
       ELSE Conclude(Server, writeState[Server], FALSE)
    /\ UNCHANGED <<setup, hello, choice, master, ccsSent, clientCert, sockOpen>>

TicketsSent ==
    /\ Sent(Server, "send_tickets")
    /\ Conclude(Server, writeState[Server], FALSE)
    /\ UNCHANGED <<setup, readState, pending, talkVars, session, sockOpen>>

-----------------------------------------------------------------------------
(***************************************************************************)
(* Either end.                                                             *)
(***************************************************************************)
SkipCcs(e) ==
    /\ Incoming(e) /\ SkipsCcs(e)
    /\ Take(e)
    /\ UNCHANGED <<setup, at, out, keyVars, talkVars, endVars>>

GetAlert(e) ==
    /\ at[e] \in Waiting
    /\ Incoming(e)
    /\ Upcoming(e).msg.type = "alert"
    /\ Opens(e) \/ PlainAlert(e)
    /\ Take(e)
    /\ Fail(e)

\* A record that does not open, or whose content makes no sense.
Refuse(e) ==
    /\ at[e] \in Waiting
    /\ Incoming(e)
    /\ ~Upcoming(e).intact \/ ~(Opens(e) \/ PlainAlert(e) \/ SkipsCcs(e))
    /\ Take(e)
    /\ SendError(e)
    /\ readState' = [readState EXCEPT ![e] = Counted(e)]
    /\ UNCHANGED <<setup, pending, talkVars, endVars>>

\* The end raises what it sent: TLSLocalAlert, or the checker's exception.
AlertSent(e) ==
    /\ \E where \in {"send_alert", "send_reject"} : Sent(e, where)
    /\ Fail(e)

\* The peer is gone while the end waits for it.
PeerGone(e) ==
    /\ at[e] \in Waiting /\ AtEnd(e)
    /\ Fail(e)
    /\ UNCHANGED netVars

\* Messages flushed together, and alerts: the socket.error ends it.
FlushFails(e) ==
    /\ at[e] \in {"send_retry", "send_second", "send_answer",
                  "send_finished", "send_alert", "send_reject"}
    /\ Unsendable(e)
    /\ Fail(e)
    /\ UNCHANGED netVars

\* A handshake message sent on its own: one record is read first, in case
\* it is an alert that explains the failure.
SendFails(e) ==
    /\ at[e] \in {"send_hello", "send_cert", "send_verify", "send_flight",
                  "send_tickets"}
    /\ Unsendable(e)
    /\ Goto(e, IF at[e] = "send_tickets" THEN "salvage_tickets" ELSE "salvage")
    /\ UNCHANGED <<setup, keyVars, talkVars, endVars, netVars>>

Unexplained(e) == Opens(e) /\ Upcoming(e).msg.type # "alert"

SalvageFails(e) ==
    /\ at[e] \in Salvaging
    /\ \/ Incoming(e) /\ ~Unexplained(e) /\ Take(e)
       \/ AtEnd(e) /\ UNCHANGED netVars
    /\ Fail(e)

\* The record is something else: the connection is shut down, but nothing
\* is raised, and the handshake returns to its caller as if complete.
SalvageFallsThrough(e) ==
    /\ at[e] = "salvage_tickets"
    /\ Incoming(e) /\ Unexplained(e)
    /\ Take(e)
    /\ Goto(e, IF server.rejects THEN "failed" ELSE "done")
    /\ ResetStates(e)
    /\ CloseSocket(e)
    /\ DropSession(e)
    /\ closed' = [closed EXCEPT ![e] = server.rejects]
    /\ UNCHANGED <<setup, talkVars, resumed>>

\* The client's application writes once its handshake is over.
ClientWrites ==
    /\ at[Client] = "done"
    /\ writeState[Client].seq < MaxWrites
    /\ ~broken
    /\ wire' = IF sockOpen[Server]
               THEN [wire EXCEPT ![Client] =
                        @ \o Sealed(writeState[Client], <<Simple("data")>>)]
               ELSE wire
    /\ writeState' = [writeState EXCEPT ![Client] = Advanced(@)]
    /\ UNCHANGED <<setup, at, out, readState, pending, talkVars, endVars,
                   broken, faults>>

\* Either application reads.
ReadsOn(e) ==
    /\ at[e] = "done"
    /\ Incoming(e) /\ Opens(e)
    /\ Upcoming(e).msg.type # "alert"
    /\ Take(e)
    /\ readState' = [readState EXCEPT ![e] = Counted(e)]
    /\ UNCHANGED <<setup, at, out, writeState, pending, talkVars, endVars>>

-----------------------------------------------------------------------------
(***************************************************************************)
(* The network.                                                            *)
(***************************************************************************)

\* The connection breaks: each end may still read a part of what it was sent.
Break ==
    /\ ~broken /\ faults < MaxFaults
    /\ broken' = TRUE
    /\ faults' = faults + 1
    /\ \E m \in 0..Len(wire[Client]), n \in 0..Len(wire[Server]) :
          wire' = [wire EXCEPT ![Client] = SubSeq(@, 1, m),
                               ![Server] = SubSeq(@, 1, n)]
    /\ UNCHANGED <<setup, at, out, keyVars, talkVars, endVars>>

\* A record arrives altered.
Damage ==
    /\ faults < MaxFaults
    /\ faults' = faults + 1
    /\ \E e \in Ends : \E i \in DOMAIN wire[e] :
          wire' = [wire EXCEPT ![e][i].intact = FALSE]
    /\ UNCHANGED <<setup, at, out, keyVars, talkVars, endVars, broken>>

ClientSteps ==
    \/ SendClientHello
    \/ ClientHelloSent
    \/ ReadRetry
    \/ RefuseRetry
    \/ SecondHelloSent
    \/ ReadServerHello
    \/ RejectServerHello
    \/ ReadFlight
    \/ ReadFlightRequesting
    \/ RefuseProof
    \/ EmptyCertificateSent
    \/ CertificateSent
    \/ CannotSign
    \/ VerifySent
    \/ ClientFinishedSent

ServerSteps ==
    \/ ReadHello
    \/ ReadHelloRetrying
    \/ RefuseHello
    \/ RetrySent
    \/ ReadSecondHello
    \/ RefuseSecondHello
    \/ AnswerSent
    \/ CannotProve
    \/ FlightSent
    \/ ReadCertificate
    \/ ReadVerify
    \/ ReadFinished
    \/ TicketsSent

CommonSteps(e) ==
    \/ SkipCcs(e)
    \/ GetAlert(e)
    \/ Refuse(e)
    \/ AlertSent(e)
    \/ PeerGone(e)
    \/ FlushFails(e)
    \/ SendFails(e)
    \/ SalvageFails(e)
    \/ SalvageFallsThrough(e)

Next ==
    \/ ClientSteps
    \/ ServerSteps
    \/ \E e \in Ends : CommonSteps(e) \/ ReadsOn(e)
    \/ ClientWrites
    \/ Break
    \/ Damage

Spec == Init /\ [][Next]_vars

\* Callers drive a handshake they started to its end.
Fairness ==
    /\ WF_vars(ClientSteps)
    /\ WF_vars(ServerSteps)
    /\ \A e \in Ends : WF_vars(CommonSteps(e))

FairSpec == Spec /\ Fairness

-----------------------------------------------------------------------------
(***************************************************************************)
(* Properties.                                                             *)
(***************************************************************************)

\* Without a fault, whatever record comes next, an end that reads has the
\* key its peer sealed it with: handshake messages, alerts under the old,
\* the new or no key, change_cipher_spec, and the first application data.
ReadsInStep ==
    \A e \in Ends :
        /\ faults = 0
        /\ at[e] \in Waiting \cup Salvaging \cup {"done"}
        /\ Incoming(e)
        => Opens(e) \/ PlainAlert(e) \/ SkipsCcs(e)

\* The certificate the server's session names is one whose owner signed
\* this handshake at the server's request, or the handshake of the session
\* that was resumed; there is none otherwise.
ClientIdentity ==
    session[Server] # NoSession =>
        session[Server].clientCert =
            CASE session[Server].psk -> client.ticketCert
              [] ~session[Server].psk /\ server.reqCert -> client.cert
              [] OTHER -> "none"

\* A handshake that failed, on either end and at whatever point, leaves no
\* session that can be resumed.
FailedNotResumable ==
    \A e \in Ends : at[e] = "failed" => ~session[e].resumable

\* What the settings of the two ends promise, without reference to steps.
Resumes == client.ticket = "good"
Group(prefs) ==
    LET shared == FirstMatch(prefs, ToSet(client.shares))
    IN  IF shared # "none" THEN shared ELSE FirstMatch(prefs, client.groups)
FirstShare ==
    IF SharedGroup(client) = "none" THEN Group(server.groups)
    ELSE client.shares[1]
Compatible ==
    /\ ServerScheme(client) # "none"
    /\ Group(server.groups) # "none"
    /\ \/ Resumes
       \/ ServerScheme(client) # "dvnizk_ed25519"
       \/ FirstShare = "x25519" /\ Group(server.groups) = "x25519"
    /\ \/ Resumes \/ ~server.reqCert \/ client.cert = "none"
       \/ ClientScheme(server) \notin {"none", "dvnizk_ed25519"}

\* A handshake of compatible ends only fails through the network or because
\* a checker rejects the peer: no retry, resumption, certificate request or
\* alert of one end makes the other one give up.
FailsWithReason ==
    \A e \in Ends :
        at[e] = "failed" =>
            faults > 0 \/ ~Compatible \/ client.rejects \/ server.rejects

\* Both ends come to an end, whatever the network does.
Terminates == <>(\A e \in Ends : at[e] \in {"done", "failed"})

-----------------------------------------------------------------------------
\* What an end concluded on.
NoView == [group |-> "none"]
View(e) ==
    IF session[e] = NoSession
    THEN NoView
    ELSE [group |-> session[e].group, psk |-> session[e].psk,
          scheme |-> session[e].scheme, master |-> session[e].master,
          exporter |-> session[e].exporter,
          resumption |-> session[e].resumption]

Agreed == INSTANCE Agreement
             WITH NoView <- NoView, view <- [e \in Ends |-> View(e)]

\* The server only concludes on what the client concluded on: group, way of
\* authentication, application keys, exporter and resumption secrets.
ImplementsAgreement == Agreed!Spec
=============================================================================
