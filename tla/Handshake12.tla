------------------------------ MODULE Handshake12 -----------------------------
(***************************************************************************)
(* The handshakes of tlslite/tlsconnection.py up to TLS 1.2: a client and  *)
(* a server that meet once or several times, each time on new connections, *)
(* with full handshakes (RSA, DHE, ECDHE, anonymous, SRP; certificates on  *)
(* both sides) and resumption by session ID or ticket.                     *)
(*                                                                         *)
(* Messages that leave in one flush are sent in the step that read the     *)
(* message they answer; the messages of a flight are one message.  An      *)
(* altered hello can be read as one that asks for less.                    *)
(***************************************************************************)
EXTENDS Negotiation

CONSTANTS
    Client, Server,   \* the two ends
    Setups            \* the meetings that are checked, a set of setups

Ends == {Client, Server}
Peer(e) == IF e = Client THEN Server ELSE Client

ClientSetups ==
    [settings : SettingsType, auth : {"srp", "cert", "anon"},
     cert : CertKinds, user : {"none", "alice", "bob"}, password : BOOLEAN,
     rejects : BOOLEAN]       \* its checker raises TLSAuthenticationError
ServerSetups ==
    [settings : SettingsType, db : BOOLEAN, cert : CertKinds,
     reqCert : BOOLEAN, cache : BOOLEAN,
     ticketKeys : Seq({"key1", "key2"}), tickets : BOOLEAN,
     rejects : BOOLEAN]
Rounds ==
    [client : ClientSetups, server : ServerSetups,
     restart : BOOLEAN,       \* the server lost its cache since the last one
     late : SUBSET Ends]      \* ends for which older tickets have expired

ASSUME EndsAssumption == Client # Server
ASSUME SetupsAssumption ==
    \A x \in Setups :
        /\ x.faults \in Nat          \* bound: breaks and damaged records
        /\ x.rounds \in Seq(Rounds) /\ x.rounds # <<>>

VARIABLES
    setup,        \* which of Setups this is
    round,        \* which meeting of it
    at,           \* per end: where its handshake stands
    writeKey,     \* per end: key of _recordLayer._writeState
    readKey,      \* per end: key of _recordLayer._readState
    pending,      \* per end: key of the pending states
    hash,         \* per end: _handshake_hash, the transcript so far
    chosen,       \* per end: what the hellos settled
    premaster,    \* per end
    clientCert,   \* per end: the client's certificate, once it was sent
    session,      \* per end: self.session, set when the handshake is over
    held,         \* the session the client's caller kept
    cache,        \* the server's session cache, by the round of a session
    wire,         \* per end: the records it sent that its peer has not read
    sockOpen,     \* per end
    broken,       \* the network dropped the connection
    faults,       \* faults so far
    known         \* per end: the sessions it ever concluded on

keyVars == <<writeKey, readKey, pending>>
talkVars == <<hash, chosen, premaster, clientCert>>
memory == <<held, cache, known>>
netVars == <<wire, broken, faults>>
vars == <<setup, round, at, keyVars, talkVars, session, memory, sockOpen,
          netVars>>

meeting == setup.rounds[round]
client == [meeting.client EXCEPT !.settings = Validated(@)]
server == [meeting.server EXCEPT !.settings = Validated(@)]
Settings(e) == IF e = Client THEN client.settings ELSE server.settings

Waiting == {"wait_hello", "wait_flight", "wait_ccs", "wait_finished"}
Over == {"done", "failed", "tls13"}

NoKey == [master |-> <<>>]
NoSession == [resumable |-> FALSE]
NoChoice == [version |-> 0]
Seen(type) == [type |-> type, intact |-> TRUE]

FreshConnections ==
    /\ at = [e \in Ends |-> IF e = Client THEN "start" ELSE "wait_hello"]
    /\ writeKey = [e \in Ends |-> NoKey]
    /\ readKey = [e \in Ends |-> NoKey]
    /\ pending = [e \in Ends |-> NoKey]
    /\ hash = [e \in Ends |-> <<>>]
    /\ chosen = [e \in Ends |-> NoChoice]
    /\ premaster = [e \in Ends |-> <<>>]
    /\ clientCert = [e \in Ends |-> "none"]
    /\ session = [e \in Ends |-> NoSession]
    /\ wire = [e \in Ends |-> <<>>]
    /\ sockOpen = [e \in Ends |-> TRUE]
    /\ broken = FALSE

Init ==
    /\ setup \in Setups
    /\ round = 1
    /\ FreshConnections
    /\ held = NoSession
    /\ cache = [i \in DOMAIN setup.rounds |-> NoSession]
    /\ faults = 0
    /\ known = [e \in Ends |-> {}]

-----------------------------------------------------------------------------
(***************************************************************************)
(* Records, keys and _shutdown.                                            *)
(***************************************************************************)
Record(msg, key) == [msg |-> msg, key |-> key, intact |-> TRUE]
Unsendable(e) == broken \/ ~sockOpen[Peer(e)]

\* Take what came and send the answer, which nobody reads if the peer is gone.
Answer(e, records) ==
    /\ wire' = [wire EXCEPT
                  ![Peer(e)] = IF @ = <<>> THEN @ ELSE Tail(@),
                  ![e] = IF Unsendable(e) THEN @ ELSE @ \o records]
    /\ UNCHANGED <<broken, faults>>

Incoming(e) == wire[Peer(e)] # <<>>
Upcoming(e) == Head(wire[Peer(e)])
Opens(e) ==
    /\ Upcoming(e).key = readKey[e]
    /\ readKey[e] # NoKey => Upcoming(e).intact
Receives(e, where, type) ==
    /\ at[e] = where
    /\ Incoming(e) /\ Opens(e)
    /\ Upcoming(e).msg.type = type
Hashed(e) == Append(hash[e], [type |-> Upcoming(e).msg.type,
                              intact |-> Upcoming(e).intact])

\* _shutdown(False); a session that may be resumed is only set by the end of
\* a handshake.
Fail(e) ==
    /\ at' = [at EXCEPT ![e] = "failed"]
    /\ sockOpen' = [sockOpen EXCEPT ![e] = FALSE]
    /\ UNCHANGED <<setup, round, keyVars, talkVars, session, memory>>

SendError(e) ==
    /\ Answer(e, <<Record([type |-> "alert"], writeKey[e])>>)
    /\ Fail(e)

\* An exception that is no alert: the peer is told nothing.
Crash(e) == Answer(e, <<>>) /\ Fail(e)

\* The handshake is over but for the checker.  A rejection sends close_notify
\* and makes the session, be it in the cache, one that is not resumed.
Rejects(e) == IF e = Client THEN client.rejects ELSE server.rejects
AfterwardsKept(e, s) == s              \* mutant: rejected, yet still resumable
Afterwards(e, s) == [s EXCEPT !.resumable = ~Rejects(e)]
Finish(e, s, records, cached) ==
    LET alert == IF Rejects(e) THEN <<Record([type |-> "alert"], pending[e])>>
                 ELSE <<>>
    IN  /\ Answer(e, records \o alert)
        /\ session' = [session EXCEPT ![e] = Afterwards(e, s)]
        /\ known' = [known EXCEPT ![e] = @ \cup {s.secured}]
        /\ cache' = IF cached THEN [cache EXCEPT ![s.id] = Afterwards(e, s)]
                    ELSE cache
        /\ at' = [at EXCEPT ![e] = IF Rejects(e) THEN "failed" ELSE "done"]
        /\ sockOpen' = [sockOpen EXCEPT ![e] = ~Rejects(e)]
        /\ writeKey' = [writeKey EXCEPT ![e] = pending[e]]
        /\ UNCHANGED <<setup, round, readKey, pending, chosen, premaster,
                       clientCert, held>>

\* _calcPendingStates.
Key(secured, sh) ==
    [master |-> secured.master, suite |-> secured.suite,
     version |-> sh.version, etm |-> sh.etm, round |-> round]

\* _calculate_master_secret: the extended one covers the transcript up to the
\* client's key exchange.
Master(pre, sh, transcript) == <<pre, IF sh.ems THEN transcript ELSE <<>>>>

\* Finished, as calc_key makes and checks it.
Finished(secured, transcript) ==
    [type |-> "finished", master |-> secured.master, transcript |-> transcript]
Ccs == Record([type |-> "ccs"], NoKey)

-----------------------------------------------------------------------------
(***************************************************************************)
(* The client.                                                             *)
(***************************************************************************)

\* The session the client offers, if valid(), and the ticket of it that is.
Offered ==
    IF held.resumable /\ (held.id # 0 \/ held.ticket # <<>>) THEN held
    ELSE NoSession
Offers == Offered # NoSession
OfferedTicket ==
    IF Offers /\ Client \notin meeting.late THEN Offered.ticket ELSE <<>>

\* An ID is the round its session was made in, or 0; a client that speaks
\* TLS 1.3 makes one up.
OfferedId ==
    IF Offers /\ Offered.id # 0 THEN Offered.id
    ELSE IF Speaks13(client.settings) THEN -round ELSE 0

OwnHello ==
    [type |-> "client_hello", user |-> client.user, id |-> OfferedId,
     extended |-> client.settings.max > 0,
     ticket |-> IF client.settings.max > 0 THEN OfferedTicket ELSE <<>>,
     asks |-> ClientHello(client.settings, client.auth)]

\* What _handshakeClientAsyncHelper raises before it sends anything.
CannotStart ==
    \/ ~Valid(meeting.client.settings)
    \/ client.settings.max >= 3 /\ ClientAlgorithms(client.settings) = <<>>
    \/ Offers /\ Offered.user # client.user
    \/ /\ Offers /\ Offered.id # 0
       /\ Offered.secured.suite
              \notin ClientSuites(client.settings, client.auth)

StartFails ==
    /\ at[Client] = "start"
    /\ CannotStart
    /\ Fail(Client)
    /\ UNCHANGED netVars

SendClientHello ==
    /\ at[Client] = "start"
    /\ ~CannotStart
    /\ \E hello \in {OwnHello} :
          /\ Answer(Client, <<Record(hello, NoKey)>>)
          /\ chosen' = [chosen EXCEPT ![Client] =
                           [version |-> 0, asks |-> hello.asks]]
    /\ hash' = [hash EXCEPT ![Client] = <<Seen("client_hello")>>]
    /\ at' = [at EXCEPT ![Client] = "wait_hello"]
    /\ UNCHANGED <<setup, round, keyVars, premaster, clientCert, session,
                   memory, sockOpen>>

\* What the client can take a ServerHello for.
ServerHelloReadings ==
    LET sh == Upcoming(Client).msg
    IN  IF Upcoming(Client).intact THEN {sh}
        ELSE {[sh EXCEPT !.etm = ~@], [sh EXCEPT !.ems = ~@]}
             \cup {[sh EXCEPT !.version = v, !.sentinel = "none"] :
                      v \in 0..(sh.version - 1)}
             \cup {[sh EXCEPT !.suite = x] : x \in chosen[Client].asks.suites}

\* _clientResume: with a ticket, any ServerHello counts as a resumption.
ResumesBy(sh) ==
    /\ Offers
    /\ \/ Offered.id # 0 /\ sh.id = Offered.id
       \/ OfferedTicket # <<>>
AcceptsHello(sh) ==
    /\ AcceptsServerHello(client.settings, chosen[Client].asks, sh)
    /\ (sh.version < 4 /\ ResumesBy(sh)) => sh.suite = Offered.secured.suite

ReadServerHello ==
    /\ Receives(Client, "wait_hello", "server_hello")
    /\ \E sh \in ServerHelloReadings :
          LET resumes == ResumesBy(sh)
          IN  /\ AcceptsHello(sh)
              /\ sh.version < 4
              /\ chosen' = [chosen EXCEPT ![Client] =
                               [version |-> sh.version, suite |-> sh.suite,
                                id |-> sh.id, etm |-> sh.etm, ems |-> sh.ems,
                                resumed |-> resumes, ticket |-> <<>>]]
              /\ pending' = IF resumes
                            THEN [pending EXCEPT ![Client] =
                                     Key(Offered.secured, sh)]
                            ELSE pending
              /\ at' = [at EXCEPT ![Client] =
                           IF resumes THEN "wait_ccs" ELSE "wait_flight"]
    /\ Answer(Client, <<>>)
    /\ hash' = [hash EXCEPT ![Client] = Hashed(Client)]
    /\ UNCHANGED <<setup, round, writeKey, readKey, premaster, clientCert,
                   session, memory, sockOpen>>

RefuseServerHello ==
    /\ Receives(Client, "wait_hello", "server_hello")
    /\ \E sh \in ServerHelloReadings : ~AcceptsHello(sh)
    /\ SendError(Client)

\* The rest of the handshake is Handshake13's.
EnterTls13 ==
    /\ Receives(Client, "wait_hello", "server_hello")
    /\ \E sh \in ServerHelloReadings : AcceptsHello(sh) /\ sh.version = 4
    /\ Answer(Client, <<>>)
    /\ at' = [at EXCEPT ![Client] = "tls13"]
    /\ UNCHANGED <<setup, round, keyVars, talkVars, session, memory, sockOpen>>

\* What the client checks of the server's flight, in _clientKeyExchange and
\* processServerKeyExchange.
AcceptsSignature(f, intact) ==
    LET c == chosen[Client]
    IN  Signs(c.suite) =>
            /\ intact
            /\ f.version = c.version
            /\ AcceptsAlgorithm(client.settings, f.cert, f.algorithm,
                                c.version)
AcceptsFlight(f) ==
    LET s == client.settings
        c == chosen[Client]
    IN  /\ f.suite[1] = c.suite[1]
        /\ f.cert # "none" => AcceptsCertificate(s, f.cert, c.version)
        /\ AcceptsSignature(f, Upcoming(Client).intact)
        /\ f.request => AcceptsRequest(c.suite, c.version, f.requested)
        /\ InEcdhAll(c.suite) => Contains(s.curves, f.group)
        /\ InSrpAll(c.suite) => s.sizes
SentCert(f) == IF f.request THEN client.cert ELSE "none"
Signatures(f) ==
    ClientSignatures(client.settings, client.cert, f.requested,
                     chosen[Client].version)

\* The client's secret is its own; the server gets it as the network leaves it.
ClientPremaster(ske) ==
    [round |-> round, ske |-> ske, cke |-> TRUE, random |-> FALSE,
     password |-> InSrpAll(chosen[Client].suite) => client.password]

SecuredAnonymous(e, master, cert) ==       \* mutant: who it was is lost
    [master |-> master, suite |-> chosen[e].suite, etm |-> chosen[e].etm,
     ems |-> chosen[e].ems, clientCert |-> "none"]
Secured(e, master, cert) ==
    [master |-> master, suite |-> chosen[e].suite, etm |-> chosen[e].etm,
     ems |-> chosen[e].ems, clientCert |-> cert]

ReadFlight ==
    /\ Receives(Client, "wait_flight", "server_flight")
    /\ \E shared \in {TRUE, Upcoming(Client).intact} :
       LET f == Upcoming(Client).msg
           cert == SentCert(f)
           verified == Append(Hashed(Client), Seen("client_flight"))
           pre == ClientPremaster(shared)
           master == Master(pre, chosen[Client], verified)
           secured == Secured(Client, master, cert)
           key == Key(secured, chosen[Client])
       IN  /\ AcceptsFlight(f)
           /\ cert # "none" => Signatures(f) # <<>>
           /\ Answer(Client,
                <<Record([type |-> "client_flight", cert |-> cert,
                          algorithm |-> IF cert = "none" THEN Sha1
                                        ELSE Signatures(f)[1],
                          signed |-> verified,
                          version |-> Lesser(client.settings.max, 3)],
                         NoKey),
                  Ccs, Record(Finished(secured, verified), key)>>)
           /\ hash' = [hash EXCEPT ![Client] =
                          Append(verified, Seen("finished"))]
           /\ premaster' = [premaster EXCEPT ![Client] = pre]
           /\ clientCert' = [clientCert EXCEPT ![Client] = cert]
           /\ pending' = [pending EXCEPT ![Client] = key]
           /\ writeKey' = [writeKey EXCEPT ![Client] = key]
    /\ at' = [at EXCEPT ![Client] = "wait_ccs"]
    /\ UNCHANGED <<setup, round, readKey, chosen, session, memory, sockOpen>>

RefuseFlight ==
    /\ Receives(Client, "wait_flight", "server_flight")
    /\ ~AcceptsFlight(Upcoming(Client).msg)
    /\ SendError(Client)

CannotVerify ==
    /\ Receives(Client, "wait_flight", "server_flight")
    /\ LET f == Upcoming(Client).msg
       IN  /\ AcceptsFlight(f)
           /\ SentCert(f) # "none"
           /\ Signatures(f) = <<>>
    /\ Crash(Client)

\* _getFinished takes a ticket before the change_cipher_spec.
ReadTicket ==
    /\ Receives(Client, "wait_ccs", "ticket")
    /\ chosen[Client].ticket = <<>>
    /\ Answer(Client, <<>>)
    /\ hash' = [hash EXCEPT ![Client] = Hashed(Client)]
    /\ chosen' = [chosen EXCEPT ![Client].ticket =
                     <<Upcoming(Client).msg.ticket>>]
    /\ UNCHANGED <<setup, round, at, keyVars, premaster, clientCert, session,
                   memory, sockOpen>>

\* The server's Finished ends a full handshake; it is answered in a resumption.
FinishedOfMaster(e) ==                 \* mutant: without the transcript
    Upcoming(e).msg.master = readKey[e].master
FinishedRight(e) ==
    Upcoming(e).msg = [type |-> "finished", master |-> readKey[e].master,
                       transcript |-> hash[e]]

ClientFinishes ==
    /\ Receives(Client, "wait_finished", "finished")
    /\ FinishedRight(Client)
    /\ ~chosen[Client].resumed
    /\ Finish(Client,
              [secured |-> Secured(Client, readKey[Client].master,
                                   clientCert[Client]),
               id |-> chosen[Client].id, user |-> client.user,
               ticket |-> chosen[Client].ticket, resumable |-> TRUE],
              <<>>, FALSE)
    /\ hash' = [hash EXCEPT ![Client] = Hashed(Client)]

ClientResumes ==
    /\ Receives(Client, "wait_finished", "finished")
    /\ FinishedRight(Client)
    /\ chosen[Client].resumed
    /\ Finish(Client, Offered,
              <<Ccs, Record(Finished(Offered.secured, Hashed(Client)),
                            pending[Client])>>, FALSE)
    /\ hash' = [hash EXCEPT ![Client] = Append(Hashed(Client),
                                               Seen("finished"))]

-----------------------------------------------------------------------------
(***************************************************************************)
(* The server.                                                             *)
(***************************************************************************)
ServerCannotStart ==
    /\ at[Server] = "wait_hello"
    /\ ~Valid(meeting.server.settings)
    /\ Fail(Server)
    /\ UNCHANGED netVars

\* What the server can take a ClientHello for.
HelloReadings ==
    LET h == Upcoming(Server).msg
    IN  IF Upcoming(Server).intact THEN {h}
        ELSE {[h EXCEPT !.asks.etm = FALSE], [h EXCEPT !.asks.ems = FALSE]}
             \cup {[h EXCEPT !.asks.version = v, !.asks.versions = <<>>] :
                      v \in 0..h.asks.version}
             \cup {[h EXCEPT !.asks.suites = {x}] : x \in h.asks.suites}

\* The ticket if there is one, else the cache.
Decrypts(ticket) ==
    /\ ticket # <<>>
    /\ ticket[1].key \in ToSet(server.ticketKeys)
    /\ Server \notin meeting.late
_ticket_to_sessionMacFirst(h) ==       \* mutant: the ticket lost one flag
    [secured |-> [h.ticket[1].secured EXCEPT !.etm = FALSE], id |-> h.id,
     user |-> "none", ticket |-> <<>>, resumable |-> TRUE]
_ticket_to_session(h) ==
    [secured |-> h.ticket[1].secured, id |-> h.id, user |-> "none",
     ticket |-> <<>>, resumable |-> TRUE]
Lookup(h) ==
    IF Decrypts(h.ticket) THEN _ticket_to_session(h)
    ELSE IF h.ticket = <<>> /\ server.cache /\ h.id > 0 THEN cache[h.id]
    ELSE NoSession

ConsidersAny(h, version) ==            \* mutant: whatever the settings say
    Lookup(h).resumable
Considers(h, version) ==
    /\ Lookup(h).resumable
    /\ Lookup(h).secured.suite \in ServerSuites(server, h.asks, version)

\* An inconsistent offer is an alert.
MayNotResumeUnlike(h, s) ==            \* mutant: also if it needs less
    \/ s.secured.suite \notin h.asks.suites
    \/ h.user # "none" /\ s.user # h.user
    \/ s.secured.etm # h.asks.etm
    \/ s.secured.ems /\ ~h.asks.ems
MayNotResume(h, s) ==
    \/ s.secured.suite \notin h.asks.suites
    \/ h.user # "none" /\ s.user # h.user
    \/ s.secured.etm /\ ~h.asks.etm
    \/ s.secured.ems /\ ~h.asks.ems

Alert == [result |-> "alert"]
Exception == [result |-> "exception"]

\* _handshakeServerAsyncHelper, once no session is resumed and a suite is
\* selected: a TLS 1.3 handshake or a full one, an alert or an exception that
\* is none.
FullDecision(h, version, suite) ==
    LET s == server.settings
        groups == KeyExchangeGroups(s, h.asks, suite)
        algorithm ==
            IF Signs(suite)
            THEN Head(ServerAlgorithms(s, server.cert, h.asks, version))
            ELSE Sha1
    IN  IF version = 4
        THEN [result |-> "tls13", version |-> version, suite |-> suite,
              id |-> h.id, etm |-> FALSE, ems |-> FALSE,
              sentinel |-> "none"]
        ELSE IF \/ s.ems = "require" /\ ~h.asks.ems
                \/ InSrpAll(suite) /\ h.user # "alice"  \* in the verifierDB
                \/ groups = <<>> /\ ~InAnon(suite)
        THEN Alert
        ELSE IF \/ groups = <<>>
                \/ Signs(suite) /\ CannotSign(server.cert, algorithm, version)
        THEN Exception
        ELSE [result |-> "full", version |-> version, suite |-> suite,
              id |-> IF server.cache THEN round ELSE 0,
              etm |-> NegotiatesEtm(s, h.asks, suite),
              ems |-> s.ems # "none" /\ h.asks.ems,
              sentinel |-> Sentinel(s, version),
              group |-> Head(groups), algorithm |-> algorithm]
FullDecisions(h, version) ==
    LET suites == SelectedSuites(server, h.asks, version)
    IN  IF suites = {} THEN {Alert}
        ELSE {FullDecision(h, version, suite) : suite \in suites}

\* _serverGetClientHello; a session without the extended master secret is
\* not resumed for a client that asks for it.
VersionDecisions(h, version) ==
    LET found == Lookup(h)
        considered == Considers(h, version)
        secured == found.secured
    IN  IF considered /\ MayNotResume(h, found) THEN {Alert}
        ELSE IF considered /\ (h.asks.ems => secured.ems)
        THEN {[result |-> "resume", version |-> version,
               suite |-> secured.suite, id |-> found.id,
               etm |-> secured.etm, ems |-> secured.ems,
               sentinel |-> "none"]}
        ELSE FullDecisions(h, version)
Decisions(h) ==
    IF Refused(server.settings, h.asks) THEN {Alert}
    ELSE UNION {VersionDecisions(h, version) :
                    version \in ServerVersions(server.settings, h.asks)}

ServerHello(d) ==
    [type |-> "server_hello", version |-> d.version, suite |-> d.suite,
     id |-> d.id, etm |-> d.etm, ems |-> d.ems, sentinel |-> d.sentinel]

Resume(h, d) ==
    LET s == Lookup(h)
        answered == Append(Hashed(Server), Seen("server_hello"))
        key == Key(s.secured, d)
    IN  /\ Answer(Server,
                  <<Record(ServerHello(d), NoKey), Ccs,
                    Record(Finished(s.secured, answered), key)>>)
        /\ hash' = [hash EXCEPT ![Server] =
                       Append(answered, Seen("finished"))]
        /\ chosen' = [chosen EXCEPT ![Server] =
                         [version |-> d.version, resumed |-> TRUE,
                          cached |-> h.ticket = <<>>, session |-> s]]
        /\ pending' = [pending EXCEPT ![Server] = key]
        /\ writeKey' = [writeKey EXCEPT ![Server] = key]
        /\ at' = [at EXCEPT ![Server] = "wait_ccs"]
        /\ UNCHANGED <<setup, round, readKey, premaster, clientCert, session,
                       memory, sockOpen>>

\* Certificate, ServerKeyExchange and CertificateRequest.
ServerFlight(d) ==
    LET certified == HasCertificate(d.suite)
        request == server.reqCert /\ certified /\ ~InSrpAll(d.suite)
    IN  [type |-> "server_flight", version |-> d.version, suite |-> d.suite,
         cert |-> IF certified THEN server.cert ELSE "none",
         group |-> d.group, algorithm |-> d.algorithm,
         request |-> request,
         requested |-> IF request
                       THEN _sigHashesToList(server.settings, "none",
                                             d.version)
                       ELSE <<>>]

NegotiateFull(h, d) ==
    /\ Answer(Server, <<Record(ServerHello(d), NoKey),
                        Record(ServerFlight(d), NoKey)>>)
    /\ chosen' = [chosen EXCEPT ![Server] =
          [version |-> d.version, suite |-> d.suite, id |-> d.id,
           etm |-> d.etm, ems |-> d.ems, resumed |-> FALSE,
           cached |-> server.cache, user |-> h.user,
           hello |-> h.asks.version,
           newTicket |-> /\ h.extended /\ h.ticket = <<>>
                         /\ server.tickets /\ server.ticketKeys # <<>>]]
    /\ hash' = [hash EXCEPT ![Server] =
                   Hashed(Server) \o <<Seen("server_hello"),
                                       Seen("server_flight")>>]
    /\ at' = [at EXCEPT ![Server] = "wait_flight"]
    /\ UNCHANGED <<setup, round, keyVars, premaster, clientCert, session,
                   memory, sockOpen>>

NegotiateTls13(d) ==
    /\ Answer(Server, <<Record(ServerHello(d), NoKey)>>)
    /\ at' = [at EXCEPT ![Server] = "tls13"]
    /\ UNCHANGED <<setup, round, keyVars, talkVars, session, memory, sockOpen>>

ReadClientHello ==
    /\ Receives(Server, "wait_hello", "client_hello")
    /\ \E h \in HelloReadings : \E d \in Decisions(h) :
          \/ d.result = "alert" /\ SendError(Server)
          \/ d.result = "exception" /\ Crash(Server)
          \/ d.result = "resume" /\ Resume(h, d)
          \/ d.result = "full" /\ NegotiateFull(h, d)
          \/ d.result = "tls13" /\ NegotiateTls13(d)

AcceptsClientFlight(f) ==
    LET c == chosen[Server]
    IN  f.cert # "none" =>
            /\ AcceptsAlgorithm(server.settings, f.cert, f.algorithm,
                                c.version)
            /\ AcceptsCertificate(server.settings, f.cert, c.version)
            /\ f.signed = Hashed(Server)

\* An RSA premaster secret with a wrong version is replaced by a random one.
ServerPremaster(f, shared) ==
    LET c == chosen[Server]
    IN  [round |-> round, ske |-> TRUE, cke |-> shared,
         random |-> InCert(c.suite) /\ f.version \notin {c.hello, c.version},
         password |-> TRUE]

ReadClientFlight ==
    /\ Receives(Server, "wait_flight", "client_flight")
    /\ \E shared \in {TRUE, Upcoming(Server).intact} :
          LET f == Upcoming(Server).msg
              pre == ServerPremaster(f, shared)
              master == Master(pre, chosen[Server], Hashed(Server))
          IN  /\ AcceptsClientFlight(f)
              /\ premaster' = [premaster EXCEPT ![Server] = pre]
              /\ clientCert' = [clientCert EXCEPT ![Server] = f.cert]
              /\ pending' = [pending EXCEPT ![Server] =
                                Key(Secured(Server, master, f.cert),
                                    chosen[Server])]
    /\ Answer(Server, <<>>)
    /\ hash' = [hash EXCEPT ![Server] = Hashed(Server)]
    /\ at' = [at EXCEPT ![Server] = "wait_ccs"]
    /\ UNCHANGED <<setup, round, writeKey, readKey, chosen, session, memory,
                   sockOpen>>

RefuseClientFlight ==
    /\ Receives(Server, "wait_flight", "client_flight")
    /\ ~AcceptsClientFlight(Upcoming(Server).msg)
    /\ SendError(Server)

\* _serverSendTickets, in the clear before the change_cipher_spec.
NewTickets(secured) ==
    IF chosen[Server].newTicket
    THEN LET ticket == [key |-> Head(server.ticketKeys), secured |-> secured]
         IN  <<[type |-> "ticket", ticket |-> ticket]>>
    ELSE <<>>

ServerFinishes ==
    /\ Receives(Server, "wait_finished", "finished")
    /\ FinishedRight(Server)
    /\ ~chosen[Server].resumed
    /\ LET secured == Secured(Server, readKey[Server].master,
                              clientCert[Server])
           tickets == NewTickets(secured)
           transcript == Hashed(Server)
                         \o [i \in DOMAIN tickets |-> Seen("ticket")]
       IN  /\ Finish(Server,
                     [secured |-> secured, id |-> chosen[Server].id,
                      user |-> chosen[Server].user, ticket |-> <<>>,
                      resumable |-> TRUE],
                     [i \in DOMAIN tickets |-> Record(tickets[i], NoKey)]
                     \o <<Ccs, Record(Finished(secured, transcript),
                                      pending[Server])>>,
                     chosen[Server].cached)
           /\ hash' = [hash EXCEPT ![Server] =
                          Append(transcript, Seen("finished"))]

ServerResumes ==
    /\ Receives(Server, "wait_finished", "finished")
    /\ FinishedRight(Server)
    /\ chosen[Server].resumed
    /\ Finish(Server, chosen[Server].session, <<>>, chosen[Server].cached)
    /\ hash' = [hash EXCEPT ![Server] = Hashed(Server)]

-----------------------------------------------------------------------------
(***************************************************************************)
(* Either end, and the network.                                            *)
(***************************************************************************)

\* _changeReadState.
ReadCcs(e) ==
    /\ Receives(e, "wait_ccs", "ccs")
    /\ Upcoming(e).intact
    /\ Answer(e, <<>>)
    /\ readKey' = [readKey EXCEPT ![e] = pending[e]]
    /\ at' = [at EXCEPT ![e] = "wait_finished"]
    /\ UNCHANGED <<setup, round, writeKey, pending, talkVars, session, memory,
                   sockOpen>>

RefuseFinished(e) ==
    /\ Receives(e, "wait_finished", "finished")
    /\ ~FinishedRight(e)
    /\ SendError(e)

GetAlert(e) ==
    /\ at[e] \in Waiting
    /\ Incoming(e) /\ Opens(e)
    /\ Upcoming(e).msg.type = "alert"
    /\ Answer(e, <<>>)
    /\ Fail(e)

Expected(e) ==
    CASE at[e] = "wait_hello" ->
             {IF e = Client THEN "server_hello" ELSE "client_hello"}
      [] at[e] = "wait_flight" ->
             {IF e = Client THEN "server_flight" ELSE "client_flight"}
      [] at[e] = "wait_ccs" ->
             {"ccs"} \cup (IF e = Client /\ chosen[e].ticket = <<>>
                           THEN {"ticket"} ELSE {})
      [] at[e] = "wait_finished" -> {"finished"}

\* _getMsg refuses what it cannot open, parse or expect.
Refuse(e) ==
    /\ at[e] \in Waiting
    /\ Incoming(e)
    /\ \/ ~Opens(e)
       \/ Upcoming(e).msg.type \notin Expected(e) \cup {"alert"}
       \/ ~Upcoming(e).intact
    /\ SendError(e)

\* A read, or the answer to it, finds the connection gone.
PeerAwaited(e) == FALSE                \* mutant: the read is tried again
PeerGone(e) ==
    /\ at[e] \in Waiting
    /\ ~Incoming(e) /\ Unsendable(e)
    /\ Fail(e)
    /\ UNCHANGED netVars
CannotSend(e) ==
    /\ at[e] \in Waiting
    /\ Incoming(e) /\ Unsendable(e)
    /\ Crash(e)

Break ==
    /\ faults < setup.faults
    /\ ~broken
    /\ broken' = TRUE
    /\ wire' \in {wire, [e \in Ends |-> <<>>]}
    /\ faults' = faults + 1
    /\ UNCHANGED <<setup, round, at, keyVars, talkVars, session, memory,
                   sockOpen>>

Damage ==
    /\ faults < setup.faults
    /\ \E e \in Ends :
          /\ wire[e] # <<>> /\ Head(wire[e]).intact
          /\ wire' = [wire EXCEPT ![e][1].intact = FALSE]
    /\ faults' = faults + 1
    /\ UNCHANGED <<setup, round, at, keyVars, talkVars, session, memory,
                   sockOpen, broken>>

\* The ends meet again; the client brings its last session.
NextRound ==
    /\ \A e \in Ends : at[e] \in Over
    /\ round < Len(setup.rounds)
    /\ round' = round + 1
    /\ held' = IF session[Client] # NoSession THEN session[Client] ELSE held
    /\ cache' = IF setup.rounds[round + 1].restart
                THEN [i \in DOMAIN cache |-> NoSession] ELSE cache
    /\ at' = [e \in Ends |-> IF e = Client THEN "start" ELSE "wait_hello"]
    /\ writeKey' = [e \in Ends |-> NoKey]
    /\ readKey' = [e \in Ends |-> NoKey]
    /\ pending' = [e \in Ends |-> NoKey]
    /\ hash' = [e \in Ends |-> <<>>]
    /\ chosen' = [e \in Ends |-> NoChoice]
    /\ premaster' = [e \in Ends |-> <<>>]
    /\ clientCert' = [e \in Ends |-> "none"]
    /\ session' = [e \in Ends |-> NoSession]
    /\ wire' = [e \in Ends |-> <<>>]
    /\ sockOpen' = [e \in Ends |-> TRUE]
    /\ broken' = FALSE
    /\ UNCHANGED <<setup, faults, known>>

ClientNext ==
    \/ StartFails \/ SendClientHello
    \/ ReadServerHello \/ RefuseServerHello \/ EnterTls13
    \/ ReadFlight \/ RefuseFlight \/ CannotVerify
    \/ ReadTicket \/ ClientFinishes \/ ClientResumes
ServerNext ==
    \/ ServerCannotStart
    \/ ReadClientHello
    \/ ReadClientFlight \/ RefuseClientFlight
    \/ ServerFinishes \/ ServerResumes
EndNext(e) ==
    \/ ReadCcs(e) \/ RefuseFinished(e) \/ GetAlert(e) \/ Refuse(e)
    \/ PeerGone(e) \/ CannotSend(e)

Steps == ClientNext \/ ServerNext \/ (\E e \in Ends : EndNext(e)) \/ NextRound
Next == Steps \/ Break \/ Damage

\* Each end runs its generator, and the meetings take place.
Fairness == WF_vars(Steps)
Spec == Init /\ [][Next]_vars /\ Fairness

-----------------------------------------------------------------------------
(***************************************************************************)
(* Properties.                                                             *)
(***************************************************************************)
Regular(s) ==
    /\ Supported(s) = s.min..s.max
    /\ \A i, j \in DOMAIN s.versions :
          i < j /\ {s.versions[i], s.versions[j]} \subseteq Supported(s) =>
              s.versions[i] >= s.versions[j]
BestVersion ==
    Lesser(Settings(Client).max, Settings(Server).max)

\* Whatever the network alters, the ends conclude on the highest version that
\* both of them support, if their lists of versions go down from maxVersion
\* without gaps (the server takes the first of its own that the client lists):
\* a lowered hello is given away by the Finished messages.
HighestVersion ==
    Regular(Settings(Client)) /\ Regular(Settings(Server)) =>
        \A e \in Ends : at[e] = "done" => chosen[e].version = BestVersion

\* Each end only concludes on a suite that its own settings allow now, also
\* when it resumes a session that it made under other settings.
SuiteAllowed ==
    \A e \in Ends : at[e] = "done" =>
        LET suite == session[e].secured.suite
            all == IF e = Client
                   THEN ClientSuites(client.settings, client.auth)
                   ELSE ServerSuites(server, OwnHello.asks, chosen[e].version)
        IN  /\ suite \in all
            /\ filterForVersion(suite, chosen[e].version, chosen[e].version)

\* The keys an end takes up are those its settings named when it allowed the
\* suite: every suite has one cipher and one MAC in all of the tables written
\* by hand, one that its version has; encrypt-then-MAC only with a CBC cipher.
\* But TLS_DHE_DSS_WITH_AES_256_GCM_SHA384 is in sha384Suites and in
\* aeadSuites, and macNames allows it under either name.
KeyFits(e) ==
    LET key == readKey[e]
        aead == key.suite \in aeadSuites
    IN  /\ _getCipherSettings(key.suite) \in KeySettings
        /\ canonicalCipherName(key.suite) \in Settings(e).ciphers
        /\ (_getMacSettings(key.suite).length = 0) <=> aead
        /\ \E mac \in Settings(e).macs :
               mac = IF aead /\ mac = "aead" THEN "aead"
                     ELSE canonicalMacName(key.suite)
        /\ aead \/ _getMacSettings(key.suite).digest =
                       canonicalMacName(key.suite)
        /\ key.version < 3 => key.suite \in ssl3Suites
        /\ key.etm => key.suite \notin streamSuites \cup aeadSuites
KeysFit == \A e \in Ends : at[e] = "done" => KeyFits(e)

\* What an end concludes on is allowed by its settings as they are now, and
\* is what it then puts to use.
SuiteFits == SuiteAllowed /\ KeysFit

\* The meeting in which a session's master secret was made.
Origin(s) == setup.rounds[s.secured.master[1].round]

\* The client identity in the server's session is the certificate that the
\* client proved to hold when the session was made, if it was asked for one:
\* neither resumption nor a ticket loses it or brings another one.
ClientIdentity ==
    at[Server] = "done" =>
        LET origin == Origin(session[Server])
            suite == session[Server].secured.suite
            asked == /\ origin.server.reqCert
                     /\ HasCertificate(suite) /\ ~InSrpAll(suite)
        IN  session[Server].secured.clientCert =
                IF asked THEN origin.client.cert ELSE "none"

\* No end takes up a session again that its own checker turned down when it
\* was made, except a server that gets it from a ticket.
RejectedStaysOut ==
    /\ (at[Client] = "done" /\ chosen[Client].resumed)
           => ~Origin(session[Client]).client.rejects
    /\ (at[Server] = "done" /\ chosen[Server].resumed
           /\ chosen[Server].cached)
           => ~Origin(session[Server]).server.rejects

\* "If the resumption does not succeed, a full handshake will be performed"
\* (tlsconnection.py): ends that made a session once and come again, with the
\* same settings, do not fail.
Again ==
    /\ round > 1
    /\ meeting.client = setup.rounds[1].client
    /\ meeting.server = setup.rounds[1].server
    /\ \E x \in known[Client] \cap known[Server] : x.master[1].round = 1
FallsBack ==
    (\E e \in Ends : at[e] = "failed") =>
        faults > 0 \/ client.rejects \/ server.rejects \/ ~Again

\* They do not fail, whatever the server forgot since, unless the client
\* offers a ticket that has expired on the server, is for an SRP session or
\* is from a server that does without the extended master secret.
TicketRefused ==
    /\ OfferedTicket # <<>>
    /\ \/ Server \in meeting.late
       \/ client.user # "none"
       \/ OwnHello.asks.ems /\ ~Offered.secured.ems
ServedAgain == FallsBack \/ TicketRefused

\* Both ends come to the end of every meeting, whatever the network does.
Terminates == <>[](\A e \in Ends : at[e] \in Over)

\* What an end concluded on.
View(e) ==
    IF session[e] = NoSession THEN NoSession
    ELSE [session |-> session[e].secured, version |-> chosen[e].version,
          key |-> readKey[e], resumed |-> chosen[e].resumed]

Agreed == INSTANCE SessionAgreement
             WITH NoView <- NoSession, view <- [e \in Ends |-> View(e)]

\* The ends conclude on the same version, keys and session, and resume only
\* sessions that both of them concluded on.
ImplementsAgreement == Agreed!Spec
=============================================================================
