--------------------------- MODULE Handshake12Proofs ---------------------------
(***************************************************************************)
(* The handshakes up to TLS 1.2, for any settings, any number of meetings  *)
(* and any number of faults: the ends conclude on the same session,        *)
(* version and keys and resume only what both of them concluded on (the    *)
(* refinement of SessionAgreement), on a suite that the settings of each   *)
(* allow, with keys of its cipher and MAC, and on the highest version that *)
(* both support; the server's session names the certificate that the       *)
(* client had when the session was made; and a session that an end's own   *)
(* checker turned down is not taken up again.                              *)
(*                                                                         *)
(* The argument is about keys and transcripts.  A Finished record is       *)
(* sealed with the key its sender has taken up, and that key names the     *)
(* master secret, the suite, the version and encrypt-then-MAC.  A master   *)
(* secret names the meeting it was made in and tells whether it was        *)
(* extended, and each meeting makes one at most.  So an end that opens the *)
(* other's Finished is in the same kind of handshake and has the same      *)
(* session.  And a Finished covers a transcript that begins with the       *)
(* client's hello as each end had it: no end concludes if the hello from   *)
(* which the server took the version was altered.                          *)
(***************************************************************************)
EXTENDS Handshake12, SequenceTheorems, TLAPS

-----------------------------------------------------------------------------
(***************************************************************************)
(* The inductive invariant.                                                *)
(***************************************************************************)
IsSeq(s) == s \in Seq(ToSet(s))
IsRecord(r) == r = [msg |-> r.msg, key |-> r.key, intact |-> r.intact]

\* The type invariant, as far as it is needed.
Maps ==
    /\ setup \in Setups /\ round \in 1..Len(setup.rounds)
    /\ DOMAIN at = Ends /\ DOMAIN hash = Ends
    /\ DOMAIN writeKey = Ends /\ DOMAIN readKey = Ends
    /\ DOMAIN pending = Ends /\ DOMAIN chosen = Ends
    /\ DOMAIN clientCert = Ends /\ DOMAIN session = Ends
    /\ DOMAIN known = Ends
    /\ DOMAIN cache = DOMAIN setup.rounds

Heard == \A e \in Ends : IsSeq(hash[e])

Wired ==
    /\ DOMAIN wire = Ends
    /\ \A e \in Ends : IsSeq(wire[e]) /\ \A r \in ToSet(wire[e]) : IsRecord(r)

Shape == Maps /\ Heard /\ Wired

\* The handshake an end is in, once it has keys.
InFull(e) == pending[e] # NoKey /\ ~chosen[e].resumed
InResumption(e) == pending[e] # NoKey /\ chosen[e].resumed

Early == {"start", "wait_hello", "wait_flight"}
Late == {"wait_ccs", "wait_finished"}

Placed(e) ==
    /\ at[e] \in Early \cup Late \cup Over
    /\ at[e] \in Early => pending[e] = NoKey
    /\ at[e] \in Late => pending[e] # NoKey
    /\ at[e] = "wait_flight" => ~chosen[e].resumed
    /\ pending[e] # NoKey \/ at[e] = "wait_flight" =>
          chosen[e].resumed \in BOOLEAN
    /\ at[e] = "wait_finished" => readKey[e] = pending[e]
    /\ at[e] \notin Over => session[e] = NoSession
    /\ at[e] = "done" => session[e] # NoSession

\* A key names what was chosen.  Its master secret is this meeting's, and
\* tells whether it is the extended one.
FullKey(e) ==
    /\ pending[e].suite = chosen[e].suite
    /\ pending[e].version = chosen[e].version
    /\ pending[e].etm = chosen[e].etm
    /\ pending[e].master[1].round = round
    /\ chosen[e].ems = (pending[e].master[2] # <<>>)
\* Or, in a resumption, it is the earlier session's.
ResumedKey(e, secured) ==
    /\ pending[e].master = secured.master
    /\ pending[e].version = chosen[e].version

\* The session that a full handshake ends with.
FullSecured(e) == Secured(e, pending[e].master, clientCert[e])

Keyed(e) ==
    /\ pending[e] = NoKey => writeKey[e] = NoKey /\ readKey[e] = NoKey
    /\ writeKey[e] \in {NoKey, pending[e]}
    /\ readKey[e] \in {NoKey, pending[e]}
    /\ session[e] # NoSession =>
          /\ pending[e] # NoKey
          /\ readKey[e] = pending[e] /\ writeKey[e] = pending[e]
    /\ InFull(e) => FullKey(e)
    /\ InFull(e) /\ session[e] # NoSession =>
          session[e].secured = FullSecured(e)

\* The end that answers the other's Finished takes its key up when it
\* concludes.
ClientKeyed ==
    /\ InFull(Client) => writeKey[Client] = pending[Client]
    /\ InResumption(Client) =>
          Offers /\ ResumedKey(Client, held.secured)
    /\ InResumption(Client) /\ session[Client] = NoSession =>
          writeKey[Client] = NoKey
    /\ InResumption(Client) /\ session[Client] # NoSession =>
          session[Client].secured = held.secured
ServerKeyed ==
    /\ InFull(Server) /\ session[Server] = NoSession =>
          writeKey[Server] = NoKey
    /\ InResumption(Server) =>
          /\ writeKey[Server] = pending[Server]
          /\ ResumedKey(Server, chosen[Server].session.secured)
    /\ InResumption(Server) /\ session[Server] # NoSession =>
          session[Server].secured = chosen[Server].session.secured

\* An end that concluded opened a record of the key its peer has taken up.
Opened ==
    \A e \in Ends : session[e] # NoSession => writeKey[Peer(e)] = readKey[e]

\* Whether the server's flight asks for a certificate, and who the client
\* then says it is.
Asks(r, suite) ==
    r.server.reqCert /\ HasCertificate(suite) /\ ~InSrpAll(suite)
Identity(r, suite) == IF Asks(r, suite) THEN r.client.cert ELSE "none"

\* The server is in a full handshake.
Negotiated == at[Server] # "wait_hello" /\ ~chosen[Server].resumed

Identities ==
    /\ InFull(Client) =>
          /\ Negotiated
          /\ clientCert[Client] = Identity(meeting, chosen[Server].suite)
    /\ InFull(Server) =>
          InFull(Client) /\ clientCert[Server] = clientCert[Client]

\* Encrypt-then-MAC is for CBC ciphers.
EtmFits(x) == x.etm => x.suite \notin streamSuites \cup aeadSuites

\* The master secret of a session tells when it was made, and which one it is.
MadeIn(x) == x.master[1].round
Meeting(x) == setup.rounds[MadeIn(x)]
Known ==
    /\ known[Client] \subseteq known[Server]
    /\ \A x \in known[Server] :
        /\ MadeIn(x) \in 1..round
        /\ MadeIn(x) = round => session[Server] # NoSession /\ InFull(Server)
        /\ x.ems \in BOOLEAN /\ EtmFits(x)
        /\ x.clientCert = Identity(Meeting(x), x.suite)
    /\ \A x, y \in known[Server] : MadeIn(x) = MadeIn(y) => x = y

\* What the ends keep: the sessions they concluded on, and resumable ones
\* only if they did not turn them down.
IdOk(i) == i \in Int /\ i <= round
TicketOk(t) == t = <<>> \/ t[1].secured \in known[Server]
ClientKept(s) ==
    /\ {"secured", "id", "ticket", "resumable"} \subseteq DOMAIN s
    /\ s.secured \in known[Client]
    /\ IdOk(s.id) /\ TicketOk(s.ticket)
    /\ s.resumable => ~Origin(s).client.rejects
ServerKept(s) ==
    /\ {"secured", "id", "resumable"} \subseteq DOMAIN s
    /\ s.secured \in known[Server]
    /\ IdOk(s.id)
    /\ s.resumable => ~Origin(s).server.rejects

Memory ==
    /\ held = NoSession \/ ClientKept(held)
    /\ session[Client] = NoSession \/ ClientKept(session[Client])
    /\ session[Server] = NoSession \/ session[Server].secured \in known[Server]
    /\ \A i \in DOMAIN cache : cache[i] = NoSession \/ ServerKept(cache[i])

\* What the hellos settled.
ClientSettled ==
    /\ at[Client] \in {"wait_flight"} \cup Late =>
          /\ {"version", "suite", "id", "etm", "ems", "resumed", "ticket"}
                \subseteq DOMAIN chosen[Client]
          /\ IdOk(chosen[Client].id) /\ TicketOk(chosen[Client].ticket)
    /\ at[Client] = "wait_flight" => chosen[Client].ems \in BOOLEAN
ServerSettled ==
    /\ at[Server] = "wait_flight" => chosen[Server].ems \in BOOLEAN
    /\ InFull(Server) \/ at[Server] = "wait_flight" => IdOk(chosen[Server].id)
    /\ InResumption(Server) =>
          LET s == chosen[Server].session
          IN  /\ {"secured", "resumable"} \subseteq DOMAIN s
              /\ s.resumable
              /\ s.secured \in known[Server] /\ MadeIn(s.secured) < round
              /\ chosen[Server].cached => ServerKept(s)

\* The suite is one that the end's settings allow, for the version.
Asked == ClientHello(client.settings, client.auth)
ClientFits(suite, version) ==
    /\ version \in Int /\ filterForVersion(suite, version, version)
    /\ suite \in ClientSuites(client.settings, client.auth)
ServerFits(suite, version) ==
    /\ version \in Int /\ filterForVersion(suite, version, version)
    /\ suite \in ServerSuites(server, Asked, version)

ClientSuited ==
    /\ at[Client] = "wait_hello" => chosen[Client].asks = Asked
    /\ pending[Client] # NoKey \/ at[Client] = "wait_flight" =>
          ClientFits(chosen[Client].suite, chosen[Client].version)
    /\ InResumption(Client) =>
          /\ chosen[Client].suite = held.secured.suite
          /\ pending[Client].suite = held.secured.suite
ServerSuited ==
    /\ InFull(Server) \/ at[Server] = "wait_flight" =>
          /\ ServerFits(chosen[Server].suite, chosen[Server].version)
          /\ EtmFits(chosen[Server])
    /\ InResumption(Server) =>
          LET secured == chosen[Server].session.secured
          IN  /\ ServerFits(secured.suite, chosen[Server].version)
              /\ pending[Server].suite = secured.suite
              /\ pending[Server].etm = secured.etm

\* The transcripts begin with the client's hello.  If it was not altered the
\* server took its version from the one that the client sent; and an end only
\* concludes if it was not.
ClientBegan ==
    /\ hash[Client] # <<>> => hash[Client][1] = Seen("client_hello")
    /\ at[Client] \in {"wait_hello", "wait_flight"} \cup Late =>
          hash[Client] # <<>>
ServerBegan ==
    /\ at[Server] = "wait_hello" => hash[Server] = <<>>
    /\ pending[Server] # NoKey \/ at[Server] = "wait_flight" =>
          /\ hash[Server] # <<>>
          /\ hash[Server][1].intact =>
                chosen[Server].version
                    \in ServerVersions(server.settings, Asked)
Unaltered == hash[Server] # <<>> /\ hash[Server][1].intact
Vouched == \A e \in Ends : session[e] # NoSession => Unaltered

\* What is under way, with the key it is sealed with.
ClientRecord(m, key) ==
    /\ m.type = "client_hello" =>
          /\ {"id", "ticket", "asks"} \subseteq DOMAIN m
          /\ IdOk(m.id) /\ TicketOk(m.ticket) /\ m.asks = Asked
    /\ m.type = "client_flight" =>
          InFull(Client) /\ m.cert = clientCert[Client]
    /\ m.type = "finished" =>
          /\ key # NoKey /\ key = writeKey[Client]
          /\ m.transcript # <<>> /\ m.transcript[1] = Seen("client_hello")
ServerRecord(m, key) ==
    /\ m.type = "server_hello" =>
          /\ {"version", "suite", "id", "etm", "ems"} \subseteq DOMAIN m
          /\ IdOk(m.id) /\ m.ems \in BOOLEAN /\ m.version \in Int
    /\ m.type = "server_flight" =>
          Negotiated /\ (m.request <=> Asks(meeting, chosen[Server].suite))
    /\ m.type = "ticket" => m.ticket.secured \in known[Server]
    /\ m.type = "finished" =>
          /\ key # NoKey /\ key = writeKey[Server]
          /\ hash[Server] # <<>> /\ m.transcript # <<>>
          /\ m.transcript[1] = hash[Server][1]

ClientSaid == \A r \in ToSet(wire[Client]) : ClientRecord(r.msg, r.key)
ServerSaid == \A r \in ToSet(wire[Server]) : ServerRecord(r.msg, r.key)

Inv ==
    /\ Shape
    /\ \A e \in Ends : Placed(e) /\ Keyed(e)
    /\ ClientKeyed /\ ServerKeyed /\ Opened
    /\ Identities /\ Known /\ Memory
    /\ ClientSettled /\ ServerSettled
    /\ ClientSuited /\ ServerSuited
    /\ ClientBegan /\ ServerBegan /\ Vouched
    /\ ClientSaid /\ ServerSaid
-----------------------------------------------------------------------------
(***************************************************************************)
(* The kinds of steps: what a step does to one end and to the records      *)
(* under way, as far as the invariant is concerned.                        *)
(***************************************************************************)
\* The keys, the choice and the session of an end stay as they are.
KeepsKeys(e) ==
    /\ writeKey'[e] = writeKey[e] /\ readKey'[e] = readKey[e]
    /\ pending'[e] = pending[e]
KeepsTalk(e) == chosen'[e] = chosen[e] /\ clientCert'[e] = clientCert[e]
Stays(e) ==
    /\ at'[e] = at[e]
    /\ KeepsKeys(e) /\ KeepsTalk(e) /\ session'[e] = session[e]
KeepsMemory == cache' = cache /\ known' = known

\* It gives up, or goes on with TLS 1.3.
Stops(e) ==
    /\ at[e] \in Early \cup Late /\ at'[e] \in {"failed", "tls13"}
    /\ KeepsKeys(e) /\ KeepsTalk(e) /\ session'[e] = session[e]

\* It reads the change_cipher_spec.
Switches(e) ==
    /\ at[e] = "wait_ccs" /\ at'[e] = "wait_finished"
    /\ writeKey'[e] = writeKey[e] /\ readKey'[e] = pending[e]
    /\ pending'[e] = pending[e]
    /\ KeepsTalk(e) /\ session'[e] = session[e]

\* The client says hello, and hears the server's.
Greets ==
    /\ at[Client] = "start" /\ at'[Client] = "wait_hello"
    /\ KeepsKeys(Client) /\ session'[Client] = session[Client]
    /\ ClientSuited' /\ hash'[Client] = <<Seen("client_hello")>>

HearsHello ==
    /\ at[Client] = "wait_hello"
    /\ writeKey'[Client] = writeKey[Client]
    /\ readKey'[Client] = readKey[Client]
    /\ session'[Client] = session[Client]
    /\ ClientSettled' /\ ClientSuited' /\ chosen'[Client].resumed \in BOOLEAN
    /\ \/ /\ at'[Client] = "wait_flight"
          /\ ~chosen'[Client].resumed
          /\ pending'[Client] = pending[Client]
       \/ /\ at'[Client] = "wait_ccs"
          /\ Offers
          /\ chosen'[Client].resumed
          /\ pending'[Client] # NoKey /\ ResumedKey(Client, held.secured)'

\* It answers the server's flight.
Verifies ==
    /\ at[Client] = "wait_flight" /\ at'[Client] = "wait_ccs"
    /\ Negotiated
    /\ chosen'[Client] = chosen[Client]
    /\ clientCert'[Client] = Identity(meeting, chosen[Server].suite)
    /\ pending'[Client] # NoKey /\ FullKey(Client)'
    /\ writeKey'[Client] = pending'[Client]
    /\ readKey'[Client] = readKey[Client]
    /\ session'[Client] = session[Client]

TakesTicket ==
    /\ at[Client] = "wait_ccs" /\ at'[Client] = "wait_ccs"
    /\ KeepsKeys(Client) /\ session'[Client] = session[Client]
    /\ clientCert'[Client] = clientCert[Client]
    /\ \A f \in {"version", "suite", "id", "etm", "ems", "resumed"} :
          chosen'[Client][f] = chosen[Client][f]
    /\ ClientSettled'

\* The server resumes a session, or starts a full handshake and reads the
\* client's flight.
TakesSession ==
    /\ at[Server] = "wait_hello" /\ at'[Server] = "wait_ccs"
    /\ chosen'[Server].resumed /\ chosen'[Server].resumed \in BOOLEAN
    /\ pending'[Server] # NoKey
    /\ ResumedKey(Server, chosen[Server].session.secured)'
    /\ writeKey'[Server] = pending'[Server]
    /\ readKey'[Server] = readKey[Server]
    /\ session'[Server] = session[Server]
    /\ ServerSettled' /\ ServerSuited' /\ ServerBegan'

Negotiates ==
    /\ at[Server] = "wait_hello" /\ at'[Server] = "wait_flight"
    /\ KeepsKeys(Server) /\ session'[Server] = session[Server]
    /\ ~chosen'[Server].resumed /\ chosen'[Server].resumed \in BOOLEAN
    /\ ServerSettled' /\ ServerSuited' /\ ServerBegan'

HearsClient ==
    /\ at[Server] = "wait_flight" /\ at'[Server] = "wait_ccs"
    /\ InFull(Client)
    /\ chosen'[Server] = chosen[Server]
    /\ clientCert'[Server] = clientCert[Client]
    /\ pending'[Server] # NoKey /\ FullKey(Server)'
    /\ writeKey'[Server] = writeKey[Server]
    /\ readKey'[Server] = readKey[Server]
    /\ session'[Server] = session[Server]

\* An end opens its peer's Finished and concludes on a session.
Concludes(e, secured) ==
    /\ at[e] = "wait_finished" /\ at'[e] \in {"done", "failed"}
    /\ readKey[e] = writeKey[Peer(e)] /\ Unaltered
    /\ writeKey'[e] = pending[e] /\ readKey'[e] = readKey[e]
    /\ pending'[e] = pending[e] /\ KeepsTalk(e)
    /\ session'[e] # NoSession /\ session'[e].secured = secured
    /\ known' = [known EXCEPT ![e] = @ \cup {secured}]

ClientConcludes(secured) ==
    LET s == session'[Client]
    IN  /\ Concludes(Client, secured)
        /\ {"secured", "id", "ticket", "resumable"} \subseteq DOMAIN s
        /\ IdOk(s.id) /\ TicketOk(s.ticket)
        /\ s.resumable => ~meeting.client.rejects
        /\ cache' = cache

ServerConcludes(secured) ==
    LET s == session'[Server]
    IN  /\ Concludes(Server, secured)
        /\ {"secured", "resumable"} \subseteq DOMAIN s
        /\ s.resumable => ~meeting.server.rejects
        /\ DOMAIN cache' = DOMAIN cache
        /\ ~chosen[Server].cached => cache' = cache
        /\ \A i \in DOMAIN cache :
              \/ cache'[i] = cache[i]
              \/ cache'[i] = s /\ "id" \in DOMAIN s /\ IdOk(s.id)

ClientStep ==
    /\ Stays(Server)
    /\ \/ /\ KeepsMemory
          /\ \/ Stops(Client) \/ Switches(Client)
             \/ Greets \/ HearsHello \/ Verifies \/ TakesTicket
       \/ ~chosen[Client].resumed /\ ClientConcludes(FullSecured(Client))
       \/ chosen[Client].resumed /\ ClientConcludes(held.secured)

ServerStep ==
    /\ Stays(Client)
    /\ \/ /\ KeepsMemory
          /\ \/ Stops(Server) \/ Switches(Server)
             \/ TakesSession \/ Negotiates \/ HearsClient
       \/ ~chosen[Server].resumed /\ ServerConcludes(FullSecured(Server))
       \/ /\ chosen[Server].resumed
          /\ ServerConcludes(chosen[Server].session.secured)

NetworkStep == Stays(Client) /\ Stays(Server) /\ KeepsMemory

\* A record on the wire was on it before, damaged or not, or it is what its
\* sender may say now.
Carries(e) ==
    \A r \in ToSet(wire'[e]) :
        \/ \E o \in ToSet(wire[e]) : r.msg = o.msg /\ r.key = o.key
        \/ IF e = Client THEN ClientRecord(r.msg, r.key)'
                         ELSE ServerRecord(r.msg, r.key)'

Sends == Wired' /\ Carries(Client) /\ Carries(Server)

\* No step changes how a transcript begins, but the one that reads the client's
\* hello.
HeadKept(e) ==
    \/ hash'[e] = hash[e]
    \/ hash[e] # <<>> /\ hash'[e] # <<>> /\ hash'[e][1] = hash[e][1]
HeadsKept ==
    /\ \/ HeadKept(Client)
       \/ at[Client] = "start" /\ hash'[Client] = <<Seen("client_hello")>>
    /\ \/ HeadKept(Server)
       \/ at[Server] = "wait_hello" /\ at'[Server] # "wait_hello"

Step ==
    /\ setup' = setup /\ round' = round /\ held' = held
    /\ Maps' /\ Heard' /\ HeadsKept
    /\ Sends
    /\ ClientStep \/ ServerStep \/ NetworkStep
-----------------------------------------------------------------------------
(***************************************************************************)
(* Sequences.                                                              *)
(***************************************************************************)
LEMMA SeqFacts ==
    ASSUME NEW s, IsSeq(s)
    PROVE  /\ Len(s) \in Nat
           /\ DOMAIN s = 1..Len(s)
           /\ s # <<>> => Len(s) > 0
           /\ \A i \in 1..Len(s) : s[i] \in ToSet(s)
    <1>1. s \in Seq(ToSet(s))
        BY DEF IsSeq
    <1>2. /\ Len(s) \in Nat
          /\ DOMAIN s = 1..Len(s)
        BY <1>1, LenProperties
    <1>3. s # <<>> => Len(s) > 0
        BY <1>1, EmptySeq
    <1> QED
        BY <1>2, <1>3 DEF ToSet

LEMMA EmptyFacts ==
    IsSeq(<<>>) /\ Len(<<>>) = 0 /\ ToSet(<<>>) = {}
    <1>1. <<>> \in Seq({}) /\ Len(<<>>) = 0
        BY EmptySeq
    <1>2. DOMAIN <<>> = 1..0
        BY <1>1, LenProperties
    <1>3. ToSet(<<>>) = {}
        BY <1>2 DEF ToSet
    <1> QED
        BY <1>1, <1>3 DEF IsSeq

LEMMA AppendFacts ==
    ASSUME NEW s, IsSeq(s), NEW x
    PROVE  /\ IsSeq(Append(s, x))
           /\ Append(s, x) # <<>>
           /\ Len(Append(s, x)) = Len(s) + 1
           /\ \A i \in 1..Len(s) : Append(s, x)[i] = s[i]
           /\ Append(s, x)[Len(s) + 1] = x
    <1> DEFINE S == ToSet(s) \cup {x}
    <1>1. s \in Seq(S)
        BY SeqMonotonic DEF IsSeq
    <1>2. /\ Append(s, x) \in Seq(S)
          /\ Append(s, x) # <<>>
          /\ Len(Append(s, x)) = Len(s) + 1
          /\ \A i \in 1..Len(s) : Append(s, x)[i] = s[i]
          /\ Append(s, x)[Len(s) + 1] = x
        BY <1>1, AppendProperties
    <1> DEFINE t == Append(s, x)
    <1>3. Len(s) \in Nat
        BY SeqFacts
    <1>4. DOMAIN t = 1..(Len(s) + 1) /\ DOMAIN s = 1..Len(s)
        BY <1>2, LenProperties, SeqFacts
    <1>5. S \subseteq ToSet(t)
        BY <1>2, <1>3, <1>4 DEF ToSet
    <1>6. t \in Seq(ToSet(t))
        BY <1>2, <1>5, SeqMonotonic
    <1> QED
        BY <1>2, <1>6 DEF IsSeq

LEMMA TailFacts ==
    ASSUME NEW s, IsSeq(s), s # <<>>
    PROVE  /\ Head(s) \in ToSet(s)
           /\ IsSeq(Tail(s))
           /\ ToSet(Tail(s)) \subseteq ToSet(s)
    <1> DEFINE t == Tail(s)
    <1>1. s \in Seq(ToSet(s))
        BY DEF IsSeq
    <1>2. /\ Head(s) \in ToSet(s)
          /\ t \in Seq(ToSet(s))
        BY <1>1, HeadTailProperties
    <1>3. DOMAIN t = 1..Len(t)
        BY <1>2, LenProperties
    <1>4. \A i \in 1..Len(t) : t[i] \in ToSet(s)
        BY <1>2, ElementOfSeq
    <1>5. ToSet(t) \subseteq ToSet(s)
        BY <1>3, <1>4 DEF ToSet
    <1>6. t \in Seq(ToSet(t))
        <2>1. t \in [1..Len(t) -> ToSet(s)] /\ Len(t) \in Nat
            BY <1>2, LenProperties
        <2>2. t \in [1..Len(t) -> ToSet(t)]
            BY <2>1 DEF ToSet
        <2> QED
            BY <2>1, <2>2, SeqDef
    <1> QED
        BY <1>2, <1>5, <1>6 DEF IsSeq

LEMMA ConcatFacts ==
    ASSUME NEW s, IsSeq(s), NEW t, IsSeq(t)
    PROVE  /\ IsSeq(s \o t)
           /\ ToSet(s \o t) = ToSet(s) \cup ToSet(t)
    <1> DEFINE S == ToSet(s) \cup ToSet(t)
               u == s \o t
    <1>1. s \in Seq(S) /\ t \in Seq(S)
        BY SeqMonotonic DEF IsSeq
    <1>2. /\ u \in Seq(S)
          /\ Len(u) = Len(s) + Len(t)
          /\ \A i \in 1..(Len(s) + Len(t)) :
                u[i] = IF i <= Len(s) THEN s[i] ELSE t[i - Len(s)]
        BY <1>1, ConcatProperties
    <1>3. DOMAIN u = 1..Len(u)
        BY <1>2, LenProperties
    <1>4. /\ Len(s) \in Nat /\ DOMAIN s = 1..Len(s)
          /\ Len(t) \in Nat /\ DOMAIN t = 1..Len(t)
        BY SeqFacts
    <1>5. ToSet(u) \subseteq S
        BY <1>2, <1>3, <1>4 DEF ToSet
    <1>6. ToSet(s) \subseteq ToSet(u)
        <2>1. \A i \in 1..Len(s) : i \in DOMAIN u /\ u[i] = s[i]
            BY <1>2, <1>3, <1>4
        <2> QED
            BY <1>4, <2>1 DEF ToSet
    <1>7. ToSet(t) \subseteq ToSet(u)
        <2>1. \A i \in 1..Len(t) : /\ i + Len(s) \in DOMAIN u
                                   /\ u[i + Len(s)] = t[i]
            BY <1>2, <1>3, <1>4
        <2> QED
            BY <1>4, <2>1 DEF ToSet
    <1>8. ToSet(u) = S
        BY <1>5, <1>6, <1>7
    <1> QED
        BY <1>2, <1>8 DEF IsSeq

LEMMA OneMessage ==
    ASSUME NEW m
    PROVE  IsSeq(<<m>>) /\ ToSet(<<m>>) = {m}
    <1>1. ToSet(<<m>>) = {m}
        BY DEF ToSet
    <1> QED
        BY <1>1 DEF IsSeq

LEMMA TwoMessages ==
    ASSUME NEW m, NEW n
    PROVE  IsSeq(<<m, n>>) /\ ToSet(<<m, n>>) = {m, n}
    <1>1. ToSet(<<m, n>>) = {m, n}
        BY DEF ToSet
    <1> QED
        BY <1>1 DEF IsSeq

\* How a sequence begins, once it does.
LEMMA BeginsFacts ==
    ASSUME NEW s, IsSeq(s), s # <<>>
    PROVE  /\ \A x : Append(s, x) # <<>> /\ Append(s, x)[1] = s[1]
           /\ \A t : IsSeq(t) => s \o t # <<>> /\ (s \o t)[1] = s[1]
    <1>1. Len(s) \in Nat /\ 1 \in 1..Len(s)
        BY SeqFacts
    <1>2. ASSUME NEW t, IsSeq(t)
          PROVE  s \o t # <<>> /\ (s \o t)[1] = s[1]
        <2> DEFINE S == ToSet(s) \cup ToSet(t)
        <2>1. s \in Seq(S) /\ t \in Seq(S)
            BY <1>2, SeqMonotonic DEF IsSeq
        <2>2. /\ Len(t) \in Nat
              /\ s \o t \in Seq(S) /\ Len(s \o t) = Len(s) + Len(t)
              /\ \A i \in 1..(Len(s) + Len(t)) :
                    (s \o t)[i] = IF i <= Len(s) THEN s[i]
                                  ELSE t[i - Len(s)]
            BY <2>1, ConcatProperties, LenProperties
        <2>3. (s \o t)[1] = s[1] /\ Len(s \o t) > 0
            BY <1>1, <2>2
        <2> QED
            BY <2>2, <2>3, EmptyFacts
    <1> QED
        BY <1>1, <1>2, AppendFacts

LEMMA FirstAppended ==
    ASSUME NEW x
    PROVE  Append(<<>>, x)[1] = x
    BY EmptyFacts, AppendFacts

-----------------------------------------------------------------------------
(***************************************************************************)
(* Cipher suites: the tables written by hand agree with each other.        *)
(***************************************************************************)
\* A table of ciphers holds suites of that cipher only.
LEMMA SuiteCipher ==
    ASSUME NEW c \in CipherNames, NEW s \in SuitesOfCipher[c]
    PROVE  s[2] = c
    <1>1. \A kxs, ciphers, macs :
             \A x \in Suites(kxs, ciphers, macs) : x[2] \in ciphers
        BY DEF Suites
    <1>2. CASE c \in {"chacha20-poly1305", "chacha20-poly1305_draft00"}
        BY <1>1, <1>2 DEF SuitesOfCipher, CipherNames, chacha20Suites,
                         chacha20draft00Suites
    <1>3. CASE c \in {"aes128gcm", "aes256gcm"}
        BY <1>1, <1>3 DEF SuitesOfCipher, CipherNames, aes128GcmSuites,
                         aes256GcmSuites
    <1>4. CASE c \in {"aes128ccm", "aes128ccm_8", "aes256ccm", "aes256ccm_8"}
        BY <1>1, <1>4 DEF SuitesOfCipher, CipherNames, aes128CcmSuites,
                         aes256CcmSuites, aes128Ccm_8Suites,
                         aes256Ccm_8Suites
    <1>5. CASE c \in {"aes128", "aes256", "3des", "rc4", "null"}
        BY <1>1, <1>5 DEF SuitesOfCipher, CipherNames, aes128Suites,
                         aes256Suites, tripleDESSuites, rc4Suites, nullSuites
    <1> QED
        BY <1>2, <1>3, <1>4, <1>5 DEF CipherNames


\* So a suite is in one table of ciphers only, which names it.
LEMMA CipherNamed ==
    ASSUME NEW c \in CipherNames, NEW s \in SuitesOfCipher[c]
    PROVE  canonicalCipherName(s) = c
    <1>1. /\ canonicalCipherName(s) \in CipherNames
          /\ s \in SuitesOfCipher[canonicalCipherName(s)]
        BY DEF canonicalCipherName
    <1> QED
        BY <1>1, SuiteCipher

LEMMA CipherSet ==
    ASSUME NEW c \in CipherNames, NEW s \in SuitesOfCipher[c]
    PROVE  _getCipherSettings(s) \in KeySettings
    <1>1. \/ s \in aes256GcmSuites \/ s \in aes128GcmSuites
          \/ s \in aes256Ccm_8Suites \/ s \in aes256CcmSuites
          \/ s \in aes128Ccm_8Suites \/ s \in aes128CcmSuites
          \/ s \in chacha20Suites \/ s \in chacha20draft00Suites
          \/ s \in aes128Suites \/ s \in aes256Suites
          \/ s \in rc4Suites \/ s \in tripleDESSuites
          \/ s \in nullSuites
        BY DEF SuitesOfCipher, CipherNames
    <1> QED
        BY <1>1 DEF _getCipherSettings, KeySettings

\* The MAC that the tables give a suite is the one in its name.
LEMMA SuiteMacs ==
    /\ \A s \in aeadSuites : s[3] = "aead"
    /\ \A s \in HmacSuites : s[3] \in {"sha", "sha256", "sha384", "md5"}
    <1>1. \A kxs, ciphers, macs : \A s \in Suites(kxs, ciphers, macs) :
             s[3] \in macs
        BY DEF Suites
    <1>2. \A s \in aeadSuites : s[3] = "aead"
        BY <1>1 DEF aeadSuites, aes128GcmSuites, aes256GcmSuites,
                    aes128CcmSuites, aes128Ccm_8Suites, aes256CcmSuites,
                    aes256Ccm_8Suites, chacha20Suites, chacha20draft00Suites
    <1>3. \A s \in HmacSuites : s[3] \in {"sha", "sha256", "sha384", "md5"}
        BY <1>1 DEF HmacSuites, tripleDESSuites, aes128Suites, aes256Suites,
                    rc4Suites, nullSuites
    <1> QED
        BY <1>2, <1>3

LEMMA MacTables ==
    ASSUME NEW s
    PROVE  /\ s \in shaSuites => s \notin aeadSuites /\ s[3] = "sha"
           /\ s \in sha256Suites => s \notin aeadSuites /\ s[3] = "sha256"
           /\ s \in sha384Suites => s[3] \in {"sha384", "aead"}
           /\ s \in sha384Suites \ aeadSuites => s[3] = "sha384"
           /\ s \in md5Suites => s \notin aeadSuites /\ s[3] = "md5"
    BY SuiteMacs
    DEF shaSuites, sha256Suites, sha384Suites, md5Suites, aeadSuites

\* A suite that is let through for one of its MACs is used with that MAC.
LEMMA MacFits ==
    ASSUME NEW s, NEW macs, NEW version, MacAllowed(s, macs, version)
    PROVE  /\ (_getMacSettings(s).length = 0) <=> s \in aeadSuites
           /\ \E mac \in macs :
                 mac = IF s \in aeadSuites /\ mac = "aead" THEN "aead"
                       ELSE canonicalMacName(s)
           /\ \/ s \in aeadSuites
              \/ _getMacSettings(s).digest = canonicalMacName(s)
    <1>1. CASE "sha" \in macs /\ s \in shaSuites
        BY <1>1, MacTables DEF _getMacSettings, canonicalMacName
    <1>2. CASE "sha256" \in macs /\ s \in sha256Suites
        BY <1>2, MacTables DEF _getMacSettings, canonicalMacName
    <1>3. CASE "sha384" \in macs /\ s \in sha384Suites
        <2>1. CASE s \in aeadSuites
            BY <1>3, <2>1, MacTables DEF _getMacSettings, canonicalMacName
        <2>2. CASE s \notin aeadSuites
            BY <1>3, <2>2, MacTables DEF _getMacSettings, canonicalMacName
        <2> QED
            BY <2>1, <2>2
    <1>4. CASE "md5" \in macs /\ s \in md5Suites
        BY <1>4, MacTables DEF _getMacSettings, canonicalMacName
    <1>5. CASE "aead" \in macs /\ s \in aeadSuites
        BY <1>5, MacTables DEF _getMacSettings, canonicalMacName
    <1> QED
        BY <1>1, <1>2, <1>3, <1>4, <1>5 DEF MacAllowed

\* What the settings let through is what the keys are made for.
LEMMA SuiteKeys ==
    ASSUME NEW s, NEW settings, settings.ciphers \subseteq CipherNames,
           NEW w, _filterSuites(s, settings, w),
           NEW v \in Int, filterForVersion(s, v, v)
    PROVE  /\ _getCipherSettings(s) \in KeySettings
           /\ canonicalCipherName(s) \in settings.ciphers
           /\ (_getMacSettings(s).length = 0) <=> s \in aeadSuites
           /\ \E mac \in settings.macs :
                 mac = IF s \in aeadSuites /\ mac = "aead" THEN "aead"
                       ELSE canonicalMacName(s)
           /\ \/ s \in aeadSuites
              \/ _getMacSettings(s).digest = canonicalMacName(s)
           /\ v < 3 => s \in ssl3Suites
    <1>1. PICK c \in settings.ciphers :
             c \in CipherNames /\ s \in SuitesOfCipher[c]
        BY DEF _filterSuites, CipherAllowed
    <1>2. MacAllowed(s, settings.macs, w)
        BY DEF _filterSuites
    <1>3. v < 3 => s \in ssl3Suites
        BY DEF filterForVersion
    <1> QED
        BY <1>1, <1>2, <1>3, CipherNamed, CipherSet, MacFits

-----------------------------------------------------------------------------
(***************************************************************************)
(* What each kind of step keeps of the invariant.                          *)
(***************************************************************************)
USE EndsAssumption DEF Ends

\* What an end does in a step.
LEMMA EndMoves ==
    ASSUME Step, NEW e \in Ends
    PROVE  \/ Stays(e) \/ Stops(e) \/ Switches(e)
           \/ e = Client /\ (Greets \/ HearsHello \/ Verifies \/ TakesTicket)
           \/ /\ e = Client /\ ~chosen[Client].resumed
              /\ ClientConcludes(FullSecured(Client))
           \/ /\ e = Client /\ chosen[Client].resumed
              /\ ClientConcludes(held.secured)
           \/ e = Server /\ (TakesSession \/ Negotiates \/ HearsClient)
           \/ /\ e = Server /\ ~chosen[Server].resumed
              /\ ServerConcludes(FullSecured(Server))
           \/ /\ e = Server /\ chosen[Server].resumed
              /\ ServerConcludes(chosen[Server].session.secured)
    BY DEF Step, ClientStep, ServerStep, NetworkStep

LEMMA PlacedStep ==
    ASSUME Inv, Step, NEW e \in Ends
    PROVE  Placed(e)'
    <1>0. Placed(e) /\ Keyed(e)
        BY DEF Inv
    <1>1. CASE Stays(e)
        BY <1>0, <1>1 DEF Placed, Stays, KeepsKeys, KeepsTalk
    <1>2. CASE Stops(e)
        BY <1>0, <1>2 DEF Placed, Stops, KeepsKeys, KeepsTalk,
                          Early, Late, Over
    <1>3. CASE Switches(e)
        BY <1>0, <1>3 DEF Placed, Switches, KeepsTalk, Early, Late, Over
    <1>4. CASE e = Client /\ (Greets \/ HearsHello \/ Verifies \/ TakesTicket)
        BY <1>0, <1>4 DEF Placed, Greets, HearsHello, Verifies, TakesTicket,
                          KeepsKeys, Early, Late, Over
    <1>5. CASE e = Server /\ (TakesSession \/ Negotiates \/ HearsClient)
        BY <1>0, <1>5 DEF Placed, TakesSession, Negotiates, HearsClient,
                          KeepsKeys, Early, Late, Over
    <1>6. ASSUME NEW secured, Concludes(e, secured)
          PROVE  Placed(e)'
        BY <1>0, <1>6 DEF Placed, Concludes, KeepsTalk, Early, Late, Over
    <1> QED
        BY <1>1, <1>2, <1>3, <1>4, <1>5, <1>6, EndMoves
        DEF ClientConcludes, ServerConcludes

\* A session concluded in a full handshake is the one of its keys.
LEMMA KeyedStep ==
    ASSUME Inv, Step, NEW e \in Ends
    PROVE  Keyed(e)'
    <1>0. Placed(e) /\ Keyed(e) /\ round' = round
        BY DEF Inv, Step
    <1>1. CASE Stays(e)
        BY <1>0, <1>1 DEF Keyed, Stays, KeepsKeys, KeepsTalk, InFull,
                          FullKey, FullSecured, Secured
    <1>2. CASE Stops(e)
        BY <1>0, <1>2 DEF Keyed, Stops, KeepsKeys, KeepsTalk, InFull,
                          FullKey, FullSecured, Secured
    <1>3. CASE Switches(e)
        BY <1>0, <1>3 DEF Keyed, Switches, KeepsTalk, InFull, FullKey,
                          FullSecured, Secured, Placed, Late, Over
    <1>4. CASE e = Client /\ Greets
        BY <1>0, <1>4 DEF Keyed, Greets, KeepsKeys, InFull, Placed, Early,
                          Over
    <1>5. CASE e = Client /\ HearsHello
        BY <1>0, <1>5 DEF Keyed, HearsHello, InFull, Placed, Early, Over
    <1>6. CASE e = Client /\ Verifies
        BY <1>0, <1>6 DEF Keyed, Verifies, InFull, Placed, Early, Over
    <1>7. CASE e = Client /\ TakesTicket
        BY <1>0, <1>7 DEF Keyed, TakesTicket, KeepsKeys, InFull, FullKey,
                          FullSecured, Secured, Placed, Late, Over
    <1>8. CASE e = Server /\ (TakesSession \/ Negotiates \/ HearsClient)
        BY <1>0, <1>8 DEF Keyed, TakesSession, Negotiates, HearsClient,
                          KeepsKeys, InFull, Placed, Early, Over
    <1>9. ASSUME NEW secured, Concludes(e, secured),
                 ~chosen[e].resumed => secured = FullSecured(e)
          PROVE  Keyed(e)'
        BY <1>0, <1>9 DEF Keyed, Concludes, KeepsTalk, InFull, FullKey,
                          FullSecured, Secured, Placed, Late, Over
    <1> QED
        BY <1>1, <1>2, <1>3, <1>4, <1>5, <1>6, <1>7, <1>8, <1>9, EndMoves
        DEF ClientConcludes, ServerConcludes

LEMMA ClientKeyedStep ==
    ASSUME Inv, Step
    PROVE  ClientKeyed'
    <1>0. /\ Placed(Client) /\ Keyed(Client) /\ ClientKeyed /\ held' = held
          /\ Client \in Ends
        BY DEF Inv, Step
    <1>a. Offers' <=> Offers
        BY <1>0 DEF Offers, Offered
    <1>1. CASE Stays(Client)
        BY <1>0, <1>a, <1>1
        DEF ClientKeyed, Stays, KeepsKeys, KeepsTalk, InFull, InResumption,
            ResumedKey
    <1>2. CASE Stops(Client)
        BY <1>0, <1>a, <1>2
        DEF ClientKeyed, Stops, KeepsKeys, KeepsTalk, InFull, InResumption,
            ResumedKey
    <1>3. CASE Switches(Client)
        BY <1>0, <1>a, <1>3 DEF ClientKeyed, Switches, KeepsTalk, InFull,
                          InResumption, ResumedKey
    <1>4. CASE Greets
        BY <1>0, <1>a, <1>4 DEF ClientKeyed, Greets, KeepsKeys, InFull,
                          InResumption, Placed, Early
    <1>5. CASE HearsHello
        BY <1>0, <1>a, <1>5 DEF ClientKeyed, HearsHello, InFull, InResumption,
                          Placed, Keyed, Early, Over
    <1>6. CASE Verifies
        BY <1>0, <1>a, <1>6 DEF ClientKeyed, Verifies, InFull, InResumption,
                          Placed, Over
    <1>7. CASE TakesTicket
        BY <1>0, <1>a, <1>7 DEF ClientKeyed, TakesTicket, KeepsKeys, InFull,
                          InResumption, ResumedKey
    <1>8. ASSUME NEW secured, Concludes(Client, secured),
                 chosen[Client].resumed => secured = held.secured
          PROVE  ClientKeyed'
        BY <1>0, <1>a, <1>8 DEF ClientKeyed, Concludes, KeepsTalk, InFull,
                          InResumption, ResumedKey
    <1> QED
        BY <1>0, <1>1, <1>2, <1>3, <1>4, <1>5, <1>6, <1>7, <1>8, EndMoves
        DEF ClientConcludes

LEMMA ServerKeyedStep ==
    ASSUME Inv, Step
    PROVE  ServerKeyed'
    <1>0. /\ Placed(Server) /\ Keyed(Server) /\ ServerKeyed
          /\ Server \in Ends
        BY DEF Inv, Step
    <1>1. CASE Stays(Server)
        BY <1>0, <1>1 DEF ServerKeyed, Stays, KeepsKeys, KeepsTalk, InFull,
                          InResumption, ResumedKey
    <1>2. CASE Stops(Server)
        BY <1>0, <1>2 DEF ServerKeyed, Stops, KeepsKeys, KeepsTalk, InFull,
                          InResumption, ResumedKey
    <1>3. CASE Switches(Server)
        BY <1>0, <1>3 DEF ServerKeyed, Switches, KeepsTalk, InFull,
                          InResumption, ResumedKey
    <1>4. CASE TakesSession
        BY <1>0, <1>4 DEF ServerKeyed, TakesSession, InFull, InResumption,
                          Placed, Over
    <1>5. CASE Negotiates
        BY <1>0, <1>5 DEF ServerKeyed, Negotiates, KeepsKeys, InFull,
                          InResumption, Placed, Early
    <1>6. CASE HearsClient
        BY <1>0, <1>6 DEF ServerKeyed, HearsClient, InFull, InResumption,
                          Placed, Keyed, Early
    <1>7. ASSUME NEW secured, Concludes(Server, secured),
                 chosen[Server].resumed =>
                    secured = chosen[Server].session.secured
          PROVE  ServerKeyed'
        BY <1>0, <1>7 DEF ServerKeyed, Concludes, KeepsTalk, InFull,
                          InResumption, ResumedKey
    <1> QED
        BY <1>0, <1>1, <1>2, <1>3, <1>4, <1>5, <1>6, <1>7, EndMoves
        DEF ServerConcludes

-----------------------------------------------------------------------------
(***************************************************************************)
(* What stays, once it is settled.                                         *)
(***************************************************************************)
LEMMA EndTypes ==
    /\ Client \in Ends /\ Server \in Ends
    /\ Peer(Client) = Server /\ Peer(Server) = Client
    BY DEF Peer

\* An end that concluded does nothing more in this meeting.
LEMMA SessionStays ==
    ASSUME Inv, Step, NEW e \in Ends, session[e] # NoSession
    PROVE  Stays(e)
    <1>1. at[e] \in Over
        BY DEF Inv, Placed
    <1> QED
        BY <1>1, EndMoves
        DEF Stops, Switches, Greets, HearsHello, Verifies, TakesTicket,
            TakesSession, Negotiates, HearsClient, ClientConcludes,
            ServerConcludes, Concludes, Early, Late, Over

\* An end keeps its key and what it was made from.
LEMMA ChoiceStays ==
    ASSUME Inv, Step, NEW e \in Ends, pending[e] # NoKey
    PROVE  /\ pending'[e] = pending[e] /\ clientCert'[e] = clientCert[e]
           /\ chosen'[e].resumed = chosen[e].resumed
           /\ chosen'[e].suite = chosen[e].suite
    <1>1. at[e] \notin Early
        BY DEF Inv, Placed
    <1> QED
        BY <1>1, EndMoves
        DEF Stays, Stops, Switches, Greets, HearsHello, Verifies, TakesTicket,
            TakesSession, Negotiates, HearsClient, ClientConcludes,
            ServerConcludes, Concludes, KeepsKeys, KeepsTalk, Early

LEMMA WriteKeyStays ==
    ASSUME Inv, Step, NEW e \in Ends, writeKey[e] # NoKey
    PROVE  writeKey'[e] = writeKey[e]
    <1>1. /\ at[e] \notin Early
          /\ writeKey[e] = pending[e]
        BY DEF Inv, Placed, Keyed
    <1> QED
        BY <1>1, EndMoves
        DEF Stays, Stops, Switches, Greets, HearsHello, Verifies, TakesTicket,
            TakesSession, Negotiates, HearsClient, ClientConcludes,
            ServerConcludes, Concludes, KeepsKeys, KeepsTalk, Early

LEMMA NegotiatedStays ==
    ASSUME Inv, Step, at[Server] # "wait_hello"
    PROVE  /\ at'[Server] # "wait_hello"
           /\ chosen'[Server] = chosen[Server]
    BY EndMoves, EndTypes
    DEF Stays, Stops, Switches, TakesSession, Negotiates, HearsClient,
        ServerConcludes, Concludes, KeepsTalk

LEMMA BecomesFull ==
    ASSUME Inv, Step, NEW e \in Ends, InFull(e)'
    PROVE  InFull(e) \/ (e = Client /\ Verifies) \/ (e = Server /\ HearsClient)
    <1>1. Placed(e)
        BY DEF Inv
    <1> QED
        BY <1>1, EndMoves
        DEF Stays, Stops, Switches, Greets, HearsHello, TakesTicket,
            TakesSession, Negotiates, ClientConcludes, ServerConcludes,
            Concludes, KeepsKeys, KeepsTalk, InFull, Placed, Early

LEMMA BecomesResumption ==
    ASSUME Inv, Step, InResumption(Server)'
    PROVE  InResumption(Server) \/ TakesSession
    <1>1. Placed(Server)
        BY DEF Inv
    <1> QED
        BY <1>1, EndMoves, EndTypes
        DEF Stays, Stops, Switches, Negotiates, HearsClient, ServerConcludes,
            Concludes, KeepsKeys, KeepsTalk, InFull, InResumption, Placed,
            Early

LEMMA RoundType ==
    ASSUME Inv
    PROVE  round \in Nat /\ ~(round < round)
    BY DEF Inv, Shape, Maps

LEMMA KnownGrows ==
    ASSUME Inv, Step, NEW e \in Ends
    PROVE  known[e] \subseteq known'[e]
    <1>1. DOMAIN known = Ends
        BY DEF Inv, Shape, Maps
    <1> QED
        BY <1>1 DEF Step, ClientStep, ServerStep, NetworkStep, KeepsMemory,
                    ClientConcludes, ServerConcludes, Concludes

-----------------------------------------------------------------------------
(***************************************************************************)
(* Two ends that conclude on the same key.                                 *)
(***************************************************************************)
\* The client ends a full handshake: the server has, on the same session.
LEMMA ClientAgrees ==
    ASSUME Inv, NEW secured, Concludes(Client, secured),
           ~chosen[Client].resumed
    PROVE  /\ InFull(Server) /\ session[Server] # NoSession
           /\ pending[Server] = pending[Client]
           /\ FullSecured(Client) = session[Server].secured
           /\ FullSecured(Client) \in known[Server]
           /\ chosen[Server].version = chosen[Client].version
    <1>0. /\ \A e \in Ends : Placed(e) /\ Keyed(e)
          /\ ClientKeyed /\ ServerKeyed /\ Identities /\ ServerSettled
        BY DEF Inv
    <1>1. /\ InFull(Client) /\ FullKey(Client)
          /\ readKey[Client] = pending[Client] /\ pending[Client] # NoKey
        BY <1>0, EndTypes DEF Concludes, Placed, Keyed, InFull, Late
    <1>2. writeKey[Server] = pending[Client]
        BY <1>1, EndTypes DEF Concludes
    <1>3. pending[Server] = pending[Client]
        BY <1>0, <1>1, <1>2, EndTypes DEF Keyed
    <1>4. ~InResumption(Server)
        <2>1. MadeIn(pending[Server]) = round
            BY <1>1, <1>3 DEF FullKey, MadeIn
        <2>2. InResumption(Server) => MadeIn(pending[Server]) < round
            BY <1>0 DEF ServerKeyed, ServerSettled, ResumedKey, MadeIn
        <2> QED
            BY <2>1, <2>2, RoundType
    <1>5. InFull(Server)
        BY <1>1, <1>3, <1>4 DEF InFull, InResumption
    <1>6. session[Server] # NoSession
        BY <1>0, <1>1, <1>2, <1>5 DEF ServerKeyed
    <1>7. /\ FullKey(Server)
          /\ session[Server].secured = FullSecured(Server)
          /\ clientCert[Server] = clientCert[Client]
        BY <1>0, <1>5, <1>6, EndTypes DEF Keyed, Identities
    <1>8. FullSecured(Client) = FullSecured(Server)
        BY <1>1, <1>3, <1>7 DEF FullSecured, Secured, FullKey
    <1>9. session[Server].secured \in known[Server]
        BY <1>6 DEF Inv, Memory
    <1> QED
        BY <1>1, <1>3, <1>5, <1>6, <1>7, <1>8, <1>9 DEF FullKey

\* The client resumes: the server offered to, and has yet to conclude.
LEMMA ClientTakesUp ==
    ASSUME Inv, NEW secured, Concludes(Client, secured),
           chosen[Client].resumed
    PROVE  /\ session[Server] = NoSession
           /\ held # NoSession /\ held.resumable /\ Offered = held
           /\ held.secured \in known[Client] /\ held.secured \in known[Server]
    <1>0. /\ \A e \in Ends : Placed(e) /\ Keyed(e)
          /\ ClientKeyed /\ Opened /\ Memory /\ Known
        BY DEF Inv
    <1>1. /\ InResumption(Client) /\ session[Client] = NoSession
          /\ readKey[Client] = pending[Client] /\ pending[Client] # NoKey
          /\ writeKey[Client] = NoKey
        BY <1>0, EndTypes
        DEF Concludes, Placed, InResumption, ClientKeyed, Late, Over
    <1>2. pending[Server] = pending[Client]
        BY <1>0, <1>1, EndTypes DEF Concludes, Keyed
    <1>3. session[Server] = NoSession
        BY <1>0, <1>1, <1>2, EndTypes DEF Opened, Keyed
    <1>4. held # NoSession /\ held.resumable /\ Offered = held
        BY <1>0, <1>1 DEF ClientKeyed, Offers, Offered
    <1>5. held.secured \in known[Client]
        BY <1>0, <1>4 DEF Memory, ClientKept
    <1> QED
        BY <1>0, <1>3, <1>4, <1>5 DEF Known

\* The server ends a full handshake: the client has yet to conclude.
LEMMA ServerLeads ==
    ASSUME Inv, NEW secured, Concludes(Server, secured),
           ~chosen[Server].resumed
    PROVE  /\ InFull(Server) /\ FullKey(Server)
           /\ session[Server] = NoSession /\ session[Client] = NoSession
           /\ clientCert[Server] = Identity(meeting, chosen[Server].suite)
    <1>0. /\ \A e \in Ends : Placed(e) /\ Keyed(e)
          /\ ServerKeyed /\ Opened /\ Identities
        BY DEF Inv
    <1>1. /\ InFull(Server) /\ FullKey(Server)
          /\ session[Server] = NoSession /\ writeKey[Server] = NoKey
        BY <1>0, EndTypes
        DEF Concludes, Placed, Keyed, InFull, ServerKeyed, Late, Over
    <1>2. session[Client] = NoSession
        BY <1>0, <1>1, EndTypes DEF Opened, Keyed
    <1> QED
        BY <1>0, <1>1, <1>2 DEF Identities

\* The server ends a resumption: the client has, with the same session.
LEMMA ServerAgrees ==
    ASSUME Inv, NEW secured, Concludes(Server, secured),
           chosen[Server].resumed
    PROVE  /\ InResumption(Server) /\ session[Server] = NoSession
           /\ InResumption(Client) /\ session[Client] # NoSession
           /\ pending[Server] = pending[Client]
           /\ session[Client].secured = chosen[Server].session.secured
           /\ session[Client].secured \in known[Client]
           /\ session[Client].secured \in known[Server]
           /\ chosen[Server].version = chosen[Client].version
    <1>0. /\ \A e \in Ends : Placed(e) /\ Keyed(e)
          /\ ClientKeyed /\ ServerKeyed /\ Known /\ Memory /\ ServerSettled
        BY DEF Inv
    <1>1. /\ InResumption(Server) /\ session[Server] = NoSession
          /\ readKey[Server] = pending[Server] /\ pending[Server] # NoKey
        BY <1>0, EndTypes
        DEF Concludes, Placed, InResumption, Late, Over
    <1> DEFINE mine == chosen[Server].session.secured
               its == held.secured
    <1>2. /\ ResumedKey(Server, mine)
          /\ mine \in known[Server] /\ MadeIn(mine) < round
        BY <1>0, <1>1 DEF ServerKeyed, ServerSettled
    <1>3. /\ writeKey[Client] = pending[Client]
          /\ pending[Client] = pending[Server]
        BY <1>0, <1>1, EndTypes DEF Concludes, Keyed
    <1>4. ~InFull(Client)
        <2>1. SUFFICES ASSUME InFull(Client) PROVE FALSE
            OBVIOUS
        <2>2. FullKey(Client)
            BY <1>0, <2>1, EndTypes DEF Keyed
        <2>3. MadeIn(pending[Client]) = round
            BY <2>2 DEF FullKey, MadeIn
        <2>4. MadeIn(pending[Client]) < round
            BY <1>2, <1>3 DEF ResumedKey, MadeIn
        <2> QED
            BY <2>3, <2>4, RoundType
    <1>5. InResumption(Client)
        BY <1>1, <1>3, <1>4 DEF InFull, InResumption
    <1>6. /\ session[Client] # NoSession
          /\ session[Client].secured = its
          /\ held # NoSession /\ ResumedKey(Client, its)
        BY <1>0, <1>1, <1>3, <1>5 DEF ClientKeyed, Offers, Offered
    <1>7. its \in known[Client] /\ its \in known[Server]
        BY <1>0, <1>6 DEF Memory, ClientKept, Known
    <1>8. MadeIn(its) = MadeIn(mine)
        BY <1>2, <1>3, <1>6 DEF ResumedKey, MadeIn
    <1>9. its = mine
        BY <1>0, <1>2, <1>7, <1>8 DEF Known
    <1> QED
        BY <1>1, <1>2, <1>3, <1>5, <1>6, <1>7, <1>9 DEF ResumedKey

-----------------------------------------------------------------------------
(***************************************************************************)
(* What relates the two ends.                                              *)
(***************************************************************************)
LEMMA OpenedStep ==
    ASSUME Inv, Step
    PROVE  Opened'
    <1> SUFFICES ASSUME NEW e \in Ends, session'[e] # NoSession
                 PROVE  writeKey'[Peer(e)] = readKey'[e]
        BY DEF Opened
    <1>0. Peer(e) \in Ends /\ Peer(e) # e
        BY EndTypes
    <1>1. CASE session[e] # NoSession
        <2>1. /\ writeKey[Peer(e)] = readKey[e]
              /\ readKey[e] = pending[e] /\ pending[e] # NoKey
            BY <1>1 DEF Inv, Opened, Keyed
        <2>2. readKey'[e] = readKey[e]
            BY <1>1, SessionStays DEF Stays, KeepsKeys
        <2>3. writeKey'[Peer(e)] = writeKey[Peer(e)]
            BY <1>0, <2>1, WriteKeyStays
        <2> QED
            BY <2>1, <2>2, <2>3
    <1>2. CASE session[e] = NoSession
        <2>1. PICK secured : Concludes(e, secured)
            BY <1>2, EndMoves
            DEF Stays, Stops, Switches, Greets, HearsHello, Verifies,
                TakesTicket, TakesSession, Negotiates, HearsClient,
                ClientConcludes, ServerConcludes
        <2>2. Stays(Peer(e))
            BY <2>1, EndTypes
            DEF Step, ClientStep, ServerStep, NetworkStep, Stays, Concludes
        <2> QED
            BY <2>1, <2>2 DEF Concludes, Stays, KeepsKeys
    <1> QED
        BY <1>1, <1>2

LEMMA IdentitiesStep ==
    ASSUME Inv, Step
    PROVE  Identities'
    <1>0. Identities /\ meeting' = meeting
        BY DEF Inv, Step, meeting
    <1>1. ASSUME InFull(Client)'
          PROVE  Negotiated /\ clientCert'[Client] =
                                  Identity(meeting, chosen[Server].suite)
        <2>1. CASE InFull(Client)
            BY <1>0, <2>1, ChoiceStays, EndTypes DEF Identities, InFull
        <2>2. CASE Verifies
            BY <2>2 DEF Verifies
        <2> QED
            BY <1>1, <2>1, <2>2, BecomesFull, EndTypes
    <1>2. ASSUME InFull(Client)'
          PROVE  Negotiated' /\ clientCert'[Client] =
                                   Identity(meeting, chosen[Server].suite)'
        <2>1. chosen'[Server] = chosen[Server] /\ at'[Server] # "wait_hello"
            BY <1>1, <1>2, NegotiatedStays DEF Negotiated
        <2> QED
            BY <1>0, <1>1, <1>2, <2>1 DEF Negotiated, Identity, Asks
    <1>3. ASSUME InFull(Server)'
          PROVE  InFull(Client) /\ clientCert'[Server] = clientCert[Client]
        <2>1. CASE InFull(Server)
            BY <1>0, <2>1, ChoiceStays, EndTypes DEF Identities, InFull
        <2>2. CASE HearsClient
            BY <2>2 DEF HearsClient
        <2> QED
            BY <1>3, <2>1, <2>2, BecomesFull, EndTypes
    <1>4. ASSUME InFull(Server)'
          PROVE  InFull(Client)' /\ clientCert'[Server] = clientCert'[Client]
        BY <1>3, <1>4, ChoiceStays, EndTypes DEF InFull
    <1> QED
        BY <1>2, <1>4 DEF Identities

\* A new session is the meeting's only one.
LEMMA KnownStep ==
    ASSUME Inv, Step
    PROVE  Known'
    <1>0. /\ Known /\ DOMAIN known = Ends
          /\ round' = round /\ setup' = setup
          /\ round \in 1..Len(setup.rounds)
        BY DEF Inv, Step, Shape, Maps
    <1>1. ASSUME session[Server] # NoSession, InFull(Server)
          PROVE  session'[Server] # NoSession /\ InFull(Server)'
        BY <1>1, SessionStays, EndTypes
        DEF Stays, KeepsKeys, KeepsTalk, InFull
    <1>2. ASSUME known'[Server] = known[Server],
                 known'[Client] \subseteq known[Server]
          PROVE  Known'
        BY <1>0, <1>1, <1>2
        DEF Known, Identity, Asks, MadeIn, Meeting, EtmFits
    <1>3. CASE KeepsMemory
        BY <1>0, <1>2, <1>3 DEF KeepsMemory, Known
    <1>4. CASE ~chosen[Client].resumed /\ ClientConcludes(FullSecured(Client))
        <2>1. FullSecured(Client) \in known[Server]
            BY <1>4, ClientAgrees DEF ClientConcludes
        <2>2. /\ known'[Client] = known[Client] \cup {FullSecured(Client)}
              /\ known'[Server] = known[Server]
            BY <1>0, <1>4 DEF ClientConcludes, Concludes
        <2> QED
            BY <1>0, <1>2, <2>1, <2>2 DEF Known
    <1>5. CASE chosen[Client].resumed /\ ClientConcludes(held.secured)
        <2>1. held.secured \in known[Server]
            BY <1>5, ClientTakesUp DEF ClientConcludes
        <2>2. /\ known'[Client] = known[Client] \cup {held.secured}
              /\ known'[Server] = known[Server]
            BY <1>0, <1>5 DEF ClientConcludes, Concludes
        <2> QED
            BY <1>0, <1>2, <2>1, <2>2 DEF Known
    <1>6. CASE /\ chosen[Server].resumed
               /\ ServerConcludes(chosen[Server].session.secured)
        <2> DEFINE x == chosen[Server].session.secured
        <2>1. x \in known[Server]
            BY <1>6, ServerAgrees DEF ServerConcludes
        <2>2. /\ known'[Client] = known[Client]
              /\ known'[Server] = known[Server] \cup {x}
            BY <1>0, <1>6 DEF ServerConcludes, Concludes
        <2> QED
            BY <1>0, <1>2, <2>1, <2>2 DEF Known
    <1>7. CASE ~chosen[Server].resumed /\ ServerConcludes(FullSecured(Server))
        <2> DEFINE x == FullSecured(Server)
        <2>1. /\ InFull(Server) /\ FullKey(Server)
              /\ session[Server] = NoSession
              /\ clientCert[Server] = Identity(meeting, chosen[Server].suite)
            BY <1>7, ServerLeads DEF ServerConcludes
        <2>2. /\ known'[Client] = known[Client]
              /\ known'[Server] = known[Server] \cup {x}
              /\ session'[Server] # NoSession
            BY <1>0, <1>7 DEF ServerConcludes, Concludes
        <2>3. InFull(Server)'
            BY <2>1, ChoiceStays, EndTypes DEF InFull
        <2>4. /\ MadeIn(x) = round
              /\ x.ems \in BOOLEAN
              /\ x.clientCert = clientCert[Server]
              /\ x.suite = chosen[Server].suite
              /\ x.etm = chosen[Server].etm
            BY <2>1 DEF FullSecured, Secured, FullKey, MadeIn
        <2>5. x.clientCert = Identity(Meeting(x), x.suite)
            BY <2>1, <2>4 DEF meeting, Meeting
        <2>6. \A y \in known[Server] : MadeIn(y) # round
            BY <1>0, <2>1 DEF Known
        <2>7. MadeIn(x) \in 1..round
            BY <1>0, <2>4
        <2>e. EtmFits(x)
            BY <2>1, <2>4 DEF Inv, ServerSuited, EtmFits
        <2> HIDE DEF x
        <2>8. ASSUME NEW y \in known'[Server]
              PROVE  /\ MadeIn(y) \in 1..round
                     /\ y.ems \in BOOLEAN /\ EtmFits(y)
                     /\ y.clientCert =
                           Identity(Meeting(y), y.suite)
                     /\ \A z \in known'[Server] : MadeIn(y) = MadeIn(z) =>
                                                     y = z
            BY <1>0, <2>2, <2>4, <2>5, <2>6, <2>7, <2>8, <2>e DEF Known
        <2>9. known'[Client] \subseteq known'[Server]
            BY <1>0, <2>2 DEF Known
        <2> QED
            BY <1>0, <2>2, <2>3, <2>8, <2>9
            DEF Known, MadeIn, Meeting, Identity, Asks, EtmFits
    <1> QED
        BY <1>3, <1>4, <1>5, <1>6, <1>7
        DEF Step, ClientStep, ServerStep, NetworkStep

\* What is worth keeping stays so.
LEMMA KeptStays ==
    ASSUME Inv, Step, NEW s
    PROVE  /\ ClientKept(s) => ClientKept(s)'
           /\ ServerKept(s) => ServerKept(s)'
    BY KnownGrows, EndTypes
    DEF Step, ClientKept, ServerKept, Origin, IdOk, TicketOk

LEMMA MemoryStep ==
    ASSUME Inv, Step
    PROVE  Memory'
    <1>0. /\ Memory /\ held' = held /\ setup' = setup /\ round' = round
          /\ DOMAIN known = Ends
        BY DEF Inv, Step, Shape, Maps
    <1>1. held' = NoSession \/ ClientKept(held)'
        BY <1>0, KeptStays DEF Memory
    <1>2. \A e \in Ends : known[e] \subseteq known'[e]
        BY KnownGrows
    <1>3. session'[Client] = NoSession \/ ClientKept(session[Client])'
        <2>1. CASE session'[Client] = session[Client]
            BY <1>0, <2>1, KeptStays DEF Memory
        <2>2. ASSUME NEW secured, ClientConcludes(secured),
                     MadeIn(secured) = round
                        \/ ~Meeting(secured).client.rejects
              PROVE  ClientKept(session[Client])'
            <3>1. /\ session'[Client].secured = secured
                  /\ secured \in known'[Client]
                BY <1>0, <2>2 DEF ClientConcludes, Concludes
            <3>2. IdOk(session[Client].id)' /\ TicketOk(session[Client].ticket)'
                BY <1>0, <1>2, <2>2, EndTypes
                DEF ClientConcludes, IdOk, TicketOk
            <3>3. session'[Client].resumable =>
                     ~Meeting(secured).client.rejects
                BY <2>2 DEF ClientConcludes, meeting, Meeting
            <3> QED
                BY <1>0, <2>2, <3>1, <3>2, <3>3
                DEF ClientKept, ClientConcludes, Origin, Meeting, MadeIn
        <2>3. CASE /\ ~chosen[Client].resumed
                   /\ ClientConcludes(FullSecured(Client))
            <3>1. InFull(Client)
                BY <2>3, EndTypes
                DEF Inv, Placed, InFull, ClientConcludes, Concludes, Late
            <3>2. MadeIn(FullSecured(Client)) = round
                BY <3>1, EndTypes
                DEF Inv, Keyed, FullKey, FullSecured, Secured, MadeIn
            <3> QED
                BY <2>2, <2>3, <3>2
        <2>4. CASE chosen[Client].resumed /\ ClientConcludes(held.secured)
            <3>1. held # NoSession /\ held.resumable
                BY <2>4, ClientTakesUp DEF ClientConcludes
            <3>2. ~Origin(held).client.rejects
                BY <1>0, <3>1 DEF Memory, ClientKept
            <3> QED
                BY <2>2, <2>4, <3>2 DEF Origin, Meeting, MadeIn
        <2> QED
            BY <2>1, <2>3, <2>4, EndMoves, EndTypes
            DEF Stays, Stops, Switches, Greets, HearsHello, Verifies,
                TakesTicket
    <1>4. session'[Server] = NoSession
             \/ session'[Server].secured \in known'[Server]
        <2>1. CASE session'[Server] = session[Server]
            BY <1>0, <1>2, <2>1, EndTypes DEF Memory
        <2>2. ASSUME NEW secured, ServerConcludes(secured)
              PROVE  session'[Server].secured \in known'[Server]
            BY <1>0, <2>2 DEF ServerConcludes, Concludes
        <2> QED
            BY <2>1, <2>2, EndMoves, EndTypes
            DEF Stays, Stops, Switches, TakesSession, Negotiates, HearsClient
    <1>5. \A i \in DOMAIN cache' : cache'[i] = NoSession
                                      \/ ServerKept(cache[i])'
        <2>1. CASE cache' = cache
            <3>1. ASSUME NEW i \in DOMAIN cache, cache[i] # NoSession
                  PROVE  ServerKept(cache[i])'
                <4>1. ServerKept(cache[i])
                    BY <1>0, <3>1 DEF Memory
                <4>2. PICK s : s = cache[i]
                    OBVIOUS
                <4>3. ServerKept(s)'
                    BY <4>1, <4>2, KeptStays
                <4> QED
                    BY <2>1, <4>2, <4>3
            <3> QED
                BY <2>1, <3>1
        <2>2. ASSUME NEW secured, ServerConcludes(secured),
                     MadeIn(secured) = round
                        \/ ~Meeting(secured).server.rejects
              PROVE  \A i \in DOMAIN cache' : cache'[i] = NoSession
                                                 \/ ServerKept(cache[i])'
            <3>1. /\ session'[Server].secured = secured
                  /\ secured \in known'[Server]
                BY <1>0, <2>2 DEF ServerConcludes, Concludes
            <3>2. session'[Server].resumable =>
                     ~Meeting(secured).server.rejects
                BY <2>2 DEF ServerConcludes, meeting, Meeting
            <3>3. "id" \in DOMAIN session'[Server] /\ IdOk(session'[Server].id)
                     => ServerKept(session[Server])'
                BY <1>0, <2>2, <3>1, <3>2
                DEF ServerKept, ServerConcludes, Origin, Meeting, MadeIn,
                    IdOk
            <3>4. ASSUME NEW i \in DOMAIN cache, cache'[i] # NoSession
                  PROVE  ServerKept(cache[i])'
                <4>1. CASE cache'[i] = cache[i]
                    <5>1. PICK s : s = cache[i]
                        OBVIOUS
                    <5>2. ServerKept(s)'
                        BY <1>0, <3>4, <4>1, <5>1, KeptStays DEF Memory
                    <5> QED
                        BY <4>1, <5>1, <5>2
                <4>2. CASE /\ cache'[i] = session'[Server]
                           /\ "id" \in DOMAIN session'[Server]
                           /\ IdOk(session'[Server].id)
                    BY <3>3, <4>2
                <4> QED
                    BY <2>2, <4>1, <4>2 DEF ServerConcludes
            <3> QED
                BY <2>2, <3>4 DEF ServerConcludes
        <2>3. CASE /\ ~chosen[Server].resumed
                   /\ ServerConcludes(FullSecured(Server))
            <3>1. FullKey(Server)
                BY <2>3, ServerLeads DEF ServerConcludes
            <3>2. MadeIn(FullSecured(Server)) = round
                BY <3>1 DEF FullKey, FullSecured, Secured, MadeIn
            <3> QED
                BY <2>2, <2>3, <3>2
        <2>4. CASE /\ chosen[Server].resumed
                   /\ ServerConcludes(chosen[Server].session.secured)
            <3> DEFINE s == chosen[Server].session
            <3>1. CASE chosen[Server].cached
                <4>1. InResumption(Server)
                    BY <2>4, ServerAgrees DEF ServerConcludes
                <4>2. ServerKept(s) /\ s.resumable
                    BY <3>1, <4>1 DEF Inv, ServerSettled
                <4>3. ~Meeting(s.secured).server.rejects
                    BY <4>2 DEF ServerKept, Origin, Meeting, MadeIn
                <4> QED
                    BY <2>2, <2>4, <4>3
            <3>2. CASE ~chosen[Server].cached
                BY <2>1, <2>4, <3>2 DEF ServerConcludes
            <3> QED
                BY <3>1, <3>2
        <2> QED
            BY <2>1, <2>3, <2>4
            DEF Step, ClientStep, ServerStep, NetworkStep, KeepsMemory,
                ClientConcludes
    <1> QED
        BY <1>1, <1>3, <1>4, <1>5 DEF Memory

LEMMA ClientSettledStep ==
    ASSUME Inv, Step
    PROVE  ClientSettled'
    <1>0. ClientSettled /\ round' = round
        BY DEF Inv, Step
    <1>1. ASSUME chosen'[Client] = chosen[Client],
                 at'[Client] \in {"wait_flight"} \cup Late =>
                    at[Client] \in {"wait_flight"} \cup Late,
                 at'[Client] = "wait_flight" => at[Client] = "wait_flight"
          PROVE  ClientSettled'
        BY <1>0, <1>1, KnownGrows, EndTypes
        DEF ClientSettled, IdOk, TicketOk
    <1>2. CASE at'[Client] \notin {"wait_flight"} \cup Late
        BY <1>2 DEF ClientSettled
    <1> QED
        BY <1>1, <1>2, EndMoves, EndTypes
        DEF Stays, Stops, Switches, Greets, HearsHello, Verifies, TakesTicket,
            ClientConcludes, Concludes, KeepsTalk, Late

LEMMA ServerSettledStep ==
    ASSUME Inv, Step
    PROVE  ServerSettled'
    <1>0. ServerSettled /\ round' = round
        BY DEF Inv, Step
    <1>1. CASE TakesSession \/ Negotiates
        BY <1>1 DEF TakesSession, Negotiates
    <1>2. CASE ~TakesSession /\ ~Negotiates
        <2>1. /\ chosen'[Server] = chosen[Server]
              /\ at'[Server] = "wait_flight" => at[Server] = "wait_flight"
            BY <1>2, EndMoves, EndTypes
            DEF Stays, Stops, Switches, HearsClient, ServerConcludes,
                Concludes, KeepsTalk
        <2>2. InFull(Server)' => InFull(Server) \/ at[Server] = "wait_flight"
            BY BecomesFull, EndTypes DEF HearsClient
        <2>3. InResumption(Server)' => InResumption(Server)
            BY <1>2, BecomesResumption
        <2>4. PICK s : s = chosen[Server].session
            OBVIOUS
        <2>5. ServerKept(s) => ServerKept(s)'
            BY KeptStays
        <2> QED
            BY <1>0, <2>1, <2>2, <2>3, <2>4, <2>5, KnownGrows, EndTypes
            DEF ServerSettled, IdOk, MadeIn
    <1> QED
        BY <1>1, <1>2

\* What the client asks for stays the same in a meeting.
LEMMA AskedStays ==
    ASSUME setup' = setup, round' = round
    PROVE  client' = client /\ server' = server /\ Asked' = Asked
    <1>1. client' = client /\ server' = server
        BY DEF client, server, meeting
    <1> QED
        BY <1>1 DEF Asked

LEMMA ClientSuitedStep ==
    ASSUME Inv, Step
    PROVE  ClientSuited'
    <1>0. /\ ClientSuited /\ Placed(Client) /\ held' = held
          /\ client' = client /\ Asked' = Asked
        BY AskedStays, EndTypes DEF Inv, Step
    <1>1. CASE Greets \/ HearsHello
        BY <1>1 DEF Greets, HearsHello
    <1>2. CASE Stays(Client) \/ Stops(Client) \/ Switches(Client)
        BY <1>0, <1>2
        DEF Stays, Stops, Switches, KeepsKeys, KeepsTalk, ClientSuited,
            ClientFits, InResumption
    <1>3. CASE Verifies
        BY <1>0, <1>3
        DEF Verifies, ClientSuited, ClientFits, InResumption, Placed
    <1>4. CASE TakesTicket
        BY <1>0, <1>4
        DEF TakesTicket, KeepsKeys, ClientSuited, ClientFits, InResumption
    <1>5. ASSUME NEW secured, Concludes(Client, secured)
          PROVE  ClientSuited'
        BY <1>0, <1>5
        DEF Concludes, KeepsTalk, ClientSuited, ClientFits, InResumption
    <1> QED
        BY <1>1, <1>2, <1>3, <1>4, <1>5, EndMoves, EndTypes
        DEF ClientConcludes

LEMMA ServerSuitedStep ==
    ASSUME Inv, Step
    PROVE  ServerSuited'
    <1>0. /\ ServerSuited /\ Placed(Server)
          /\ server' = server /\ Asked' = Asked
        BY AskedStays, EndTypes DEF Inv, Step
    <1>1. CASE TakesSession \/ Negotiates
        BY <1>1 DEF TakesSession, Negotiates
    <1>2. CASE Stays(Server) \/ Stops(Server) \/ Switches(Server)
        BY <1>0, <1>2
        DEF Stays, Stops, Switches, KeepsKeys, KeepsTalk, ServerSuited,
            ServerFits, EtmFits, InFull, InResumption
    <1>3. CASE HearsClient
        BY <1>0, <1>3
        DEF HearsClient, ServerSuited, ServerFits, EtmFits, InFull,
            InResumption, Placed
    <1>4. ASSUME NEW secured, Concludes(Server, secured)
          PROVE  ServerSuited'
        BY <1>0, <1>4
        DEF Concludes, KeepsTalk, ServerSuited, ServerFits, EtmFits, InFull,
            InResumption
    <1> QED
        BY <1>1, <1>2, <1>3, <1>4, EndMoves, EndTypes
        DEF ServerConcludes

\* How a transcript begins.
LEMMA ServerHeadKept ==
    ASSUME Inv, Step, hash[Server] # <<>>
    PROVE  /\ HeadKept(Server)
           /\ hash'[Server] # <<>> /\ hash'[Server][1] = hash[Server][1]
    BY DEF Inv, ServerBegan, Step, HeadsKept, HeadKept

LEMMA ClientBeganStep ==
    ASSUME Inv, Step
    PROVE  ClientBegan'
    <1>0. ClientBegan
        BY DEF Inv
    <1>1. CASE hash'[Client] = <<Seen("client_hello")>>
        BY <1>1 DEF ClientBegan
    <1>2. CASE HeadKept(Client) /\ ~Greets
        <2>1. at'[Client] \in {"wait_hello", "wait_flight"} \cup Late =>
                 at[Client] \in {"wait_hello", "wait_flight"} \cup Late
            BY <1>2, EndMoves, EndTypes
            DEF Stays, Stops, Switches, HearsHello, Verifies, TakesTicket,
                ClientConcludes, Concludes, Late
        <2> QED
            BY <1>0, <1>2, <2>1 DEF ClientBegan, HeadKept
    <1> QED
        BY <1>1, <1>2 DEF Step, HeadsKept, Greets

LEMMA ServerBeganStep ==
    ASSUME Inv, Step
    PROVE  ServerBegan'
    <1>0. /\ ServerBegan /\ Placed(Server)
          /\ server' = server /\ Asked' = Asked
        BY AskedStays, EndTypes DEF Inv, Step
    <1>1. CASE TakesSession \/ Negotiates
        BY <1>1 DEF TakesSession, Negotiates
    <1>2. CASE ~TakesSession /\ ~Negotiates
        <2>1. /\ at'[Server] = "wait_hello" => at[Server] = "wait_hello"
              /\ pending'[Server] # NoKey \/ at'[Server] = "wait_flight" =>
                    pending[Server] # NoKey \/ at[Server] = "wait_flight"
              /\ chosen'[Server] = chosen[Server]
            BY <1>0, <1>2, EndMoves, EndTypes
            DEF Stays, Stops, Switches, HearsClient, ServerConcludes,
                Concludes, KeepsKeys, KeepsTalk, Placed, Early
        <2>2. at'[Server] = "wait_hello" => hash'[Server] = <<>>
            BY <1>0, <2>1 DEF Step, HeadsKept, HeadKept, ServerBegan
        <2>3. ASSUME pending[Server] # NoKey \/ at[Server] = "wait_flight"
              PROVE  /\ hash'[Server] # <<>>
                     /\ hash'[Server][1] = hash[Server][1]
            BY <1>0, <2>3, ServerHeadKept DEF ServerBegan
        <2> QED
            BY <1>0, <2>1, <2>2, <2>3 DEF ServerBegan
    <1> QED
        BY <1>1, <1>2

LEMMA VouchedStep ==
    ASSUME Inv, Step
    PROVE  Vouched'
    <1>1. Unaltered => Unaltered'
        BY ServerHeadKept DEF Unaltered
    <1>2. ASSUME NEW e \in Ends, session'[e] # NoSession
          PROVE  Unaltered
        <2>1. CASE session[e] # NoSession
            BY <2>1 DEF Inv, Vouched
        <2>2. CASE session[e] = NoSession
            BY <1>2, <2>2, EndMoves
            DEF Stays, Stops, Switches, Greets, HearsHello, Verifies,
                TakesTicket, TakesSession, Negotiates, HearsClient,
                ClientConcludes, ServerConcludes, Concludes
        <2> QED
            BY <2>1, <2>2
    <1> QED
        BY <1>1, <1>2 DEF Vouched

\* What was said stays true.
LEMMA ClientSaidStep ==
    ASSUME Inv, Step
    PROVE  ClientSaid'
    <1> SUFFICES ASSUME NEW r \in ToSet(wire'[Client])
                 PROVE  ClientRecord(r.msg, r.key)'
        BY DEF ClientSaid
    <1>0. /\ round' = round /\ Asked' = Asked
          /\ \/ \E o \in ToSet(wire[Client]) : r.msg = o.msg /\ r.key = o.key
             \/ ClientRecord(r.msg, r.key)'
        BY AskedStays DEF Step, Sends, Carries
    <1>1. CASE ClientRecord(r.msg, r.key)
        <2>1. known[Server] \subseteq known'[Server]
            BY KnownGrows, EndTypes
        <2>2. InFull(Client) => /\ InFull(Client)'
                                /\ clientCert'[Client] = clientCert[Client]
            BY ChoiceStays, EndTypes DEF InFull
        <2>3. writeKey[Client] # NoKey => writeKey'[Client] = writeKey[Client]
            BY WriteKeyStays, EndTypes
        <2> QED
            BY <1>0, <1>1, <2>1, <2>2, <2>3
            DEF ClientRecord, IdOk, TicketOk
    <1> QED
        BY <1>0, <1>1 DEF Inv, ClientSaid

LEMMA ServerSaidStep ==
    ASSUME Inv, Step
    PROVE  ServerSaid'
    <1> SUFFICES ASSUME NEW r \in ToSet(wire'[Server])
                 PROVE  ServerRecord(r.msg, r.key)'
        BY DEF ServerSaid
    <1>0. /\ round' = round /\ meeting' = meeting
          /\ \/ \E o \in ToSet(wire[Server]) : r.msg = o.msg /\ r.key = o.key
             \/ ServerRecord(r.msg, r.key)'
        BY DEF Step, Sends, Carries, meeting
    <1>1. CASE ServerRecord(r.msg, r.key)
        <2>1. known[Server] \subseteq known'[Server]
            BY KnownGrows, EndTypes
        <2>2. Negotiated => /\ Negotiated'
                            /\ chosen'[Server] = chosen[Server]
            BY NegotiatedStays DEF Negotiated
        <2>3. writeKey[Server] # NoKey => writeKey'[Server] = writeKey[Server]
            BY WriteKeyStays, EndTypes
        <2>4. hash[Server] # <<>> => /\ hash'[Server] # <<>>
                                     /\ hash'[Server][1] = hash[Server][1]
            BY ServerHeadKept
        <2> QED
            BY <1>0, <1>1, <2>1, <2>2, <2>3, <2>4
            DEF ServerRecord, IdOk, Asks
    <1> QED
        BY <1>0, <1>1 DEF Inv, ServerSaid

LEMMA StepInv ==
    ASSUME Inv, Step
    PROVE  Inv'
    BY PlacedStep, KeyedStep, ClientKeyedStep, ServerKeyedStep, OpenedStep,
       IdentitiesStep, KnownStep, MemoryStep, ClientSettledStep,
       ServerSettledStep, ClientSuitedStep, ServerSuitedStep, ClientBeganStep,
       ServerBeganStep, VouchedStep, ClientSaidStep, ServerSaidStep
    DEF Inv, Shape, Step, Sends

-----------------------------------------------------------------------------
(***************************************************************************)
(* Records.                                                                *)
(***************************************************************************)
LEMMA ThreeMessages ==
    ASSUME NEW l, NEW m, NEW n
    PROVE  IsSeq(<<l, m, n>>) /\ ToSet(<<l, m, n>>) = {l, m, n}
    <1>1. ToSet(<<l, m, n>>) = {l, m, n}
        BY DEF ToSet
    <1> QED
        BY <1>1 DEF IsSeq

LEMMA RecordFacts ==
    ASSUME NEW m, NEW key
    PROVE  /\ IsRecord(Record(m, key))
           /\ Record(m, key).msg = m /\ Record(m, key).key = key
    BY DEF Record, IsRecord

\* What an end may say now.
MaySay(e, r) ==
    /\ IsRecord(r)
    /\ IF e = Client THEN ClientRecord(r.msg, r.key)'
                     ELSE ServerRecord(r.msg, r.key)'

\* Alerts and the change_cipher_spec say nothing.
LEMMA MaySayAlert ==
    ASSUME NEW e, NEW key
    PROVE  /\ MaySay(e, Record([type |-> "alert"], key))
           /\ MaySay(e, Ccs)
    <1> DEFINE m == [type |-> "alert"]
               c == [type |-> "ccs"]
    <1>1. m.type = "alert" /\ c.type = "ccs"
        OBVIOUS
    <1> HIDE DEF m, c
    <1>2. /\ ClientRecord(m, key)' /\ ServerRecord(m, key)'
          /\ ClientRecord(c, NoKey)' /\ ServerRecord(c, NoKey)'
        BY <1>1 DEF ClientRecord, ServerRecord
    <1>3. \A k : MaySay(e, Record(m, k)) <=>
              IF e = Client THEN ClientRecord(m, k)' ELSE ServerRecord(m, k)'
        BY RecordFacts DEF MaySay
    <1>4. \A k : MaySay(e, Record(c, k)) <=>
              IF e = Client THEN ClientRecord(c, k)' ELSE ServerRecord(c, k)'
        BY RecordFacts DEF MaySay
    <1> QED
        BY <1>2, <1>3, <1>4 DEF m, c, Ccs

LEMMA AnswerSends ==
    ASSUME Shape, NEW e \in Ends, NEW records, Answer(e, records),
           IsSeq(records), \A r \in ToSet(records) : MaySay(e, r)
    PROVE  Sends
    <1> DEFINE p == Peer(e)
    <1>0. /\ p \in Ends /\ p # e /\ Ends = {e, p}
          /\ e = Client \/ p = Client
        BY DEF Peer
    <1>1. /\ DOMAIN wire = Ends
          /\ \A q \in Ends : IsSeq(wire[q])
                             /\ \A r \in ToSet(wire[q]) : IsRecord(r)
        BY DEF Shape, Wired
    <1>2. /\ DOMAIN wire' = Ends
          /\ wire'[p] = wire[p] \/ (wire[p] # <<>> /\ wire'[p] = Tail(wire[p]))
          /\ wire'[e] = wire[e] \/ wire'[e] = wire[e] \o records
        BY <1>0, <1>1 DEF Answer
    <1> HIDE DEF p
    <1>3. IsSeq(wire'[p]) /\ ToSet(wire'[p]) \subseteq ToSet(wire[p])
        BY <1>0, <1>1, <1>2, TailFacts
    <1>4. /\ IsSeq(wire'[e])
          /\ ToSet(wire'[e]) \subseteq ToSet(wire[e]) \cup ToSet(records)
        BY <1>0, <1>1, <1>2, ConcatFacts
    <1>5. Wired'
        BY <1>0, <1>1, <1>2, <1>3, <1>4 DEF Wired, MaySay
    <1>6. Carries(p)
        BY <1>0, <1>3 DEF Carries
    <1>7. Carries(e)
        BY <1>4 DEF Carries, MaySay
    <1> QED
        BY <1>0, <1>5, <1>6, <1>7 DEF Sends

LEMMA QuietSends ==
    ASSUME Shape, wire' = wire
    PROVE  Sends
    BY DEF Shape, Sends, Wired, Carries

\* What is read was sent.
LEMMA ReceivesFacts ==
    ASSUME Inv, NEW e \in Ends, NEW where, NEW type, Receives(e, where, type)
    PROVE  /\ at[e] = where
           /\ Upcoming(e).msg.type = type
           /\ Upcoming(e).key = readKey[e]
           /\ Upcoming(e) \in ToSet(wire[Peer(e)])
           /\ e = Client => ServerRecord(Upcoming(e).msg, Upcoming(e).key)
           /\ e = Server => ClientRecord(Upcoming(e).msg, Upcoming(e).key)
           /\ IsSeq(Hashed(e)) /\ Hashed(e) # <<>>
           /\ hash[e] # <<>> => Hashed(e)[1] = hash[e][1]
           /\ hash[e] = <<>> => Hashed(e)[1].intact = Upcoming(e).intact
    <1>0. /\ Peer(e) \in Ends
          /\ e = Client => Peer(e) = Server
          /\ e = Server => Peer(e) = Client
        BY DEF Peer
    <1>1. /\ at[e] = where
          /\ wire[Peer(e)] # <<>>
          /\ Upcoming(e).msg.type = type
          /\ Upcoming(e).key = readKey[e]
        BY DEF Receives, Incoming, Opens
    <1>2. Upcoming(e) \in ToSet(wire[Peer(e)])
        BY <1>0, <1>1, TailFacts DEF Inv, Shape, Wired, Upcoming
    <1>3. IsSeq(Hashed(e)) /\ Hashed(e) # <<>>
        BY AppendFacts DEF Inv, Shape, Heard, Hashed
    <1>4. hash[e] # <<>> => Hashed(e)[1] = hash[e][1]
        BY BeginsFacts DEF Inv, Shape, Heard, Hashed
    <1>5. hash[e] = <<>> => Hashed(e)[1].intact = Upcoming(e).intact
        <2>1. PICK x : x = [type |-> Upcoming(e).msg.type,
                            intact |-> Upcoming(e).intact]
            OBVIOUS
        <2>2. Hashed(e) = Append(hash[e], x) /\ x.intact = Upcoming(e).intact
            BY <2>1 DEF Hashed
        <2> QED
            BY <2>2, FirstAppended
    <1> QED
        BY <1>0, <1>1, <1>2, <1>3, <1>4, <1>5 DEF Inv, ClientSaid, ServerSaid

LEMMA MeetingFacts ==
    ASSUME Maps
    PROVE  /\ client.cert = meeting.client.cert
           /\ client.rejects = meeting.client.rejects
           /\ server.reqCert = meeting.server.reqCert
           /\ server.rejects = meeting.server.rejects
           /\ client.settings = Validated(meeting.client.settings)
           /\ server.settings = Validated(meeting.server.settings)
           /\ meeting.client.settings \in SettingsType
           /\ meeting.server.settings \in SettingsType
    <1>1. meeting \in Rounds
        <2>1. setup.rounds \in Seq(Rounds)
            BY SetupsAssumption DEF Maps
        <2> QED
            BY <2>1, ElementOfSeq DEF Maps, meeting
    <1> QED
        BY <1>1 DEF Rounds, ClientSetups, ServerSetups, client, server

LEMMA ValidatedFacts ==
    ASSUME NEW s \in SettingsType, NEW t, t = Validated(s)
    PROVE  /\ t.min \in 0..4 /\ t.max \in 0..4
           /\ t.versions \in Seq(0..4)
           /\ t.ciphers \subseteq CipherNames
    <1>1. /\ s.min \in 0..4 /\ s.max \in 0..4 /\ s.versions \in Seq(0..4)
          /\ s.ciphers \subseteq CipherNames
        BY DEF SettingsType, Versions
    <1>2. {"min", "max", "versions", "ciphers", "macs"} \subseteq DOMAIN s
        BY DEF SettingsType
    <1>3. \E m : t = [s EXCEPT !.macs = m]
        BY DEF Validated
    <1> QED
        BY <1>1, <1>2, <1>3

\* Each end has settings of the type they were given.
LEMMA SettingsFacts ==
    ASSUME Maps, NEW e
    PROVE  /\ Settings(e).min \in 0..4 /\ Settings(e).max \in 0..4
           /\ Settings(e).versions \in Seq(0..4)
           /\ Settings(e).ciphers \subseteq CipherNames
    BY MeetingFacts, ValidatedFacts DEF Settings

LEMMA AskedFacts ==
    ASSUME Maps
    PROVE  /\ DOMAIN Asked = {"version", "versions", "suites", "fallback",
                              "etm", "ems", "algorithms", "groups"}
           /\ Asked.version = Lesser(client.settings.max, 3)
           /\ Asked.version \in Int
           /\ Asked.versions = IF Speaks13(client.settings)
                               THEN client.settings.versions ELSE <<>>
           /\ Asked.suites = ClientSuites(client.settings, client.auth)
           /\ OwnHello.asks = Asked
    <1>1. client.settings.max \in Int
        BY MeetingFacts, ValidatedFacts
    <1>2. Lesser(client.settings.max, 3) \in Int
        BY <1>1 DEF Lesser
    <1>3. OwnHello.asks = Asked
        BY DEF OwnHello, Asked
    <1> QED
        BY <1>2, <1>3 DEF Asked, ClientHello

LEMMA VersionIsInt ==
    ASSUME Maps, NEW hello, hello.version \in Int,
           NEW v \in ServerVersions(server.settings, hello)
    PROVE  v \in Int
    <1>1. /\ server.settings.versions \in Seq(0..4)
          /\ server.settings.max \in 0..4
        BY MeetingFacts, ValidatedFacts
    <1>2. ToSet(server.settings.versions) \subseteq 0..4
        BY <1>1, LenProperties DEF ToSet
    <1> QED
        BY <1>1, <1>2 DEF ServerVersions, FirstMatching, Lesser, ToSet

-----------------------------------------------------------------------------
(***************************************************************************)
(* The client's steps.                                                     *)
(***************************************************************************)
EndStep(e) == IF e = Client THEN ClientStep ELSE ServerStep

LEMMA FailStep ==
    ASSUME Inv, NEW e \in Ends, Fail(e), at[e] \in Early \cup Late
    PROVE  EndStep(e)
    <1>1. /\ Stops(e) /\ KeepsMemory
          /\ \A p \in Ends \ {e} : Stays(p)
        BY DEF Inv, Shape, Maps, Fail, keyVars, talkVars, memory, Stops, Stays,
               KeepsKeys, KeepsTalk, KeepsMemory
    <1> QED
        BY <1>1 DEF EndStep, ClientStep, ServerStep

LEMMA ErrorStep ==
    ASSUME Inv, NEW e \in Ends, SendError(e), at[e] \in Early \cup Late
    PROVE  EndStep(e) /\ Sends
    <1> DEFINE r == Record([type |-> "alert"], writeKey[e])
    <1>1. Answer(e, <<r>>) /\ MaySay(e, r)
        BY MaySayAlert DEF SendError
    <1> HIDE DEF r
    <1>2. Sends
        BY <1>1, AnswerSends, OneMessage DEF Inv
    <1> QED
        BY <1>2, FailStep DEF SendError

LEMMA CrashStep ==
    ASSUME Inv, NEW e \in Ends, Crash(e), at[e] \in Early \cup Late
    PROVE  EndStep(e) /\ Sends
    BY FailStep, AnswerSends, EmptyFacts DEF Crash, Inv

LEMMA StartFailsStep ==
    ASSUME Inv, StartFails
    PROVE  ClientStep /\ Sends
    BY FailStep, QuietSends, EndTypes
    DEF StartFails, netVars, Inv, EndStep, Early

\* What the client offers is what it kept.
LEMMA SendClientHelloStep ==
    ASSUME Inv, SendClientHello
    PROVE  ClientStep /\ Sends
    <1>0. PICK hello : hello = OwnHello
        OBVIOUS
    <1>1. /\ UNCHANGED <<round, known, cache>>
          /\ Answer(Client, <<Record(hello, NoKey)>>)
        BY <1>0 DEF SendClientHello, memory
    <1>2. Offers => held # NoSession /\ ClientKept(held) /\ Offered = held
        BY DEF Inv, Memory, Offers, Offered, NoSession
    <1>3. IdOk(hello.id)
        BY <1>0, <1>2, RoundType DEF OwnHello, OfferedId, IdOk, ClientKept
    <1>4. TicketOk(hello.ticket)
        BY <1>0, <1>2 DEF OwnHello, OfferedTicket, TicketOk, ClientKept
    <1>5. /\ hello.type = "client_hello" /\ hello.asks = Asked
          /\ {"id", "ticket", "asks"} \subseteq DOMAIN hello
        BY <1>0 DEF OwnHello, Asked
    <1>a. Asked' = Asked
        BY AskedStays DEF SendClientHello
    <1>6. ClientRecord(hello, NoKey)'
        BY <1>1, <1>3, <1>4, <1>5, <1>a DEF ClientRecord, IdOk, TicketOk
    <1>7. Sends
        BY <1>1, <1>6, RecordFacts, OneMessage, AnswerSends DEF MaySay, Inv
    <1>8. /\ at[Client] = "start" /\ at'[Client] = "wait_hello"
          /\ KeepsKeys(Client) /\ session'[Client] = session[Client]
          /\ hash'[Client] = <<Seen("client_hello")>>
          /\ Stays(Server) /\ KeepsMemory
        BY DEF SendClientHello, Inv, Shape, Maps, keyVars, memory,
               Stays, KeepsKeys, KeepsTalk, KeepsMemory
    <1>9. chosen'[Client].asks = Asked
        <2>1. PICK c : c = [version |-> 0, asks |-> hello.asks]
            OBVIOUS
        <2>2. chosen' = [chosen EXCEPT ![Client] = c]
            BY <1>0, <2>1 DEF SendClientHello
        <2> QED
            BY <1>5, <2>1, <2>2 DEF Inv, Shape, Maps
    <1>10. ClientSuited'
        BY <1>8, <1>9, <1>a, EndTypes
        DEF Inv, Placed, Early, KeepsKeys, ClientSuited, InResumption
    <1> QED
        BY <1>7, <1>8, <1>10 DEF ClientStep, Greets

\* A damaged ServerHello still has a version, an ID and the flags.
LEMMA ServerHelloRead ==
    ASSUME NEW sh \in ServerHelloReadings,
           ServerRecord(Upcoming(Client).msg, Upcoming(Client).key),
           Upcoming(Client).msg.type = "server_hello"
    PROVE  IdOk(sh.id) /\ sh.ems \in BOOLEAN /\ sh.version \in Int
    <1> DEFINE m == Upcoming(Client).msg
    <1>1. /\ {"version", "suite", "id", "etm", "ems"} \subseteq DOMAIN m
          /\ IdOk(m.id) /\ m.ems \in BOOLEAN /\ m.version \in Int
        BY DEF ServerRecord
    <1>2. \/ sh = m
          \/ sh = [m EXCEPT !.etm = ~@] \/ sh = [m EXCEPT !.ems = ~@]
          \/ \E v \in 0..(m.version - 1) :
                sh = [m EXCEPT !.version = v, !.sentinel = "none"]
          \/ \E x : sh = [m EXCEPT !.suite = x]
        BY DEF ServerHelloReadings
    <1>a. 0..(m.version - 1) \subseteq Int
        BY <1>1
    <1> HIDE DEF m
    <1>3. sh.id = m.id /\ (sh.ems = m.ems \/ sh.ems = ~m.ems)
        BY <1>1, <1>2
    <1>4. sh.version \in Int
        BY <1>1, <1>2, <1>a
    <1> QED
        BY <1>1, <1>3, <1>4

LEMMA KeyFacts ==
    ASSUME NEW secured, NEW sh
    PROVE  /\ Key(secured, sh) # NoKey
           /\ Key(secured, sh).master = secured.master
           /\ Key(secured, sh).suite = secured.suite
           /\ Key(secured, sh).version = sh.version
           /\ Key(secured, sh).etm = sh.etm
    <1>1. "suite" \in DOMAIN Key(secured, sh) /\ "suite" \notin DOMAIN NoKey
        BY DEF Key, NoKey
    <1> QED
        BY <1>1 DEF Key

LEMMA ReadServerHelloStep ==
    ASSUME Inv, ReadServerHello
    PROVE  ClientStep /\ Sends
    <1>0. /\ Maps /\ Placed(Client) /\ Client \in Ends
          /\ Receives(Client, "wait_hello", "server_hello")
          /\ UNCHANGED <<setup, round, known, cache, held>>
        BY DEF ReadServerHello, Inv, Shape, memory
    <1>1. PICK sh \in ServerHelloReadings :
              LET resumes == ResumesBy(sh)
              IN  /\ AcceptsHello(sh) /\ sh.version < 4
                  /\ chosen' = [chosen EXCEPT ![Client] =
                                   [version |-> sh.version, suite |-> sh.suite,
                                    id |-> sh.id, etm |-> sh.etm,
                                    ems |-> sh.ems, resumed |-> resumes,
                                    ticket |-> <<>>]]
                  /\ pending' = IF resumes
                                THEN [pending EXCEPT ![Client] =
                                         Key(Offered.secured, sh)]
                                ELSE pending
                  /\ at' = [at EXCEPT ![Client] =
                               IF resumes THEN "wait_ccs" ELSE "wait_flight"]
        BY DEF ReadServerHello
    <1>2. /\ at[Client] = "wait_hello"
          /\ IdOk(sh.id) /\ sh.ems \in BOOLEAN /\ sh.version \in Int
        BY <1>0, ReceivesFacts, ServerHelloRead
    <1> DEFINE c == chosen'[Client]
               resumes == ResumesBy(sh)
    <1>3. /\ c = [version |-> sh.version, suite |-> sh.suite, id |-> sh.id,
                  etm |-> sh.etm, ems |-> sh.ems, resumed |-> resumes,
                  ticket |-> <<>>]
          /\ at'[Client] = IF resumes THEN "wait_ccs" ELSE "wait_flight"
        BY <1>0, <1>1 DEF Maps
    <1>4. ClientSettled' /\ c.resumed \in BOOLEAN
        <2>1. resumes \in BOOLEAN
            BY DEF ResumesBy
        <2> QED
            BY <1>0, <1>2, <1>3, <2>1 DEF ClientSettled, IdOk, TicketOk
    <1>a. /\ ClientFits(chosen[Client].suite, chosen[Client].version)'
          /\ resumes => c.suite = Offered.secured.suite
        <2>1. chosen[Client].asks = Asked /\ Asked' = Asked
              /\ client' = client
            BY <1>0, <1>2, AskedStays DEF Inv, ClientSuited
        <2>2. /\ sh.suite \in ClientSuites(client.settings, client.auth)
              /\ filterForVersion(sh.suite, sh.version, sh.version)
              /\ resumes => sh.suite = Offered.secured.suite
            BY <1>0, <1>1, <2>1, AskedFacts
            DEF AcceptsHello, AcceptsServerHello
        <2> QED
            BY <1>2, <1>3, <2>1, <2>2 DEF ClientFits
    <1>5. ASSUME ~resumes
          PROVE  HearsHello
        <2>1. ClientSuited'
            BY <1>3, <1>5, <1>a DEF ClientSuited, InResumption
        <2>2. HearsHello
            BY <1>0, <1>1, <1>2, <1>3, <1>4, <1>5, <2>1
            DEF ReadServerHello, keyVars, HearsHello
        <2> QED
            BY <2>2
    <1>6. ASSUME resumes
          PROVE  HearsHello
        <2>1. Offers /\ Offered = held /\ held # NoSession
            BY <1>6 DEF ResumesBy, Offers, Offered
        <2>2. pending'[Client] = Key(held.secured, sh)
            BY <1>0, <1>1, <1>6, <2>1 DEF Maps
        <2>3. /\ pending'[Client] # NoKey
              /\ ResumedKey(Client, held.secured)'
            BY <1>0, <1>3, <2>2, KeyFacts DEF ResumedKey
        <2>4. ClientSuited'
            BY <1>0, <1>3, <1>6, <1>a, <2>1, <2>2, KeyFacts
            DEF ClientSuited, InResumption
        <2> QED
            BY <1>0, <1>2, <1>3, <1>4, <1>6, <2>1, <2>3, <2>4
            DEF ReadServerHello, keyVars, HearsHello
    <1>7. Stays(Server) /\ KeepsMemory
        BY <1>0, <1>1 DEF ReadServerHello, Maps, keyVars, Stays, KeepsKeys,
                          KeepsTalk, KeepsMemory
    <1>8. Sends
        BY <1>0, AnswerSends, EmptyFacts DEF ReadServerHello, Inv
    <1> QED
        BY <1>5, <1>6, <1>7, <1>8 DEF ClientStep

LEMMA RefuseServerHelloStep ==
    ASSUME Inv, RefuseServerHello
    PROVE  ClientStep /\ Sends
    BY ErrorStep, EndTypes DEF RefuseServerHello, Receives, EndStep, Early

LEMMA EnterTls13Step ==
    ASSUME Inv, EnterTls13
    PROVE  ClientStep /\ Sends
    <1>1. Stops(Client) /\ Stays(Server) /\ KeepsMemory
        BY DEF EnterTls13, Inv, Shape, Maps, Receives, keyVars, talkVars,
               memory, Stops, Stays, KeepsKeys, KeepsTalk, KeepsMemory, Early
    <1>2. Sends
        BY AnswerSends, EmptyFacts, EndTypes DEF EnterTls13, Inv
    <1> QED
        BY <1>1, <1>2 DEF ClientStep


\* A full handshake's secret is this meeting's.
MadeNow(e, secured) ==
    /\ secured.master[1].round = round
    /\ chosen[e].ems = (secured.master[2] # <<>>)
    /\ secured.suite = chosen[e].suite

LEMMA FullKeyMade ==
    ASSUME NEW pre, NEW transcript, NEW cert, NEW e,
           pre.round = round, IsSeq(transcript), transcript # <<>>,
           chosen[e].ems \in BOOLEAN
    PROVE  MadeNow(e, Secured(e, Master(pre, chosen[e], transcript), cert))
    <1> DEFINE secured == Secured(e, Master(pre, chosen[e], transcript), cert)
    <1>1. /\ secured.master = Master(pre, chosen[e], transcript)
          /\ secured.suite = chosen[e].suite
        BY DEF Secured
    <1>2. /\ secured.master[1] = pre
          /\ secured.master[2] = IF chosen[e].ems THEN transcript ELSE <<>>
        BY <1>1 DEF Master
    <1> QED
        BY <1>1, <1>2 DEF MadeNow

LEMMA ReadFlightStep ==
    ASSUME Inv, ReadFlight
    PROVE  ClientStep /\ Sends
    <1>0. /\ Maps /\ Placed(Client) /\ Client \in Ends /\ ClientSettled
          /\ Receives(Client, "wait_flight", "server_flight")
          /\ UNCHANGED <<setup, round, readKey, chosen, session, known, cache,
                         held>>
          /\ at' = [at EXCEPT ![Client] = "wait_ccs"]
        BY DEF ReadFlight, Inv, Shape, memory
    <1> DEFINE f == Upcoming(Client).msg
    <1>1. PICK shared \in {TRUE, Upcoming(Client).intact} :
              LET cert == SentCert(f)
                  verified == Append(Hashed(Client), Seen("client_flight"))
                  pre == ClientPremaster(shared)
                  master == Master(pre, chosen[Client], verified)
                  secured == Secured(Client, master, cert)
                  key == Key(secured, chosen[Client])
              IN  /\ Answer(Client,
                       <<Record([type |-> "client_flight", cert |-> cert,
                                 algorithm |-> IF cert = "none" THEN Sha1
                                               ELSE Signatures(f)[1],
                                 signed |-> verified,
                                 version |-> Lesser(client.settings.max, 3)],
                                NoKey),
                         Ccs, Record(Finished(secured, verified), key)>>)
                  /\ clientCert' = [clientCert EXCEPT ![Client] = cert]
                  /\ pending' = [pending EXCEPT ![Client] = key]
                  /\ writeKey' = [writeKey EXCEPT ![Client] = key]
        BY DEF ReadFlight
    <1>2. PICK cert : cert = SentCert(f)
        OBVIOUS
    <1>3. PICK verified :
              verified = Append(Hashed(Client), Seen("client_flight"))
        OBVIOUS
    <1>4. PICK pre : pre = ClientPremaster(shared)
        OBVIOUS
    <1>5. PICK secured :
              secured = Secured(Client, Master(pre, chosen[Client], verified),
                                cert)
        OBVIOUS
    <1>6. PICK key : key = Key(secured, chosen[Client])
        OBVIOUS
    <1>7. PICK m : m = [type |-> "client_flight", cert |-> cert,
                        algorithm |-> IF cert = "none" THEN Sha1
                                      ELSE Signatures(f)[1],
                        signed |-> verified,
                        version |-> Lesser(client.settings.max, 3)]
        OBVIOUS
    <1>8. PICK fin : fin = Finished(secured, verified)
        OBVIOUS
    <1>9. /\ Answer(Client, <<Record(m, NoKey), Ccs, Record(fin, key)>>)
          /\ clientCert' = [clientCert EXCEPT ![Client] = cert]
          /\ pending' = [pending EXCEPT ![Client] = key]
          /\ writeKey' = [writeKey EXCEPT ![Client] = key]
        BY <1>1, <1>2, <1>3, <1>4, <1>5, <1>6, <1>7, <1>8
    <1>10. /\ clientCert'[Client] = cert
           /\ pending'[Client] = key /\ writeKey'[Client] = key
           /\ chosen'[Client] = chosen[Client] /\ at'[Client] = "wait_ccs"
           /\ at[Client] = "wait_flight"
           /\ Stays(Server)
        BY <1>0, <1>9, ReceivesFacts, EndsAssumption
        DEF Maps, Stays, KeepsKeys, KeepsTalk, Ends
    <1>11. /\ Negotiated
           /\ cert = Identity(meeting, chosen[Server].suite)
        BY <1>0, <1>2, ReceivesFacts, MeetingFacts
        DEF ServerRecord, SentCert, Identity
    <1>12. /\ key # NoKey
           /\ key.suite = chosen[Client].suite
           /\ key.version = chosen[Client].version
           /\ key.etm = chosen[Client].etm
           /\ key.master = secured.master
           /\ secured.suite = chosen[Client].suite
           /\ secured.master[1].round = round
           /\ chosen[Client].ems = (secured.master[2] # <<>>)
        <2>1. IsSeq(verified) /\ verified # <<>>
            BY <1>0, <1>3, ReceivesFacts, AppendFacts
        <2>2. pre.round = round
            BY <1>4 DEF ClientPremaster
        <2>3. chosen[Client].ems \in BOOLEAN
            BY <1>0, <1>10 DEF ClientSettled
        <2>4. MadeNow(Client, secured)
            BY <1>5, <2>1, <2>2, <2>3, FullKeyMade
        <2> QED
            BY <1>6, <2>4, KeyFacts DEF MadeNow
    <1>13. FullKey(Client)' /\ ~chosen[Client].resumed
        BY <1>0, <1>10, <1>12 DEF FullKey, Placed
    <1>14. InFull(Client)'
        BY <1>10, <1>12, <1>13 DEF InFull
    <1>15. /\ m.type = "client_flight" /\ m.cert = cert
           /\ fin.type = "finished"
           /\ fin.transcript # <<>>
           /\ fin.transcript[1] = Seen("client_hello")
        <2>1. hash[Client] # <<>> /\ hash[Client][1] = Seen("client_hello")
            BY <1>10 DEF Inv, ClientBegan
        <2>2. IsSeq(Hashed(Client)) /\ Hashed(Client) # <<>>
              /\ Hashed(Client)[1] = Seen("client_hello")
            BY <1>0, <2>1, ReceivesFacts
        <2>3. fin.transcript = verified
            BY <1>8 DEF Finished
        <2> QED
            BY <1>3, <1>7, <1>8, <2>2, <2>3, BeginsFacts DEF Finished
    <1>16. ClientRecord(m, NoKey)' /\ ClientRecord(fin, key)'
        BY <1>10, <1>12, <1>14, <1>15 DEF ClientRecord
    <1>17. Sends
        BY <1>0, <1>9, <1>16, RecordFacts, ThreeMessages, AnswerSends,
           MaySayAlert
        DEF MaySay, Inv
    <1>18. Verifies
        BY <1>0, <1>10, <1>11, <1>12, <1>13 DEF Verifies
    <1> QED
        BY <1>0, <1>10, <1>17, <1>18 DEF ClientStep, KeepsMemory

LEMMA RefuseFlightStep ==
    ASSUME Inv, RefuseFlight
    PROVE  ClientStep /\ Sends
    BY ErrorStep, EndTypes DEF RefuseFlight, Receives, EndStep, Early

LEMMA CannotVerifyStep ==
    ASSUME Inv, CannotVerify
    PROVE  ClientStep /\ Sends
    BY CrashStep, EndTypes DEF CannotVerify, Receives, EndStep, Early

LEMMA ReadTicketStep ==
    ASSUME Inv, ReadTicket
    PROVE  ClientStep /\ Sends
    <1>0. /\ Maps /\ Client \in Ends /\ ClientSettled
          /\ Receives(Client, "wait_ccs", "ticket")
          /\ UNCHANGED <<setup, round, at, writeKey, readKey, pending, session,
                         clientCert, known, cache, held>>
          /\ Answer(Client, <<>>)
        BY DEF ReadTicket, Inv, Shape, memory, keyVars
    <1>1. PICK t : t = <<Upcoming(Client).msg.ticket>>
        OBVIOUS
    <1>2. /\ chosen' = [chosen EXCEPT ![Client].ticket = t]
          /\ at[Client] = "wait_ccs"
          /\ t[1].secured \in known[Server]
        BY <1>0, <1>1, ReceivesFacts DEF ReadTicket, ServerRecord
    <1>3. PICK c : c = [chosen[Client] EXCEPT !.ticket = t]
        OBVIOUS
    <1>4. chosen'[Client] = c /\ chosen'[Server] = chosen[Server]
        BY <1>0, <1>2, <1>3, EndsAssumption DEF Maps, Ends
    <1>5. {"version", "suite", "id", "etm", "ems", "resumed", "ticket"}
             \subseteq DOMAIN chosen[Client]
        BY <1>0, <1>2 DEF ClientSettled, Late
    <1>6. /\ DOMAIN c = DOMAIN chosen[Client] /\ c.ticket = t
          /\ \A x \in {"version", "suite", "id", "etm", "ems", "resumed"} :
                c[x] = chosen[Client][x]
        BY <1>3, <1>5
    <1>7. TicketOk(c.ticket)' /\ IdOk(c.id)'
        <2>1. IdOk(chosen[Client].id)
            BY <1>0, <1>2 DEF ClientSettled, Late
        <2> QED
            BY <1>0, <1>2, <1>6, <2>1 DEF TicketOk, IdOk
    <1>8. TakesTicket
        BY <1>0, <1>2, <1>4, <1>5, <1>6, <1>7
        DEF TakesTicket, KeepsKeys, ClientSettled, IdOk, TicketOk
    <1>9. Sends
        BY <1>0, AnswerSends, EmptyFacts DEF Inv
    <1> QED
        BY <1>0, <1>4, <1>8, <1>9
        DEF ClientStep, Stays, KeepsKeys, KeepsTalk, KeepsMemory

\* An end that verified its peer's Finished concludes.
LEMMA FinishStep ==
    ASSUME Inv, NEW e \in Ends, NEW s, NEW records, NEW cached,
           Receives(e, "wait_finished", "finished"), FinishedRight(e),
           Finish(e, s, records, cached),
           {"secured", "resumable"} \subseteq DOMAIN s,
           IsSeq(records), \A r \in ToSet(records) : MaySay(e, r)
    PROVE  /\ Concludes(e, s.secured) /\ Stays(Peer(e)) /\ Sends
           /\ DOMAIN session'[e] = DOMAIN s
           /\ \A x \in DOMAIN s \ {"resumable"} : session'[e][x] = s[x]
           /\ session'[e].resumable = ~Rejects(e)
           /\ ~cached => cache' = cache
           /\ cached => cache' = [cache EXCEPT ![s.id] = session'[e]]
           /\ writeKey'[e] = pending[e] /\ pending[e] # NoKey
    <1>0. /\ Maps /\ Placed(e) /\ Peer(e) \in Ends /\ Peer(e) # e
          /\ (e = Client /\ Peer(e) = Server)
             \/ (e = Server /\ Peer(e) = Client)
        BY EndsAssumption DEF Inv, Shape, Peer, Ends
    <1>1. PICK after : after = Afterwards(e, s)
        OBVIOUS
    <1>2. PICK alert : alert = IF Rejects(e)
                               THEN <<Record([type |-> "alert"], pending[e])>>
                               ELSE <<>>
        OBVIOUS
    <1>3. /\ Answer(e, records \o alert)
          /\ session' = [session EXCEPT ![e] = after]
          /\ known' = [known EXCEPT ![e] = @ \cup {s.secured}]
          /\ cache' = IF cached THEN [cache EXCEPT ![s.id] = after] ELSE cache
          /\ at' = [at EXCEPT ![e] = IF Rejects(e) THEN "failed" ELSE "done"]
          /\ writeKey' = [writeKey EXCEPT ![e] = pending[e]]
          /\ UNCHANGED <<setup, round, readKey, pending, chosen, premaster,
                         clientCert, held>>
        BY <1>1, <1>2 DEF Finish
    <1>4. /\ DOMAIN after = DOMAIN s
          /\ \A x \in DOMAIN s \ {"resumable"} : after[x] = s[x]
          /\ after.resumable = ~Rejects(e)
        BY <1>1 DEF Afterwards
    <1>5. after # NoSession
        <2>1. "secured" \notin DOMAIN NoSession
            BY DEF NoSession
        <2> QED
            BY <1>4, <2>1
    <1>6. /\ session'[e] = after /\ writeKey'[e] = pending[e]
          /\ at'[e] \in {"done", "failed"}
        BY <1>0, <1>3 DEF Maps
    <1>7. /\ at[e] = "wait_finished" /\ pending[e] # NoKey
          /\ readKey[e] = pending[e]
        BY <1>0, ReceivesFacts DEF Placed, Late
    <1>8. readKey[e] = writeKey[Peer(e)]
        BY <1>0, ReceivesFacts DEF ClientRecord, ServerRecord
    <1>a. Unaltered
        <2>1. PICK m : m = Upcoming(e).msg
            OBVIOUS
        <2>2. m.type = "finished" /\ m.transcript = hash[e]
            BY <2>1 DEF FinishedRight
        <2>3. Seen("client_hello").intact
            BY DEF Seen
        <2>4. CASE e = Client
            <3>1. /\ hash[Server] # <<>> /\ m.transcript # <<>>
                  /\ m.transcript[1] = hash[Server][1]
                BY <2>1, <2>2, <2>4, ReceivesFacts DEF ServerRecord
            <3>2. hash[Client][1] = Seen("client_hello")
                BY <2>2, <2>4, <3>1 DEF Inv, ClientBegan
            <3> QED
                BY <2>2, <2>3, <2>4, <3>1, <3>2 DEF Unaltered
        <2>5. CASE e = Server
            <3>1. /\ m.transcript # <<>>
                  /\ m.transcript[1] = Seen("client_hello")
                BY <2>1, <2>2, <2>5, ReceivesFacts, EndsAssumption
                DEF ClientRecord
            <3> QED
                BY <2>2, <2>3, <2>5, <3>1 DEF Unaltered
        <2> QED
            BY <1>0, <2>4, <2>5
    <1>9. Concludes(e, s.secured)
        BY <1>0, <1>3, <1>4, <1>5, <1>6, <1>7, <1>8, <1>a
        DEF Concludes, KeepsTalk
    <1>10. Stays(Peer(e))
        BY <1>0, <1>3 DEF Maps, Stays, KeepsKeys, KeepsTalk
    <1>11. IsSeq(alert) /\ \A r \in ToSet(alert) : MaySay(e, r)
        BY <1>2, OneMessage, EmptyFacts, MaySayAlert
    <1>12. /\ IsSeq(records \o alert)
           /\ \A r \in ToSet(records \o alert) : MaySay(e, r)
        BY <1>11, ConcatFacts
    <1>13. Sends
        BY <1>3, <1>12, AnswerSends DEF Inv
    <1> QED
        BY <1>3, <1>4, <1>6, <1>7, <1>9, <1>10, <1>13

LEMMA ClientFinishesStep ==
    ASSUME Inv, ClientFinishes
    PROVE  ClientStep /\ Sends
    <1>0. /\ Maps /\ Client \in Ends /\ Peer(Client) = Server /\ Placed(Client)
          /\ ClientSettled
          /\ Receives(Client, "wait_finished", "finished")
          /\ FinishedRight(Client)
          /\ ~chosen[Client].resumed
        BY EndTypes DEF ClientFinishes, Inv, Shape
    <1>1. PICK s :
              s = [secured |-> Secured(Client, readKey[Client].master,
                                       clientCert[Client]),
                   id |-> chosen[Client].id, user |-> client.user,
                   ticket |-> chosen[Client].ticket, resumable |-> TRUE]
        OBVIOUS
    <1>2. Finish(Client, s, <<>>, FALSE)
        BY <1>1 DEF ClientFinishes
    <1>3. /\ at[Client] = "wait_finished"
          /\ readKey[Client] = pending[Client]
          /\ IdOk(chosen[Client].id) /\ TicketOk(chosen[Client].ticket)
        BY <1>0, ReceivesFacts DEF Placed, ClientSettled, Late
    <1>4. /\ DOMAIN s = {"secured", "id", "user", "ticket", "resumable"}
          /\ s.secured = FullSecured(Client)
          /\ s.id = chosen[Client].id /\ s.ticket = chosen[Client].ticket
        BY <1>1, <1>3 DEF FullSecured
    <1>5. /\ Concludes(Client, s.secured) /\ Stays(Server) /\ Sends
          /\ DOMAIN session'[Client] = DOMAIN s
          /\ \A x \in DOMAIN s \ {"resumable"} : session'[Client][x] = s[x]
          /\ session'[Client].resumable = ~Rejects(Client)
          /\ cache' = cache
        BY <1>0, <1>2, <1>4, FinishStep, EmptyFacts
    <1>6. ClientConcludes(FullSecured(Client))
        BY <1>0, <1>3, <1>4, <1>5, MeetingFacts DEF ClientConcludes, Rejects
    <1> QED
        BY <1>0, <1>5, <1>6 DEF ClientStep

LEMMA ClientResumesStep ==
    ASSUME Inv, ClientResumes
    PROVE  ClientStep /\ Sends
    <1>0. /\ Maps /\ Client \in Ends /\ Peer(Client) = Server /\ Placed(Client)
          /\ ClientKeyed /\ Memory
          /\ Receives(Client, "wait_finished", "finished")
          /\ FinishedRight(Client)
          /\ chosen[Client].resumed
        BY EndTypes DEF ClientResumes, Inv, Shape
    <1>1. PICK fin : fin = Finished(Offered.secured, Hashed(Client))
        OBVIOUS
    <1>2. PICK key : key = pending[Client]
        OBVIOUS
    <1>3. InResumption(Client)
        BY <1>0, ReceivesFacts DEF Placed, InResumption, Late
    <1>4. Offered = held /\ held # NoSession
        BY <1>0, <1>3 DEF ClientKeyed, Offers, Offered
    <1>5. PICK s : s = held
        OBVIOUS
    <1>6. /\ Finish(Client, s, <<Ccs, Record(fin, key)>>, FALSE)
        BY <1>1, <1>2, <1>4, <1>5 DEF ClientResumes
    <1>7. /\ {"secured", "id", "ticket", "resumable"} \subseteq DOMAIN s
          /\ IdOk(s.id) /\ TicketOk(s.ticket)
        BY <1>0, <1>4, <1>5 DEF Memory, ClientKept
    <1>8. ClientRecord(fin, key)'
        <2>1. fin.type = "finished"
            BY <1>1 DEF Finished
        <2>2. key # NoKey /\ writeKey'[Client] = key
            BY <1>0, <1>2, <1>3, <1>6 DEF InResumption, Finish, Maps
        <2>3. hash[Client] # <<>> /\ hash[Client][1] = Seen("client_hello")
            BY <1>0, ReceivesFacts DEF Inv, ClientBegan, Late
        <2>4. /\ fin.transcript # <<>>
              /\ fin.transcript[1] = Seen("client_hello")
            BY <1>0, <1>1, <2>3, ReceivesFacts DEF Finished
        <2> QED
            BY <2>1, <2>2, <2>4 DEF ClientRecord
    <1>9. /\ IsSeq(<<Ccs, Record(fin, key)>>)
          /\ \A r \in ToSet(<<Ccs, Record(fin, key)>>) : MaySay(Client, r)
        BY <1>8, TwoMessages, MaySayAlert, RecordFacts DEF MaySay
    <1>10. /\ Concludes(Client, s.secured) /\ Stays(Server) /\ Sends
           /\ DOMAIN session'[Client] = DOMAIN s
           /\ \A x \in DOMAIN s \ {"resumable"} : session'[Client][x] = s[x]
           /\ session'[Client].resumable = ~Rejects(Client)
           /\ cache' = cache
        BY <1>0, <1>6, <1>7, <1>9, FinishStep
    <1>11. ClientConcludes(held.secured)
        BY <1>0, <1>5, <1>7, <1>10, MeetingFacts DEF ClientConcludes, Rejects
    <1> QED
        BY <1>0, <1>10, <1>11 DEF ClientStep
-----------------------------------------------------------------------------
(***************************************************************************)
(* The server's steps.                                                     *)
(***************************************************************************)
LEMMA ServerCannotStartStep ==
    ASSUME Inv, ServerCannotStart
    PROVE  ServerStep /\ Sends
    BY FailStep, QuietSends, EndTypes, EndsAssumption
    DEF ServerCannotStart, netVars, Inv, EndStep, Early

\* A damaged ClientHello still has its ID, its ticket, its groups and some
\* version.
LEMMA HelloRead ==
    ASSUME Maps, NEW h \in HelloReadings,
           ClientRecord(Upcoming(Server).msg, Upcoming(Server).key),
           Upcoming(Server).msg.type = "client_hello"
    PROVE  /\ IdOk(h.id) /\ TicketOk(h.ticket)
           /\ h.asks.version \in Int /\ h.asks.groups = Asked.groups
           /\ Upcoming(Server).intact => h.asks = Asked
    <1> DEFINE m == Upcoming(Server).msg
    <1>1. /\ {"id", "ticket", "asks"} \subseteq DOMAIN m
          /\ IdOk(m.id) /\ TicketOk(m.ticket) /\ m.asks = Asked
        BY DEF ClientRecord
    <1>2. CASE Upcoming(Server).intact
        <2>1. h = m
            BY <1>2 DEF HelloReadings
        <2> QED
            BY <1>1, <2>1, AskedFacts
    <1>3. CASE ~Upcoming(Server).intact
        <2>1. \/ h = [m EXCEPT !.asks = [m.asks EXCEPT !.etm = FALSE]]
              \/ h = [m EXCEPT !.asks = [m.asks EXCEPT !.ems = FALSE]]
              \/ \E v \in 0..m.asks.version :
                    h = [m EXCEPT !.asks = [m.asks EXCEPT !.version = v,
                                                         !.versions = <<>>]]
              \/ \E x : h = [m EXCEPT !.asks = [m.asks EXCEPT !.suites = x]]
            BY <1>3 DEF HelloReadings
        <2> HIDE DEF m
        <2>2. \E a : /\ h = [m EXCEPT !.asks = a]
                     /\ \/ a = [Asked EXCEPT !.etm = FALSE]
                        \/ a = [Asked EXCEPT !.ems = FALSE]
                        \/ \E v \in 0..Asked.version :
                              a = [Asked EXCEPT !.version = v,
                                                !.versions = <<>>]
                        \/ \E x : a = [Asked EXCEPT !.suites = x]
            BY <1>1, <2>1
        <2>3. PICK a : /\ h = [m EXCEPT !.asks = a]
                       /\ \/ a = [Asked EXCEPT !.etm = FALSE]
                          \/ a = [Asked EXCEPT !.ems = FALSE]
                          \/ \E v \in 0..Asked.version :
                                a = [Asked EXCEPT !.version = v,
                                                  !.versions = <<>>]
                          \/ \E x : a = [Asked EXCEPT !.suites = x]
            BY <2>2
        <2>4. /\ {"version", "groups", "etm", "ems", "versions", "suites"}
                    \subseteq DOMAIN Asked
              /\ 0..Asked.version \subseteq Int /\ Asked.version \in Int
            BY AskedFacts
        <2>5. a.version \in Int /\ a.groups = Asked.groups
            BY <2>3, <2>4
        <2>6. h.id = m.id /\ h.ticket = m.ticket /\ h.asks = a
            BY <1>1, <2>3
        <2> QED
            BY <1>1, <1>3, <2>5, <2>6
    <1> QED
        BY <1>2, <1>3

\* The server's suites depend on the groups in the hello alone.
LEMMA SameTable ==
    ASSUME NEW h, h.groups = Asked.groups, NEW version
    PROVE  ServerSuites(server, h, version)
               = ServerSuites(server, Asked, version)
    <1>1. /\ EcUsable(server.settings, h) = EcUsable(server.settings, Asked)
          /\ FfUsable(server.settings, h) = FfUsable(server.settings, Asked)
        BY DEF EcUsable, FfUsable
    <1>2. ServerTable(server, h) = ServerTable(server, Asked)
        BY <1>1 DEF ServerTable
    <1> QED
        BY <1>2 DEF ServerSuites

LEMMA SelectedAllowed ==
    ASSUME NEW h, NEW version,
           NEW suite \in SelectedSuites(server, h, version)
    PROVE  suite \in ServerSuites(server, h, version)
    BY DEF SelectedSuites, FirstMatching, ServerSuites, ToSet

\* A session that the server finds is one it concluded on in an earlier
\* meeting.
LEMMA LookupFacts ==
    ASSUME Inv, at[Server] = "wait_hello", NEW h,
           IdOk(h.id), TicketOk(h.ticket), NEW s, s = Lookup(h), s.resumable
    PROVE  /\ {"secured", "id", "resumable"} \subseteq DOMAIN s
           /\ s.secured \in known[Server] /\ MadeIn(s.secured) < round
           /\ s.secured.ems \in BOOLEAN
           /\ IdOk(s.id)
           /\ h.ticket = <<>> => ServerKept(s)
    <1>0. /\ Maps /\ Known /\ Memory /\ session[Server] = NoSession
          /\ round \in Nat
        BY RoundType, EndTypes DEF Inv, Shape, Placed, Over
    <1>1. /\ {"secured", "id", "resumable"} \subseteq DOMAIN s
          /\ s.secured \in known[Server] /\ IdOk(s.id)
          /\ h.ticket = <<>> => ServerKept(s)
        <2>1. CASE Decrypts(h.ticket)
            <3>1. h.ticket # <<>>
                BY <2>1 DEF Decrypts
            <3>2. s = [secured |-> h.ticket[1].secured, id |-> h.id,
                       user |-> "none", ticket |-> <<>>, resumable |-> TRUE]
                BY <2>1 DEF Lookup, _ticket_to_session
            <3> QED
                BY <3>1, <3>2 DEF TicketOk
        <2>2. CASE ~Decrypts(h.ticket) /\ server.cache /\ h.id > 0
                   /\ h.ticket = <<>>
            <3>1. s = cache[h.id]
                BY <2>2 DEF Lookup
            <3>2. DOMAIN cache = 1..Len(setup.rounds)
                <4>1. setup.rounds \in Seq(Rounds)
                    BY <1>0, SetupsAssumption DEF Maps
                <4> QED
                    BY <1>0, <4>1, LenProperties DEF Maps
            <3>3. h.id \in DOMAIN cache
                BY <1>0, <2>2, <3>2 DEF IdOk, Maps
            <3>4. s # NoSession
                BY DEF NoSession
            <3>5. ServerKept(s)
                BY <1>0, <3>1, <3>3, <3>4 DEF Memory
            <3> QED
                BY <3>5 DEF ServerKept
        <2>3. CASE s = NoSession
            BY <2>3 DEF NoSession
        <2> QED
            BY <2>1, <2>2, <2>3 DEF Lookup
    <1>2. MadeIn(s.secured) \in 1..round /\ MadeIn(s.secured) # round
        BY <1>0, <1>1 DEF Known
    <1>3. s.secured.ems \in BOOLEAN
        BY <1>0, <1>1 DEF Known
    <1> QED
        BY <1>0, <1>1, <1>2, <1>3

\* What a decision for a version takes from the hello and the settings.
Decides(h, version, d) ==
    \/ d.result \in {"alert", "exception"}
    \/ LET found == Lookup(h)
       IN  /\ d.result = "resume" /\ Considers(h, version)
           /\ d.version = version /\ d.id = found.id
           /\ d.etm = found.secured.etm /\ d.ems = found.secured.ems
    \/ /\ d.result = "full"
       /\ d.version = version /\ d.id \in {0, round} /\ d.ems \in BOOLEAN
       /\ d.suite \in ServerSuites(server, h.asks, version) /\ EtmFits(d)
    \/ /\ d.result = "tls13"
       /\ d.version = version /\ d.id = h.id /\ d.ems = FALSE

LEMMA FullDecisionFacts ==
    ASSUME NEW h, NEW version,
           NEW suite \in SelectedSuites(server, h.asks, version)
    PROVE  Decides(h, version, FullDecision(h, version, suite))
    <1> DEFINE s == server.settings
               groups == KeyExchangeGroups(s, h.asks, suite)
               algorithm ==
                 IF Signs(suite)
                 THEN Head(ServerAlgorithms(s, server.cert, h.asks, version))
                 ELSE Sha1
               ems == s.ems # "none" /\ h.asks.ems
               etm == NegotiatesEtm(s, h.asks, suite)
               a == [result |-> "tls13", version |-> version, suite |-> suite,
                     id |-> h.id, etm |-> FALSE, ems |-> FALSE,
                     sentinel |-> "none"]
               b == [result |-> "full", version |-> version, suite |-> suite,
                     id |-> IF server.cache THEN round ELSE 0,
                     etm |-> etm, ems |-> ems,
                     sentinel |-> Sentinel(s, version),
                     group |-> Head(groups), algorithm |-> algorithm]
    <1>1. FullDecision(h, version, suite) \in {Alert, Exception, a, b}
        BY DEF FullDecision
    <1>2. /\ a.result = "tls13" /\ b.result = "full"
          /\ a.id = h.id /\ a.ems = FALSE /\ a.version = version
          /\ b.id \in {0, round} /\ b.ems = ems /\ b.version = version
          /\ b.suite = suite /\ b.etm = etm
          /\ Alert.result = "alert" /\ Exception.result = "exception"
        BY DEF Alert, Exception
    <1>3. ems \in BOOLEAN
        OBVIOUS
    <1>4. etm => suite \notin streamSuites \cup aeadSuites
        BY DEF NegotiatesEtm
    <1>5. suite \in ServerSuites(server, h.asks, version)
        BY SelectedAllowed
    <1> HIDE DEF a, b, ems, etm
    <1>6. EtmFits(b)
        BY <1>2, <1>4 DEF EtmFits
    <1> QED
        BY <1>1, <1>2, <1>3, <1>5, <1>6 DEF Decides

LEMMA VersionDecisionFacts ==
    ASSUME NEW h, NEW version, NEW d \in VersionDecisions(h, version)
    PROVE  Decides(h, version, d)
    <1> DEFINE found == Lookup(h)
               secured == found.secured
               r == [result |-> "resume", version |-> version,
                     suite |-> secured.suite, id |-> found.id,
                     etm |-> secured.etm, ems |-> secured.ems,
                     sentinel |-> "none"]
    <1>1. \/ d = Alert
          \/ Considers(h, version) /\ d = r
          \/ \E suite \in SelectedSuites(server, h.asks, version) :
                d = FullDecision(h, version, suite)
        BY DEF VersionDecisions, FullDecisions
    <1>2. /\ r.result = "resume" /\ r.id = found.id /\ r.ems = secured.ems
          /\ r.etm = secured.etm /\ r.version = version
        OBVIOUS
    <1>3. Alert.result = "alert"
        BY DEF Alert
    <1> HIDE DEF r
    <1>4. CASE d = Alert
        BY <1>3, <1>4 DEF Decides
    <1>5. CASE Considers(h, version) /\ d = r
        BY <1>2, <1>5 DEF Decides
    <1>6. CASE \E suite \in SelectedSuites(server, h.asks, version) :
                  d = FullDecision(h, version, suite)
        BY <1>6, FullDecisionFacts
    <1> QED
        BY <1>1, <1>4, <1>5, <1>6

LEMMA DecisionFacts ==
    ASSUME NEW h, NEW d \in Decisions(h)
    PROVE  \/ d.result = "alert"
           \/ \E version \in ServerVersions(server.settings, h.asks) :
                 Decides(h, version, d)
    <1>1. \/ d = Alert
          \/ \E version \in ServerVersions(server.settings, h.asks) :
                d \in VersionDecisions(h, version)
        BY DEF Decisions
    <1> QED
        BY <1>1, VersionDecisionFacts DEF Alert

\* What the server takes from a hello that it answers.
Settles(version) ==
    /\ version \in Int
    /\ Upcoming(Server).intact =>
          version \in ServerVersions(server.settings, Asked)

LEMMA FitsFromTable ==
    ASSUME NEW h, h.groups = Asked.groups, NEW version \in Int,
           NEW suite \in ServerSuites(server, h, version)
    PROVE  ServerFits(suite, version)
    <1>1. suite \in ServerSuites(server, Asked, version)
        BY SameTable
    <1> QED
        BY <1>1 DEF ServerFits, ServerSuites, ServerAllows

\* The transcript of a server that answers begins with what it read.
LEMMA AnsweredBegins ==
    ASSUME Inv, Receives(Server, "wait_hello", "client_hello"),
           UNCHANGED <<setup, round>>, at'[Server] # "wait_hello",
           NEW version, Settles(version), chosen'[Server].version = version,
           hash'[Server] # <<>>, hash'[Server][1] = Hashed(Server)[1]
    PROVE  ServerBegan'
    <1>1. at[Server] = "wait_hello"
        BY ReceivesFacts, EndTypes
    <1>2. hash[Server] = <<>>
        BY <1>1 DEF Inv, ServerBegan
    <1>3. Hashed(Server)[1].intact = Upcoming(Server).intact
        BY <1>2, ReceivesFacts, EndTypes
    <1>4. server' = server /\ Asked' = Asked
        BY AskedStays
    <1>5. hash'[Server][1].intact =>
              version \in ServerVersions(server.settings, Asked)
        BY <1>3 DEF Settles
    <1> QED
        BY <1>4, <1>5 DEF ServerBegan

LEMMA ResumeStep ==
    ASSUME Inv, Receives(Server, "wait_hello", "client_hello"),
           NEW h, IdOk(h.id), TicketOk(h.ticket),
           NEW d, Lookup(h).resumable, d.id = Lookup(h).id,
           d.ems = Lookup(h).secured.ems, d.etm = Lookup(h).secured.etm,
           Settles(d.version),
           ServerFits(Lookup(h).secured.suite, d.version), Resume(h, d)
    PROVE  ServerStep /\ Sends
    <1>0. /\ Maps /\ Placed(Server) /\ Server \in Ends
          /\ UNCHANGED <<setup, round, readKey, clientCert, session, known,
                         cache>>
          /\ at' = [at EXCEPT ![Server] = "wait_ccs"]
          /\ at[Server] = "wait_hello"
        BY ReceivesFacts DEF Resume, Inv, Shape, memory
    <1>1. PICK s : s = Lookup(h)
        OBVIOUS
    <1>2. PICK answered : answered = Append(Hashed(Server),
                                            Seen("server_hello"))
        OBVIOUS
    <1>3. PICK key : key = Key(s.secured, d)
        OBVIOUS
    <1>4. PICK sh : sh = ServerHello(d)
        OBVIOUS
    <1>5. PICK fin : fin = Finished(s.secured, answered)
        OBVIOUS
    <1>6. PICK c : c = [version |-> d.version, resumed |-> TRUE,
                        cached |-> h.ticket = <<>>, session |-> s]
        OBVIOUS
    <1>7. /\ Answer(Server, <<Record(sh, NoKey), Ccs, Record(fin, key)>>)
          /\ chosen' = [chosen EXCEPT ![Server] = c]
          /\ pending' = [pending EXCEPT ![Server] = key]
          /\ writeKey' = [writeKey EXCEPT ![Server] = key]
        BY <1>1, <1>2, <1>3, <1>4, <1>5, <1>6 DEF Resume
    <1>8. /\ {"secured", "id", "resumable"} \subseteq DOMAIN s
          /\ s.resumable
          /\ s.secured \in known[Server] /\ MadeIn(s.secured) < round
          /\ s.secured.ems \in BOOLEAN
          /\ IdOk(s.id)
          /\ h.ticket = <<>> => ServerKept(s)
        BY <1>0, <1>1, LookupFacts
    <1>9. /\ chosen'[Server] = c /\ pending'[Server] = key
          /\ writeKey'[Server] = key /\ at'[Server] = "wait_ccs"
          /\ Stays(Client)
        BY <1>0, <1>7, EndsAssumption
        DEF Maps, Stays, KeepsKeys, KeepsTalk, Ends
    <1>10. /\ key # NoKey /\ key.master = s.secured.master
           /\ key.version = d.version
           /\ key.suite = s.secured.suite /\ key.etm = s.secured.etm
        BY <1>1, <1>3, KeyFacts
    <1>11. /\ c.resumed = TRUE /\ c.version = d.version /\ c.session = s
           /\ c.cached <=> h.ticket = <<>>
        BY <1>6
    <1>12. ResumedKey(Server, chosen[Server].session.secured)'
        BY <1>9, <1>10, <1>11 DEF ResumedKey
    <1>13. ServerKept(s)' <=> ServerKept(s)
        BY <1>0 DEF ServerKept, IdOk, Origin
    <1>14. ServerSettled'
        BY <1>0, <1>8, <1>9, <1>11, <1>13
        DEF ServerSettled, InFull, InResumption, MadeIn
    <1>a. ServerSuited'
        <2>1. server' = server /\ Asked' = Asked
            BY <1>0, AskedStays
        <2>2. ServerFits(s.secured.suite, d.version)'
            BY <1>1, <2>1 DEF ServerFits
        <2> QED
            BY <1>9, <1>10, <1>11, <2>2
            DEF ServerSuited, InFull, InResumption
    <1>b. /\ answered # <<>>
          /\ hash'[Server] # <<>> /\ hash'[Server][1] = answered[1]
          /\ hash'[Server][1] = Hashed(Server)[1]
        <2>1. IsSeq(Hashed(Server)) /\ Hashed(Server) # <<>>
            BY <1>0, ReceivesFacts
        <2>2. /\ IsSeq(answered) /\ answered # <<>>
              /\ answered[1] = Hashed(Server)[1]
            BY <1>2, <2>1, AppendFacts, BeginsFacts
        <2>3. hash'[Server] = Append(answered, Seen("finished"))
            BY <1>0, <1>2 DEF Resume, Maps
        <2>4. \A x : /\ Append(answered, x) # <<>>
                     /\ Append(answered, x)[1] = answered[1]
            BY <2>2, BeginsFacts
        <2> QED
            BY <2>2, <2>3, <2>4
    <1>c. ServerBegan'
        BY <1>0, <1>9, <1>11, <1>b, AnsweredBegins
    <1>15. TakesSession
        BY <1>0, <1>9, <1>10, <1>11, <1>12, <1>14, <1>a, <1>c DEF TakesSession
    <1>16. /\ sh.type = "server_hello"
           /\ {"version", "suite", "id", "etm", "ems"} \subseteq DOMAIN sh
           /\ IdOk(sh.id) /\ sh.ems \in BOOLEAN /\ sh.version \in Int
        <2>1. /\ sh.id = s.id /\ sh.ems = s.secured.ems
              /\ sh.version = d.version
            BY <1>1, <1>4 DEF ServerHello
        <2> QED
            BY <1>4, <1>8, <2>1 DEF ServerHello, Settles
    <1>17. fin.type = "finished" /\ fin.transcript = answered
        BY <1>5 DEF Finished
    <1>18. ServerRecord(sh, NoKey)' /\ ServerRecord(fin, key)'
        BY <1>0, <1>9, <1>10, <1>16, <1>17, <1>b DEF ServerRecord, IdOk
    <1>19. /\ MaySay(Server, Record(sh, NoKey)) /\ MaySay(Server, Ccs)
           /\ MaySay(Server, Record(fin, key))
        <2>1. MaySay(Server, Ccs)
            BY MaySayAlert
        <2> QED
            BY <1>18, <2>1, RecordFacts, EndsAssumption DEF MaySay
    <1>20. Sends
        BY <1>0, <1>7, <1>19, ThreeMessages, AnswerSends DEF Inv
    <1> QED
        BY <1>0, <1>9, <1>15, <1>20 DEF ServerStep, KeepsMemory

LEMMA NegotiateFullStep ==
    ASSUME Inv, Receives(Server, "wait_hello", "client_hello"),
           NEW h, NEW d, d.id \in {0, round}, d.ems \in BOOLEAN,
           Settles(d.version), ServerFits(d.suite, d.version), EtmFits(d),
           NegotiateFull(h, d)
    PROVE  ServerStep /\ Sends
    <1>0. /\ Maps /\ Placed(Server) /\ Server \in Ends /\ round \in Nat
          /\ UNCHANGED <<setup, round, writeKey, readKey, pending, clientCert,
                         session, known, cache>>
          /\ at' = [at EXCEPT ![Server] = "wait_flight"]
          /\ at[Server] = "wait_hello"
        BY ReceivesFacts, RoundType
        DEF NegotiateFull, Inv, Shape, memory, keyVars
    <1>1. PICK sh : sh = ServerHello(d)
        OBVIOUS
    <1>2. PICK f : f = ServerFlight(d)
        OBVIOUS
    <1>3. PICK c : c = [version |-> d.version, suite |-> d.suite, id |-> d.id,
                        etm |-> d.etm, ems |-> d.ems, resumed |-> FALSE,
                        cached |-> server.cache, user |-> h.user,
                        hello |-> h.asks.version,
                        newTicket |-> /\ h.extended /\ h.ticket = <<>>
                                      /\ server.tickets
                                      /\ server.ticketKeys # <<>>]
        OBVIOUS
    <1>4. /\ Answer(Server, <<Record(sh, NoKey), Record(f, NoKey)>>)
          /\ chosen' = [chosen EXCEPT ![Server] = c]
        BY <1>1, <1>2, <1>3 DEF NegotiateFull
    <1>5. /\ chosen'[Server] = c /\ at'[Server] = "wait_flight"
          /\ Stays(Client)
          /\ KeepsKeys(Server) /\ session'[Server] = session[Server]
        BY <1>0, <1>4, EndsAssumption
        DEF Maps, Stays, KeepsKeys, KeepsTalk, Ends
    <1>6. /\ c.resumed = FALSE
          /\ c.ems = d.ems /\ c.id = d.id /\ c.suite = d.suite
          /\ c.etm = d.etm /\ c.version = d.version
        BY <1>3
    <1>7. pending'[Server] = NoKey
        BY <1>0 DEF Placed, Early
    <1>8. IdOk(d.id)' /\ IdOk(d.id)
        BY <1>0 DEF IdOk
    <1>a. ServerSuited'
        <2>1. server' = server /\ Asked' = Asked
            BY <1>0, AskedStays
        <2>2. ServerFits(d.suite, d.version)'
            BY <2>1 DEF ServerFits
        <2> QED
            BY <1>5, <1>6, <1>7, <2>2
            DEF ServerSuited, EtmFits, InFull, InResumption
    <1>b. ServerBegan'
        <2>1. IsSeq(Hashed(Server)) /\ Hashed(Server) # <<>>
            BY <1>0, ReceivesFacts
        <2>2. PICK said :
                  said = <<Seen("server_hello"), Seen("server_flight")>>
            OBVIOUS
        <2>3. IsSeq(said)
            BY <2>2, TwoMessages
        <2>4. hash'[Server] = Hashed(Server) \o said
            BY <1>0, <2>2 DEF NegotiateFull, Maps
        <2>5. hash'[Server] # <<>> /\ hash'[Server][1] = Hashed(Server)[1]
            BY <2>1, <2>3, <2>4, BeginsFacts
        <2> QED
            BY <1>0, <1>5, <1>6, <2>5, AnsweredBegins
    <1>9. Negotiates
        BY <1>0, <1>5, <1>6, <1>7, <1>8, <1>a, <1>b
        DEF Negotiates, ServerSettled, InFull, InResumption
    <1>10. /\ sh.type = "server_hello"
           /\ {"version", "suite", "id", "etm", "ems"} \subseteq DOMAIN sh
           /\ sh.id = d.id /\ sh.ems = d.ems /\ sh.version \in Int
        BY <1>1 DEF ServerHello, Settles
    <1>11. /\ f.type = "server_flight"
           /\ f.request <=> Asks(meeting, d.suite)
        BY <1>0, <1>2, MeetingFacts DEF ServerFlight, Asks
    <1>12. ServerRecord(sh, NoKey)'
        BY <1>8, <1>10 DEF ServerRecord
    <1>13. ServerRecord(f, NoKey)'
        BY <1>0, <1>5, <1>6, <1>11 DEF ServerRecord, Negotiated, meeting
    <1>14. Sends
        BY <1>0, <1>4, <1>12, <1>13, RecordFacts, TwoMessages, AnswerSends,
           EndsAssumption
        DEF MaySay, Inv
    <1> QED
        BY <1>0, <1>5, <1>9, <1>14 DEF ServerStep, KeepsMemory

LEMMA NegotiateTls13Step ==
    ASSUME Inv, Receives(Server, "wait_hello", "client_hello"),
           NEW d, d.result = "tls13", NegotiateTls13(d),
           IdOk(d.id), d.ems \in BOOLEAN, Settles(d.version)
    PROVE  ServerStep /\ Sends
    <1>1. Stops(Server) /\ Stays(Client) /\ KeepsMemory
        BY EndsAssumption
        DEF NegotiateTls13, Inv, Shape, Maps, Receives, keyVars, talkVars,
            memory, Stops, Stays, KeepsKeys, KeepsTalk, KeepsMemory, Early,
            Ends
    <1>2. PICK sh : sh = ServerHello(d)
        OBVIOUS
    <1>3. /\ sh.type = "server_hello"
          /\ {"version", "suite", "id", "etm", "ems"} \subseteq DOMAIN sh
          /\ sh.id = d.id /\ sh.ems = d.ems /\ sh.version \in Int
        BY <1>2 DEF ServerHello, Settles
    <1>4. ServerRecord(sh, NoKey)'
        BY <1>3 DEF ServerRecord, IdOk, NegotiateTls13
    <1>5. Sends
        BY <1>2, <1>4, RecordFacts, OneMessage, AnswerSends, EndTypes,
           EndsAssumption
        DEF MaySay, Inv, NegotiateTls13
    <1> QED
        BY <1>1, <1>5 DEF ServerStep

LEMMA ReadClientHelloStep ==
    ASSUME Inv, ReadClientHello
    PROVE  ServerStep /\ Sends
    <1>1. Receives(Server, "wait_hello", "client_hello") /\ Maps
        BY DEF ReadClientHello, Inv, Shape
    <1>a. PICK h \in HelloReadings : \E d \in Decisions(h) :
             \/ d.result = "alert" /\ SendError(Server)
             \/ d.result = "exception" /\ Crash(Server)
             \/ d.result = "resume" /\ Resume(h, d)
             \/ d.result = "full" /\ NegotiateFull(h, d)
             \/ d.result = "tls13" /\ NegotiateTls13(d)
        BY DEF ReadClientHello
    <1>2. PICK d \in Decisions(h) :
             \/ d.result = "alert" /\ SendError(Server)
             \/ d.result = "exception" /\ Crash(Server)
             \/ d.result = "resume" /\ Resume(h, d)
             \/ d.result = "full" /\ NegotiateFull(h, d)
             \/ d.result = "tls13" /\ NegotiateTls13(d)
        BY <1>a
    <1>3. /\ at[Server] = "wait_hello"
          /\ ClientRecord(Upcoming(Server).msg, Upcoming(Server).key)
          /\ Upcoming(Server).msg.type = "client_hello"
        BY <1>1, EndTypes, ReceivesFacts
    <1>4. /\ IdOk(h.id) /\ TicketOk(h.ticket)
          /\ h.asks.version \in Int /\ h.asks.groups = Asked.groups
          /\ Upcoming(Server).intact => h.asks = Asked
        BY <1>1, <1>3, HelloRead
    <1>5. CASE SendError(Server)
        BY <1>3, <1>5, ErrorStep, EndTypes, EndsAssumption DEF EndStep, Early
    <1>6. CASE Crash(Server)
        BY <1>3, <1>6, CrashStep, EndTypes, EndsAssumption DEF EndStep, Early
    <1>7. CASE ~SendError(Server) /\ ~Crash(Server)
        <2>1. PICK version \in ServerVersions(server.settings, h.asks) :
                 Decides(h, version, d)
            BY <1>2, <1>7, DecisionFacts
        <2>2. version \in Int
            BY <1>1, <1>4, <2>1, VersionIsInt
        <2>3. Settles(version)
            BY <1>4, <2>1, <2>2 DEF Settles
        <2>4. CASE d.result = "resume" /\ Resume(h, d)
            <3>1. /\ Considers(h, version)
                  /\ d.version = version /\ d.id = Lookup(h).id
                  /\ d.etm = Lookup(h).secured.etm
                  /\ d.ems = Lookup(h).secured.ems
                BY <2>1, <2>4 DEF Decides
            <3>2. /\ Lookup(h).resumable
                  /\ ServerFits(Lookup(h).secured.suite, version)
                BY <1>4, <2>2, <3>1, FitsFromTable DEF Considers
            <3> QED
                BY <1>1, <1>4, <2>3, <2>4, <3>1, <3>2, ResumeStep
        <2>5. CASE d.result = "full" /\ NegotiateFull(h, d)
            <3>1. /\ d.version = version /\ d.id \in {0, round}
                  /\ d.ems \in BOOLEAN /\ EtmFits(d)
                  /\ d.suite \in ServerSuites(server, h.asks, version)
                BY <2>1, <2>5 DEF Decides
            <3>2. ServerFits(d.suite, version)
                BY <1>4, <2>2, <3>1, FitsFromTable
            <3> QED
                BY <1>1, <2>3, <2>5, <3>1, <3>2, NegotiateFullStep
        <2>6. CASE d.result = "tls13" /\ NegotiateTls13(d)
            <3>1. d.version = version /\ d.id = h.id /\ d.ems \in BOOLEAN
                BY <2>1, <2>6 DEF Decides
            <3> QED
                BY <1>1, <1>4, <2>3, <2>6, <3>1, NegotiateTls13Step
        <2> QED
            BY <1>2, <1>7, <2>4, <2>5, <2>6
    <1> QED
        BY <1>5, <1>6, <1>7

LEMMA ReadClientFlightStep ==
    ASSUME Inv, ReadClientFlight
    PROVE  ServerStep /\ Sends
    <1>0. /\ Maps /\ Placed(Server) /\ Server \in Ends /\ ServerSettled
          /\ Receives(Server, "wait_flight", "client_flight")
          /\ UNCHANGED <<setup, round, writeKey, readKey, chosen, session,
                         known, cache>>
          /\ at' = [at EXCEPT ![Server] = "wait_ccs"]
          /\ Answer(Server, <<>>)
        BY DEF ReadClientFlight, Inv, Shape, memory
    <1> DEFINE f == Upcoming(Server).msg
    <1>1. PICK shared \in {TRUE, Upcoming(Server).intact} :
              LET pre == ServerPremaster(f, shared)
                  master == Master(pre, chosen[Server], Hashed(Server))
              IN  /\ clientCert' = [clientCert EXCEPT ![Server] = f.cert]
                  /\ pending' = [pending EXCEPT ![Server] =
                                    Key(Secured(Server, master, f.cert),
                                        chosen[Server])]
        BY DEF ReadClientFlight
    <1>2. PICK pre : pre = ServerPremaster(f, shared)
        OBVIOUS
    <1>3. PICK secured :
              secured = Secured(Server,
                                Master(pre, chosen[Server], Hashed(Server)),
                                f.cert)
        OBVIOUS
    <1>4. PICK key : key = Key(secured, chosen[Server])
        OBVIOUS
    <1>5. /\ clientCert' = [clientCert EXCEPT ![Server] = f.cert]
          /\ pending' = [pending EXCEPT ![Server] = key]
        BY <1>1, <1>2, <1>3, <1>4
    <1>6. /\ clientCert'[Server] = f.cert
          /\ pending'[Server] = key
          /\ chosen'[Server] = chosen[Server] /\ at'[Server] = "wait_ccs"
          /\ at[Server] = "wait_flight"
          /\ Stays(Client)
        BY <1>0, <1>5, ReceivesFacts, EndsAssumption
        DEF Maps, Stays, KeepsKeys, KeepsTalk, Ends
    <1>7. InFull(Client) /\ f.cert = clientCert[Client]
        BY <1>0, ReceivesFacts DEF ClientRecord
    <1>8. /\ key # NoKey
          /\ key.suite = chosen[Server].suite
          /\ key.version = chosen[Server].version
          /\ key.etm = chosen[Server].etm
          /\ key.master[1].round = round
          /\ chosen[Server].ems = (key.master[2] # <<>>)
        <2>1. IsSeq(Hashed(Server)) /\ Hashed(Server) # <<>>
            BY <1>0, ReceivesFacts
        <2>2. pre.round = round
            BY <1>2 DEF ServerPremaster
        <2>3. chosen[Server].ems \in BOOLEAN
            BY <1>0, <1>6 DEF ServerSettled
        <2>4. MadeNow(Server, secured)
            BY <1>3, <2>1, <2>2, <2>3, FullKeyMade
        <2> QED
            BY <1>4, <2>4, KeyFacts DEF MadeNow
    <1>9. FullKey(Server)'
        BY <1>0, <1>6, <1>8 DEF FullKey
    <1>10. HearsClient
        BY <1>0, <1>6, <1>7, <1>8, <1>9 DEF HearsClient
    <1>11. Sends
        BY <1>0, AnswerSends, EmptyFacts DEF Inv
    <1> QED
        BY <1>0, <1>6, <1>10, <1>11 DEF ServerStep, KeepsMemory

LEMMA RefuseClientFlightStep ==
    ASSUME Inv, RefuseClientFlight
    PROVE  ServerStep /\ Sends
    BY ErrorStep, EndTypes, EndsAssumption
    DEF RefuseClientFlight, Receives, EndStep, Early

\* What the server concludes with may be cached.
LEMMA ServerConcluded ==
    ASSUME Inv, NEW s, Concludes(Server, s.secured), Stays(Client),
           {"secured", "resumable"} \subseteq DOMAIN s,
           DOMAIN session'[Server] = DOMAIN s,
           \A x \in DOMAIN s \ {"resumable"} : session'[Server][x] = s[x],
           session'[Server].resumable = ~Rejects(Server),
           ~chosen[Server].cached => cache' = cache,
           chosen[Server].cached =>
               /\ cache' = [cache EXCEPT ![s.id] = session'[Server]]
               /\ "id" \in DOMAIN s /\ IdOk(s.id)
    PROVE  ServerConcludes(s.secured)
    <1>1. session'[Server].resumable => ~meeting.server.rejects
        BY MeetingFacts, EndsAssumption DEF Inv, Shape, Rejects
    <1>2. /\ DOMAIN cache' = DOMAIN cache
          /\ \A i \in DOMAIN cache :
                \/ cache'[i] = cache[i]
                \/ /\ chosen[Server].cached
                   /\ cache'[i] = session'[Server]
        OBVIOUS
    <1> QED
        BY <1>1, <1>2 DEF ServerConcludes

LEMMA ServerResumesStep ==
    ASSUME Inv, ServerResumes
    PROVE  ServerStep /\ Sends
    <1>0. /\ Maps /\ Server \in Ends /\ Peer(Server) = Client /\ Placed(Server)
          /\ ServerSettled
          /\ Receives(Server, "wait_finished", "finished")
          /\ FinishedRight(Server)
          /\ chosen[Server].resumed
        BY EndTypes DEF ServerResumes, Inv, Shape
    <1>1. PICK s : s = chosen[Server].session
        OBVIOUS
    <1>2. PICK cached : cached = chosen[Server].cached
        OBVIOUS
    <1>3. Finish(Server, s, <<>>, cached)
        BY <1>1, <1>2 DEF ServerResumes
    <1>4. InResumption(Server)
        BY <1>0, ReceivesFacts DEF Placed, InResumption, Late
    <1>5. /\ {"secured", "resumable"} \subseteq DOMAIN s
          /\ cached => "id" \in DOMAIN s /\ IdOk(s.id)
        BY <1>0, <1>1, <1>2, <1>4 DEF ServerSettled, ServerKept
    <1>6. /\ Concludes(Server, s.secured) /\ Stays(Client) /\ Sends
          /\ DOMAIN session'[Server] = DOMAIN s
          /\ \A x \in DOMAIN s \ {"resumable"} : session'[Server][x] = s[x]
          /\ session'[Server].resumable = ~Rejects(Server)
          /\ ~cached => cache' = cache
          /\ cached => cache' = [cache EXCEPT ![s.id] = session'[Server]]
        BY <1>0, <1>3, <1>5, FinishStep, EmptyFacts
    <1>7. ServerConcludes(s.secured)
        BY <1>2, <1>5, <1>6, ServerConcluded
    <1> QED
        BY <1>0, <1>1, <1>6, <1>7 DEF ServerStep

LEMMA TicketsSeen ==
    ASSUME NEW secured, NEW tickets, tickets = NewTickets(secured), NEW seen,
           seen = [i \in DOMAIN tickets |-> Seen("ticket")]
    PROVE  IsSeq(seen)
    <1>1. tickets = <<>> \/ \E t : tickets = <<t>>
        BY DEF NewTickets
    <1>2. seen = <<>> \/ seen = <<Seen("ticket")>>
        BY <1>1
    <1> QED
        BY <1>2, EmptyFacts, OneMessage

LEMMA ServerFinishesStep ==
    ASSUME Inv, ServerFinishes
    PROVE  ServerStep /\ Sends
    <1>0. /\ Maps /\ Server \in Ends /\ Peer(Server) = Client /\ Placed(Server)
          /\ Keyed(Server) /\ ServerKeyed /\ ServerSettled
          /\ Receives(Server, "wait_finished", "finished")
          /\ FinishedRight(Server)
          /\ ~chosen[Server].resumed
        BY EndTypes DEF ServerFinishes, Inv, Shape
    <1>1. PICK secured :
              secured = Secured(Server, readKey[Server].master,
                                clientCert[Server])
        OBVIOUS
    <1>2. PICK tickets : tickets = NewTickets(secured)
        OBVIOUS
    <1>3. PICK s :
              s = [secured |-> secured, id |-> chosen[Server].id,
                   user |-> chosen[Server].user, ticket |-> <<>>,
                   resumable |-> TRUE]
        OBVIOUS
    <1>4. PICK fin :
              fin = Finished(secured, Hashed(Server)
                                      \o [i \in DOMAIN tickets |->
                                             Seen("ticket")])
        OBVIOUS
    <1>5. PICK key : key = pending[Server]
        OBVIOUS
    <1>6. PICK cached : cached = chosen[Server].cached
        OBVIOUS
    <1>7. PICK sent :
              sent = [i \in DOMAIN tickets |-> Record(tickets[i], NoKey)]
        OBVIOUS
    <1>8. Finish(Server, s, sent \o <<Ccs, Record(fin, key)>>, cached)
        BY <1>1, <1>2, <1>3, <1>4, <1>5, <1>6, <1>7 DEF ServerFinishes
    <1>9. /\ readKey[Server] = key /\ key # NoKey /\ InFull(Server)
          /\ secured = FullSecured(Server)
          /\ IdOk(chosen[Server].id)
        BY <1>0, <1>1, <1>5, ReceivesFacts
        DEF Placed, InFull, FullSecured, ServerSettled, Late
    <1>10. /\ DOMAIN s = {"secured", "id", "user", "ticket", "resumable"}
           /\ s.secured = secured /\ s.id = chosen[Server].id
        BY <1>3
    <1>11. /\ known'[Server] = known[Server] \cup {s.secured}
           /\ writeKey'[Server] = key
        BY <1>0, <1>5, <1>8 DEF Finish, Maps
    <1>12. /\ IsSeq(sent)
           /\ \A r \in ToSet(sent) : MaySay(Server, r)
        <2>1. CASE chosen[Server].newTicket
            <3>1. PICK t : t = [type |-> "ticket",
                                ticket |-> [key |-> Head(server.ticketKeys),
                                            secured |-> secured]]
                OBVIOUS
            <3>2. tickets = <<t>> /\ sent = <<Record(t, NoKey)>>
                <4>1. tickets = <<t>>
                    BY <1>2, <2>1, <3>1 DEF NewTickets
                <4> QED
                    BY <1>7, <4>1
            <3>3. t.type = "ticket" /\ t.ticket.secured = secured
                BY <3>1
            <3>4. ServerRecord(t, NoKey)'
                BY <1>10, <1>11, <3>3 DEF ServerRecord
            <3> QED
                BY <3>2, <3>4, OneMessage, RecordFacts, EndsAssumption
                DEF MaySay
        <2>2. CASE ~chosen[Server].newTicket
            <3>1. tickets = <<>>
                BY <1>2, <2>2 DEF NewTickets
            <3>2. sent = <<>>
                BY <1>7, <3>1
            <3> QED
                BY <3>2, EmptyFacts
        <2> QED
            BY <2>1, <2>2
    <1>a. /\ fin.transcript # <<>> /\ hash'[Server] # <<>>
          /\ fin.transcript[1] = hash'[Server][1]
        <2>1. IsSeq(Hashed(Server)) /\ Hashed(Server) # <<>>
            BY <1>0, ReceivesFacts
        <2>2. PICK seen : seen = [i \in DOMAIN tickets |-> Seen("ticket")]
            OBVIOUS
        <2>3. IsSeq(seen)
            BY <1>2, <2>2, TicketsSeen
        <2>4. PICK transcript : transcript = Hashed(Server) \o seen
            OBVIOUS
        <2>5. IsSeq(transcript) /\ transcript # <<>>
            BY <2>1, <2>3, <2>4, ConcatFacts, BeginsFacts
        <2>6. fin.transcript = transcript
            BY <1>4, <2>2, <2>4 DEF Finished
        <2>7. hash'[Server] = Append(transcript, Seen("finished"))
            BY <1>0, <1>1, <1>2, <2>2, <2>4 DEF ServerFinishes, Maps
        <2> QED
            BY <2>5, <2>6, <2>7, BeginsFacts
    <1>13. MaySay(Server, Ccs) /\ MaySay(Server, Record(fin, key))
        <2>1. fin.type = "finished"
            BY <1>4 DEF Finished
        <2>2. ServerRecord(fin, key)'
            BY <1>9, <1>11, <1>a, <2>1 DEF ServerRecord
        <2> QED
            BY <2>2, MaySayAlert, RecordFacts, EndsAssumption DEF MaySay
    <1>14. /\ IsSeq(sent \o <<Ccs, Record(fin, key)>>)
           /\ \A r \in ToSet(sent \o <<Ccs, Record(fin, key)>>) :
                 MaySay(Server, r)
        BY <1>12, <1>13, TwoMessages, ConcatFacts
    <1>15. /\ Concludes(Server, s.secured) /\ Stays(Client) /\ Sends
           /\ DOMAIN session'[Server] = DOMAIN s
           /\ \A x \in DOMAIN s \ {"resumable"} : session'[Server][x] = s[x]
           /\ session'[Server].resumable = ~Rejects(Server)
           /\ ~cached => cache' = cache
           /\ cached => cache' = [cache EXCEPT ![s.id] = session'[Server]]
        BY <1>0, <1>8, <1>10, <1>14, FinishStep
    <1>16. ServerConcludes(s.secured)
        BY <1>6, <1>9, <1>10, <1>15, ServerConcluded
    <1> QED
        BY <1>0, <1>9, <1>10, <1>15, <1>16 DEF ServerStep
-----------------------------------------------------------------------------
(***************************************************************************)
(* Steps of either end, and of the network.                                *)
(***************************************************************************)
LEMMA EndMovesOnly ==
    ASSUME NEW e \in Ends, Stops(e) \/ Switches(e), KeepsMemory,
           Stays(Peer(e))
    PROVE  EndStep(e)
    BY EndsAssumption DEF EndStep, ClientStep, ServerStep, Peer, Ends

LEMMA EndNextStep ==
    ASSUME Inv, NEW e \in Ends, EndNext(e)
    PROVE  EndStep(e) /\ Sends
    <1>0. /\ Maps /\ Placed(e) /\ Shape
          /\ Peer(e) \in Ends /\ Peer(e) # e
          /\ Waiting \subseteq Early \cup Late
        BY EndsAssumption DEF Inv, Shape, Peer, Ends, Waiting, Early, Late
    <1>1. CASE ReadCcs(e)
        <2>1. Switches(e) /\ KeepsMemory /\ Stays(Peer(e))
            BY <1>0, <1>1, ReceivesFacts
            DEF ReadCcs, Maps, memory, talkVars, Switches, KeepsMemory, Stays,
                KeepsKeys, KeepsTalk
        <2>2. Sends
            BY <1>0, <1>1, AnswerSends, EmptyFacts DEF ReadCcs
        <2> QED
            BY <2>1, <2>2, EndMovesOnly
    <1>2. CASE RefuseFinished(e)
        BY <1>0, <1>2, ErrorStep, ReceivesFacts DEF RefuseFinished, Late
    <1>3. CASE GetAlert(e)
        BY <1>0, <1>3, FailStep, AnswerSends, EmptyFacts DEF GetAlert
    <1>4. CASE Refuse(e)
        BY <1>0, <1>4, ErrorStep DEF Refuse
    <1>5. CASE PeerGone(e)
        BY <1>0, <1>5, FailStep, QuietSends DEF PeerGone, netVars
    <1>6. CASE CannotSend(e)
        BY <1>0, <1>6, CrashStep DEF CannotSend
    <1> QED
        BY <1>1, <1>2, <1>3, <1>4, <1>5, <1>6 DEF EndNext

LEMMA NetworkQuiet ==
    ASSUME UNCHANGED <<at, keyVars, talkVars, session, memory>>
    PROVE  NetworkStep
    BY DEF keyVars, talkVars, memory, NetworkStep, Stays, KeepsKeys, KeepsTalk,
           KeepsMemory

LEMMA BreakStep ==
    ASSUME Inv, Break
    PROVE  NetworkStep /\ Sends
    <1>1. CASE wire' = wire
        BY <1>1, QuietSends, NetworkQuiet DEF Break, Inv
    <1>2. CASE wire' = [e \in Ends |-> <<>>]
        <2>1. DOMAIN wire' = Ends /\ \A e \in Ends : wire'[e] = <<>>
            BY <1>2
        <2>2. Sends
            BY <2>1, EmptyFacts, EndTypes DEF Sends, Wired, Carries
        <2> QED
            BY <2>2, NetworkQuiet DEF Break
    <1> QED
        BY <1>1, <1>2 DEF Break


\* A damaged record keeps its message and its key.
LEMMA DamageStep ==
    ASSUME Inv, Damage
    PROVE  NetworkStep /\ Sends
    <1>0. \A p \in Ends : IsSeq(wire[p])
                          /\ \A r \in ToSet(wire[p]) : IsRecord(r)
        BY DEF Inv, Shape, Wired
    <1>1. PICK e \in Ends : /\ wire[e] # <<>>
                            /\ wire' = [wire EXCEPT ![e][1].intact = FALSE]
        BY DEF Damage
    <1>2. /\ DOMAIN wire' = Ends
          /\ wire'[e] = [wire[e] EXCEPT ![1].intact = FALSE]
          /\ \A p \in Ends \ {e} : wire'[p] = wire[p]
        BY <1>1 DEF Inv, Shape, Wired
    <1> DEFINE s == wire[e]
               t == wire'[e]
    <1>3. /\ Len(s) \in Nat /\ DOMAIN s = 1..Len(s) /\ 1 \in 1..Len(s)
          /\ s = [j \in 1..Len(s) |-> s[j]]
          /\ \A j \in 1..Len(s) : IsRecord(s[j]) /\ s[j] \in ToSet(s)
        <2>1. /\ Len(s) \in Nat /\ DOMAIN s = 1..Len(s) /\ Len(s) > 0
              /\ \A j \in 1..Len(s) : s[j] \in ToSet(s)
            BY <1>0, <1>1, SeqFacts
        <2>2. s \in [1..Len(s) -> ToSet(s)]
            BY <1>0, LenProperties DEF IsSeq
        <2> QED
            BY <1>0, <2>1, <2>2
    <1>4. t = [j \in 1..Len(s) |->
                 IF j = 1 THEN [s[1] EXCEPT !.intact = FALSE] ELSE s[j]]
        BY <1>2, <1>3
    <1> HIDE DEF s, t
    <1>5. PICK c : c = [s[1] EXCEPT !.intact = FALSE]
        OBVIOUS
    <1>6. IsRecord(c) /\ c.msg = s[1].msg /\ c.key = s[1].key
        <2>1. ASSUME NEW r, IsRecord(r), NEW d, d = [r EXCEPT !.intact = FALSE]
              PROVE  IsRecord(d) /\ d.msg = r.msg /\ d.key = r.key
            BY <2>1 DEF IsRecord
        <2> QED
            BY <1>3, <1>5, <2>1
    <1>7. \A r \in ToSet(t) :
             IsRecord(r) /\ \E o \in ToSet(s) : r.msg = o.msg /\ r.key = o.key
        <2>1. ToSet(t) = {t[j] : j \in 1..Len(s)}
            BY <1>4 DEF ToSet
        <2>2. ASSUME NEW j \in 1..Len(s)
              PROVE  /\ IsRecord(t[j])
                     /\ t[j].msg = s[j].msg /\ t[j].key = s[j].key
            <3>1. CASE j = 1
                BY <1>3, <1>4, <1>5, <1>6, <3>1
            <3>2. CASE j # 1
                BY <1>3, <1>4, <3>2
            <3> QED
                BY <3>1, <3>2
        <2> QED
            BY <1>3, <2>1, <2>2
    <1>8. IsSeq(t)
        <2>1. t \in [1..Len(s) -> ToSet(t)]
            BY <1>4 DEF ToSet
        <2>2. t \in Seq(ToSet(t))
            BY <1>3, <2>1, SeqDef
        <2> QED
            BY <2>2 DEF IsSeq
    <1>9. Wired'
        BY <1>0, <1>2, <1>7, <1>8 DEF Wired, t
    <1>10. Carries(e)
        BY <1>7 DEF Carries, s, t
    <1>11. \A p \in Ends \ {e} : Carries(p)
        BY <1>2 DEF Carries
    <1>12. Sends
        BY <1>9, <1>10, <1>11, EndTypes DEF Sends
    <1> QED
        BY <1>12, NetworkQuiet DEF Damage

-----------------------------------------------------------------------------
(***************************************************************************)
(* What no step within a meeting changes.                                  *)
(***************************************************************************)
Framed ==
    /\ setup' = setup /\ round' = round /\ held' = held
    /\ Maps' /\ Heard' /\ HeadsKept

LEMMA HeardStep ==
    ASSUME Inv, NEW e \in Ends, NEW h, IsSeq(h),
           hash' = [hash EXCEPT ![e] = h]
    PROVE  DOMAIN hash' = Ends /\ Heard'
    BY DEF Inv, Shape, Maps, Heard

\* A transcript that grows, or stays, begins as it did.
LEMMA HeadsStay ==
    ASSUME Maps, NEW e \in Ends, NEW h, hash' = [hash EXCEPT ![e] = h],
           hash[e] # <<>>, h # <<>>, h[1] = hash[e][1]
    PROVE  HeadsKept
    <1>1. hash'[e] = h /\ \A p \in Ends \ {e} : hash'[p] = hash[p]
        BY DEF Maps
    <1>2. \A p \in Ends : HeadKept(p)
        BY <1>1 DEF HeadKept
    <1> QED
        BY <1>2, EndTypes DEF HeadsKept

LEMMA SameHeads ==
    ASSUME hash' = hash
    PROVE  HeadsKept
    BY DEF HeadsKept, HeadKept

\* An end that waits for more than the first hello has a transcript.
LEMMA BegunFacts ==
    ASSUME Inv, NEW e \in Ends,
           \/ at[e] \in {"wait_flight"} \cup Late
           \/ e = Client /\ at[e] = "wait_hello"
    PROVE  hash[e] # <<>>
    <1>1. CASE e = Client
        BY <1>1 DEF Inv, ClientBegan
    <1>2. CASE e # Client
        BY <1>2, EndTypes DEF Inv, ServerBegan, Placed, Ends
    <1> QED
        BY <1>1, <1>2

LEMMA FailFramed ==
    ASSUME Inv, NEW e \in Ends, Fail(e)
    PROVE  Framed
    <1>1. hash' = hash
        BY DEF Fail, talkVars
    <1> QED
        BY <1>1, SameHeads
        DEF Fail, Inv, Shape, Maps, Heard, keyVars, talkVars, memory, Framed

LEMMA FinishFramed ==
    ASSUME Inv, NEW e \in Ends, NEW s, NEW records, NEW cached,
           Finish(e, s, records, cached),
           NEW h, IsSeq(h), hash' = [hash EXCEPT ![e] = h],
           hash[e] # <<>>, h # <<>>, h[1] = hash[e][1]
    PROVE  Framed
    <1>1. DOMAIN hash' = Ends /\ Heard'
        BY HeardStep
    <1>2. HeadsKept
        BY HeadsStay DEF Inv, Shape
    <1> QED
        BY <1>1, <1>2 DEF Finish, Inv, Shape, Maps, Framed

LEMMA ClientFramed ==
    ASSUME Inv, ClientNext
    PROVE  Framed
    <1>0. Client \in Ends /\ Maps
        BY DEF Ends, Inv, Shape
    <1>h. ASSUME NEW where, NEW type, Receives(Client, where, type),
                 where \in {"wait_hello", "wait_flight"} \cup Late
          PROVE  /\ IsSeq(Hashed(Client)) /\ Hashed(Client) # <<>>
                 /\ hash[Client] # <<>>
                 /\ Hashed(Client)[1] = hash[Client][1]
        <2>1. at[Client] = where
            BY <1>0, <1>h, ReceivesFacts
        <2>2. hash[Client] # <<>>
            BY <1>0, <1>h, <2>1, BegunFacts
        <2> QED
            BY <1>0, <1>h, <2>2, ReceivesFacts
    <1> DEFINE Grown(h) == /\ IsSeq(h) /\ h # <<>> /\ hash[Client] # <<>>
                           /\ h[1] = hash[Client][1]
    <1>g. \A h : Grown(h) => \A x : Grown(Append(h, x))
        BY AppendFacts, BeginsFacts
    <1>w. "wait_ccs" \in Late /\ "wait_finished" \in Late
        BY DEF Late
    <1>1. CASE \/ StartFails \/ RefuseServerHello \/ RefuseFlight
               \/ CannotVerify
        BY <1>0, <1>1, FailFramed
        DEF StartFails, RefuseServerHello, RefuseFlight, CannotVerify,
            SendError, Crash
    <1>2. CASE SendClientHello
        <2>1. IsSeq(<<Seen("client_hello")>>)
            BY OneMessage
        <2>2. DOMAIN hash' = Ends /\ Heard'
            BY <1>0, <1>2, <2>1, HeardStep DEF SendClientHello
        <2>3. HeadsKept
            <3>1. /\ hash'[Client] = <<Seen("client_hello")>>
                  /\ hash'[Server] = hash[Server] /\ at[Client] = "start"
                BY <1>0, <1>2, EndTypes, EndsAssumption
                DEF SendClientHello, Maps
            <3> QED
                BY <3>1 DEF HeadsKept, HeadKept
        <2> QED
            BY <1>0, <1>2, <2>2, <2>3
            DEF SendClientHello, Maps, keyVars, memory, Framed
    <1>3. CASE ReadServerHello
        <2>1. DOMAIN hash' = Ends /\ Heard'
            BY <1>0, <1>h, <1>3, HeardStep DEF ReadServerHello
        <2>2. DOMAIN chosen' = Ends /\ DOMAIN pending' = Ends
              /\ DOMAIN at' = Ends
            BY <1>0, <1>3 DEF ReadServerHello, Maps
        <2>3. HeadsKept
            BY <1>0, <1>h, <1>3, HeadsStay DEF ReadServerHello
        <2> QED
            BY <1>0, <1>3, <2>1, <2>2, <2>3
            DEF ReadServerHello, Maps, memory, Framed
    <1>4. CASE EnterTls13
        BY <1>0, <1>4, SameHeads
        DEF EnterTls13, Maps, Heard, Inv, Shape, keyVars, talkVars, memory,
            Framed
    <1>5. CASE ReadFlight
        <2>1. PICK h : Grown(h) /\ hash' = [hash EXCEPT ![Client] = h]
            <3>1. Grown(Hashed(Client))
                BY <1>h, <1>5 DEF ReadFlight
            <3>2. Grown(Append(Append(Hashed(Client), Seen("client_flight")),
                               Seen("finished")))
                BY <1>g, <3>1
            <3> QED
                BY <1>5, <3>2 DEF ReadFlight
        <2>2. DOMAIN hash' = Ends /\ Heard' /\ HeadsKept
            BY <1>0, <2>1, HeardStep, HeadsStay
        <2>3. /\ DOMAIN clientCert' = Ends /\ DOMAIN pending' = Ends
              /\ DOMAIN writeKey' = Ends /\ DOMAIN at' = Ends
            BY <1>0, <1>5 DEF ReadFlight, Maps
        <2> QED
            BY <1>0, <1>5, <2>2, <2>3 DEF ReadFlight, Maps, memory, Framed
    <1>6. CASE ReadTicket
        <2>1. DOMAIN hash' = Ends /\ Heard' /\ HeadsKept
            BY <1>0, <1>h, <1>w, <1>6, HeardStep, HeadsStay DEF ReadTicket
        <2>2. DOMAIN chosen' = Ends
            BY <1>0, <1>6 DEF ReadTicket, Maps
        <2> QED
            BY <1>0, <1>6, <2>1, <2>2
            DEF ReadTicket, Maps, keyVars, memory, Framed
    <1>7. CASE ClientFinishes
        BY <1>0, <1>h, <1>w, <1>7, FinishFramed DEF ClientFinishes
    <1>8. CASE ClientResumes
        <2>1. Grown(Append(Hashed(Client), Seen("finished")))
            BY <1>g, <1>h, <1>w, <1>8 DEF ClientResumes
        <2> QED
            BY <1>0, <1>8, <2>1, FinishFramed DEF ClientResumes
    <1> QED
        BY <1>1, <1>2, <1>3, <1>4, <1>5, <1>6, <1>7, <1>8 DEF ClientNext

LEMMA ServerFramed ==
    ASSUME Inv, ServerNext
    PROVE  Framed
    <1>0. Server \in Ends /\ Maps
        BY DEF Ends, Inv, Shape
    <1>h. ASSUME NEW where, NEW type, Receives(Server, where, type)
          PROVE  /\ IsSeq(Hashed(Server)) /\ Hashed(Server) # <<>>
                 /\ where \in {"wait_flight", "wait_finished"} =>
                       /\ hash[Server] # <<>>
                       /\ Hashed(Server)[1] = hash[Server][1]
        <2>1. at[Server] = where
            BY <1>0, <1>h, ReceivesFacts
        <2>2. where \in {"wait_flight", "wait_finished"} =>
                  hash[Server] # <<>>
            BY <1>0, <1>h, <2>1, BegunFacts DEF Late
        <2> QED
            BY <1>0, <1>h, <2>2, ReceivesFacts
    <1>a. ASSUME NEW h, hash' = [hash EXCEPT ![Server] = h],
                 at[Server] = "wait_hello", at'[Server] # "wait_hello"
          PROVE  HeadsKept
        <2>1. hash'[Client] = hash[Client]
            BY <1>0, <1>a, EndTypes, EndsAssumption DEF Maps
        <2> QED
            BY <1>a, <2>1 DEF HeadsKept, HeadKept
    <1>1. CASE ServerCannotStart \/ RefuseClientFlight
        BY <1>0, <1>1, FailFramed
        DEF ServerCannotStart, RefuseClientFlight, SendError
    <1>2. CASE ReadClientHello
        <2>1. IsSeq(Hashed(Server)) /\ at[Server] = "wait_hello"
            BY <1>0, <1>h, <1>2, ReceivesFacts DEF ReadClientHello
        <2>2. CASE SendError(Server) \/ Crash(Server)
            BY <1>0, <2>2, FailFramed DEF SendError, Crash
        <2>3. ASSUME NEW h, NEW d, Resume(h, d)
              PROVE  Framed
            <3>1. IsSeq(Append(Append(Hashed(Server), Seen("server_hello")),
                               Seen("finished")))
                BY <2>1, AppendFacts
            <3>2. DOMAIN hash' = Ends /\ Heard'
                BY <1>0, <2>3, <3>1, HeardStep DEF Resume
            <3>3. /\ DOMAIN chosen' = Ends /\ DOMAIN pending' = Ends
                  /\ DOMAIN writeKey' = Ends /\ DOMAIN at' = Ends
                BY <1>0, <2>3 DEF Resume, Maps
            <3>4. HeadsKept
                BY <1>0, <1>a, <2>1, <2>3 DEF Resume, Maps
            <3> QED
                BY <1>0, <2>3, <3>2, <3>3, <3>4
                DEF Resume, Maps, memory, Framed
        <2>4. ASSUME NEW h, NEW d, NegotiateFull(h, d)
              PROVE  Framed
            <3>1. IsSeq(Hashed(Server) \o <<Seen("server_hello"),
                                            Seen("server_flight")>>)
                BY <2>1, TwoMessages, ConcatFacts
            <3>2. DOMAIN hash' = Ends /\ Heard'
                BY <1>0, <2>4, <3>1, HeardStep DEF NegotiateFull
            <3>3. DOMAIN chosen' = Ends /\ DOMAIN at' = Ends
                BY <1>0, <2>4 DEF NegotiateFull, Maps
            <3>4. HeadsKept
                BY <1>0, <1>a, <2>1, <2>4 DEF NegotiateFull, Maps
            <3> QED
                BY <1>0, <2>4, <3>2, <3>3, <3>4
                DEF NegotiateFull, Maps, keyVars, memory, Framed
        <2>5. ASSUME NEW d, NegotiateTls13(d)
              PROVE  Framed
            BY <1>0, <2>5, SameHeads
            DEF NegotiateTls13, Maps, Heard, Inv, Shape, keyVars, talkVars,
                memory, Framed
        <2> QED
            BY <1>2, <2>2, <2>3, <2>4, <2>5 DEF ReadClientHello
    <1>3. CASE ReadClientFlight
        <2>1. DOMAIN hash' = Ends /\ Heard' /\ HeadsKept
            BY <1>0, <1>h, <1>3, HeardStep, HeadsStay DEF ReadClientFlight
        <2>2. /\ DOMAIN clientCert' = Ends /\ DOMAIN pending' = Ends
              /\ DOMAIN at' = Ends
            BY <1>0, <1>3 DEF ReadClientFlight, Maps
        <2> QED
            BY <1>0, <1>3, <2>1, <2>2 DEF ReadClientFlight, Maps, memory, Framed
    <1>4. CASE ServerFinishes
        <2>1. PICK tickets :
                  tickets = NewTickets(Secured(Server, readKey[Server].master,
                                               clientCert[Server]))
            OBVIOUS
        <2>2. PICK seen : seen = [i \in DOMAIN tickets |-> Seen("ticket")]
            OBVIOUS
        <2>3. IsSeq(seen)
            BY <2>1, <2>2, TicketsSeen
        <2>t. PICK transcript : transcript = Hashed(Server) \o seen
            OBVIOUS
        <2>a. /\ IsSeq(Hashed(Server)) /\ Hashed(Server) # <<>>
              /\ hash[Server] # <<>> /\ Hashed(Server)[1] = hash[Server][1]
            BY <1>h, <1>4 DEF ServerFinishes
        <2>b. /\ IsSeq(transcript) /\ transcript # <<>>
              /\ transcript[1] = hash[Server][1]
            BY <2>3, <2>t, <2>a, ConcatFacts, BeginsFacts
        <2>h. PICK h : h = Append(transcript, Seen("finished"))
            OBVIOUS
        <2>4. IsSeq(h) /\ h # <<>> /\ h[1] = hash[Server][1]
            BY <2>b, <2>h, AppendFacts, BeginsFacts
        <2>5. hash' = [hash EXCEPT ![Server] = h]
            BY <1>4, <2>1, <2>2, <2>t, <2>h DEF ServerFinishes
        <2>6. \E s, records, cached : Finish(Server, s, records, cached)
            BY <1>4 DEF ServerFinishes
        <2> QED
            BY <1>0, <2>a, <2>4, <2>5, <2>6, FinishFramed
    <1>5. CASE ServerResumes
        BY <1>0, <1>h, <1>5, FinishFramed DEF ServerResumes
    <1> QED
        BY <1>1, <1>2, <1>3, <1>4, <1>5 DEF ServerNext

LEMMA EndFramed ==
    ASSUME Inv, NEW e \in Ends, EndNext(e)
    PROVE  Framed
    <1>1. CASE ReadCcs(e)
        BY <1>1, SameHeads
        DEF ReadCcs, Inv, Shape, Maps, Heard, talkVars, memory, Framed
    <1>2. CASE ~ReadCcs(e)
        BY <1>2, FailFramed
        DEF EndNext, RefuseFinished, GetAlert, Refuse, PeerGone, CannotSend,
            SendError, Crash
    <1> QED
        BY <1>1, <1>2

LEMMA NetworkFramed ==
    ASSUME Inv, Break \/ Damage \/ UNCHANGED vars
    PROVE  Framed
    BY SameHeads
    DEF Break, Damage, vars, Inv, Shape, Maps, Heard, keyVars, talkVars,
        memory, Framed

-----------------------------------------------------------------------------
(***************************************************************************)
(* The invariant.                                                          *)
(***************************************************************************)
LEMMA ClientNextStep ==
    ASSUME Inv, ClientNext
    PROVE  ClientStep /\ Sends
    BY StartFailsStep, SendClientHelloStep, ReadServerHelloStep,
       RefuseServerHelloStep, EnterTls13Step, ReadFlightStep, RefuseFlightStep,
       CannotVerifyStep, ReadTicketStep, ClientFinishesStep, ClientResumesStep
    DEF ClientNext

LEMMA ServerNextStep ==
    ASSUME Inv, ServerNext
    PROVE  ServerStep /\ Sends
    BY ServerCannotStartStep, ReadClientHelloStep, ReadClientFlightStep,
       RefuseClientFlightStep, ServerFinishesStep, ServerResumesStep
    DEF ServerNext

LEMMA StutterStep ==
    ASSUME Inv, UNCHANGED vars
    PROVE  NetworkStep /\ Sends
    BY QuietSends, NetworkQuiet DEF vars, netVars, Inv

LEMMA NextStep ==
    ASSUME Inv, [Next]_vars
    PROVE  Step \/ NextRound
    <1>1. CASE ClientNext
        BY <1>1, ClientNextStep, ClientFramed DEF Step, Framed
    <1>2. CASE ServerNext
        BY <1>2, ServerNextStep, ServerFramed DEF Step, Framed
    <1>3. CASE \E e \in Ends : EndNext(e)
        BY <1>3, EndNextStep, EndFramed DEF Step, Framed, EndStep
    <1>4. CASE Break \/ Damage \/ UNCHANGED vars
        BY <1>4, BreakStep, DamageStep, StutterStep, NetworkFramed
        DEF Step, Framed
    <1> QED
        BY <1>1, <1>2, <1>3, <1>4 DEF Next, Steps

\* What holds of connections on which nothing was said yet.
Fresh ==
    /\ at = [e \in Ends |-> IF e = Client THEN "start" ELSE "wait_hello"]
    /\ writeKey = [e \in Ends |-> NoKey]
    /\ readKey = [e \in Ends |-> NoKey]
    /\ pending = [e \in Ends |-> NoKey]
    /\ hash = [e \in Ends |-> <<>>]
    /\ chosen = [e \in Ends |-> NoChoice]
    /\ clientCert = [e \in Ends |-> "none"]
    /\ session = [e \in Ends |-> NoSession]
    /\ wire = [e \in Ends |-> <<>>]

\* A meeting may begin.
Ready ==
    /\ Fresh
    /\ setup \in Setups /\ round \in 1..Len(setup.rounds)
    /\ DOMAIN known = Ends /\ DOMAIN cache = DOMAIN setup.rounds
    /\ Known /\ Memory

LEMMA FreshInv == Ready => Inv
    <1>0. SUFFICES ASSUME Ready
                   PROVE  Inv
        OBVIOUS
    <1>1. \A e \in Ends :
             /\ at[e] = IF e = Client THEN "start" ELSE "wait_hello"
             /\ writeKey[e] = NoKey /\ readKey[e] = NoKey
             /\ pending[e] = NoKey /\ session[e] = NoSession
             /\ hash[e] = <<>> /\ wire[e] = <<>>
        BY <1>0 DEF Ready, Fresh
    <1>2. at[Client] = "start" /\ at[Server] = "wait_hello"
        BY <1>1, EndTypes, EndsAssumption
    <1>3. Shape
        BY <1>0, <1>1, EmptyFacts DEF Ready, Fresh, Shape, Maps, Heard, Wired
    <1>4. \A e \in Ends : Placed(e) /\ Keyed(e)
        BY <1>1 DEF Placed, Keyed, InFull, Early, Late, Over
    <1>5. ClientKeyed /\ ServerKeyed /\ Opened /\ Identities
        BY <1>1, EndTypes
        DEF ClientKeyed, ServerKeyed, Opened, Identities, InFull, InResumption
    <1>6. ClientSettled /\ ServerSettled
        BY <1>1, <1>2, EndTypes
        DEF ClientSettled, ServerSettled, InFull, InResumption, Late
    <1>7. ClientSaid /\ ServerSaid
        BY <1>1, EndTypes, EmptyFacts DEF ClientSaid, ServerSaid
    <1>8. ClientSuited /\ ServerSuited
        BY <1>1, <1>2, EndTypes
        DEF ClientSuited, ServerSuited, InFull, InResumption
    <1>9. ClientBegan /\ ServerBegan /\ Vouched
        BY <1>1, <1>2, EndTypes DEF ClientBegan, ServerBegan, Vouched, Late
    <1> QED
        BY <1>0, <1>3, <1>4, <1>5, <1>6, <1>7, <1>8, <1>9 DEF Ready, Inv

LEMMA InitInv ==
    ASSUME Init
    PROVE  Inv
    <1>1. Fresh
        BY DEF Init, FreshConnections, Fresh
    <1>2. \A e \in Ends : known[e] = {} /\ session[e] = NoSession
        BY DEF Init, FreshConnections
    <1>3. Known
        BY <1>2, EndTypes DEF Known
    <1>4. Memory
        BY <1>2, EndTypes DEF Init, Memory
    <1>5. round \in 1..Len(setup.rounds)
        <2>1. setup.rounds \in Seq(Rounds) /\ setup.rounds # <<>>
            BY SetupsAssumption DEF Init
        <2>2. Len(setup.rounds) \in Nat /\ Len(setup.rounds) # 0
            BY <2>1, LenProperties, EmptySeq
        <2> QED
            BY <2>2 DEF Init
    <1> QED
        BY <1>1, <1>3, <1>4, <1>5, FreshInv DEF Init, Ready

\* What the ends kept remains what they concluded on.
LEMMA NextRoundInv ==
    ASSUME Inv, NextRound
    PROVE  Inv'
    <1>0. /\ Maps /\ Known /\ Memory
          /\ round \in Nat /\ round' = round + 1
          /\ setup' = setup /\ known' = known
        BY RoundType DEF Inv, Shape, NextRound
    <1>1. Fresh'
        BY DEF NextRound, Fresh
    <1>2. session'[Client] = NoSession /\ session'[Server] = NoSession
        BY EndTypes DEF NextRound
    <1>3. round' \in 1..Len(setup'.rounds)
        <2>1. setup.rounds \in Seq(Rounds)
            BY <1>0, SetupsAssumption DEF Maps
        <2>2. Len(setup.rounds) \in Nat
            BY <2>1, LenProperties
        <2> QED
            BY <1>0, <2>2 DEF NextRound
    <1>4. Known'
        <2>1. \A x \in known[Server] : MadeIn(x)' = MadeIn(x)
            BY DEF MadeIn
        <2>2. ASSUME NEW x \in known[Server]
              PROVE  MadeIn(x) \in 1..(round + 1) /\ MadeIn(x) # round + 1
            <3>1. MadeIn(x) \in 1..round
                BY <1>0 DEF Known
            <3> QED
                BY <1>0, <3>1
        <2>3. \A x \in known[Server] :
                 (Identity(Meeting(x), x.suite))' =
                     Identity(Meeting(x), x.suite)
            BY <1>0 DEF Identity, Asks, Meeting, MadeIn
        <2>4. /\ known[Client] \subseteq known[Server]
              /\ \A x \in known[Server] :
                    x.ems \in BOOLEAN /\ EtmFits(x)
                    /\ x.clientCert = Identity(Meeting(x), x.suite)
              /\ \A x, y \in known[Server] : MadeIn(x) = MadeIn(y) => x = y
            BY <1>0 DEF Known
        <2> QED
            BY <1>0, <2>2, <2>3, <2>4 DEF Known, MadeIn
    <1>5. \A s : ClientKept(s) => ClientKept(s)'
        BY <1>0 DEF ClientKept, IdOk, TicketOk, Origin
    <1>6. \A s : ServerKept(s) => ServerKept(s)'
        BY <1>0 DEF ServerKept, IdOk, Origin
    <1>7. Memory'
        <2>1. held' = NoSession \/ ClientKept(held')
            BY <1>0 DEF Memory, NextRound
        <2>2. \A i \in DOMAIN cache' :
                 cache'[i] = NoSession \/ ServerKept(cache'[i])
            BY <1>0 DEF Memory, NextRound
        <2> QED
            BY <1>2, <1>5, <1>6, <2>1, <2>2 DEF Memory
    <1>8. DOMAIN known' = Ends /\ DOMAIN cache' = DOMAIN setup'.rounds
        BY <1>0 DEF Maps, NextRound
    <1>9. setup' \in Setups
        BY <1>0 DEF Maps
    <1> QED
        <2>1. Ready'
            BY <1>1, <1>3, <1>4, <1>7, <1>8, <1>9 DEF Ready
        <2> QED
            BY <2>1, FreshInv, PTL

LEMMA InductiveInv ==
    ASSUME Inv, [Next]_vars
    PROVE  Inv'
    BY NextStep, NextRoundInv, StepInv

-----------------------------------------------------------------------------
(***************************************************************************)
(* Theorems.                                                               *)
(***************************************************************************)
\* The invariant holds of every reachable state, in every meeting.
THEOREM Invariance == Spec => []Inv
    <1>1. Init => Inv
        BY InitInv
    <1>2. Inv /\ [Next]_vars => Inv'
        BY InductiveInv
    <1> QED
        BY <1>1, <1>2, PTL DEF Spec

\* The client that the server's session names is the one that proved to hold
\* the certificate when the session was made: in this meeting, or in the
\* earlier one whose session was resumed from the cache or from a ticket.
THEOREM ClientIdentified == Spec => []ClientIdentity
    <1>1. Inv => ClientIdentity
        <2>1. SUFFICES ASSUME Inv, at[Server] = "done"
                       PROVE  ClientIdentity
            BY DEF ClientIdentity
        <2>2. session[Server] # NoSession
            BY <2>1, EndTypes DEF Inv, Placed
        <2>3. session[Server].secured \in known[Server]
            BY <2>1, <2>2 DEF Inv, Memory
        <2>4. LET x == session[Server].secured
              IN  x.clientCert = Identity(Meeting(x), x.suite)
            BY <2>1, <2>3 DEF Inv, Known
        <2> QED
            BY <2>4 DEF ClientIdentity, Origin, Identity, Asks, Meeting, MadeIn
    <1> QED
        BY <1>1, Invariance, PTL

\* A session that its own end's checker turned down is never taken up again,
\* neither by the client nor by the server from its cache: the flag that
\* _shutdown(False) clears is the one valid() looks at.
THEOREM RejectedSessions == Spec => []RejectedStaysOut
    <1>1. Inv => RejectedStaysOut
        <2>1. SUFFICES ASSUME Inv
                       PROVE  RejectedStaysOut
            OBVIOUS
        <2>2. /\ \A e \in Ends : Placed(e) /\ Keyed(e)
              /\ ClientKeyed /\ ServerKeyed /\ ServerSettled /\ Memory
            BY <2>1 DEF Inv
        <2>3. ASSUME at[Client] = "done", chosen[Client].resumed
              PROVE  ~Origin(session[Client]).client.rejects
            <3>1. session[Client] # NoSession /\ InResumption(Client)
                BY <2>2, <2>3, EndTypes DEF Placed, Keyed, InResumption
            <3>2. Offers /\ session[Client].secured = held.secured
                BY <2>2, <3>1 DEF ClientKeyed
            <3>3. held # NoSession /\ held.resumable
                BY <3>2 DEF Offers, Offered
            <3>4. ~Origin(held).client.rejects
                BY <2>2, <3>3 DEF Memory, ClientKept
            <3> QED
                BY <3>2, <3>4 DEF Origin
        <2>4. ASSUME at[Server] = "done", chosen[Server].resumed,
                     chosen[Server].cached
              PROVE  ~Origin(session[Server]).server.rejects
            <3>1. session[Server] # NoSession /\ InResumption(Server)
                BY <2>2, <2>4, EndTypes DEF Placed, Keyed, InResumption
            <3>2. session[Server].secured = chosen[Server].session.secured
                BY <2>2, <3>1 DEF ServerKeyed
            <3>3. ~Origin(chosen[Server].session).server.rejects
                BY <2>2, <2>4, <3>1 DEF ServerSettled, ServerKept
            <3> QED
                BY <3>2, <3>3 DEF Origin
        <2> QED
            BY <2>3, <2>4 DEF RejectedStaysOut
    <1> QED
        BY <1>1, Invariance, PTL

\* The ends share their keys and the version once one of them is done.
LEMMA DoneShares ==
    ASSUME Inv, NEW e \in Ends, at[e] = "done"
    PROVE  /\ session[e] # NoSession /\ readKey[e] = pending[e]
           /\ pending[e] # NoKey /\ pending[Client] = pending[Server]
           /\ \A p \in Ends :
                 /\ InFull(p) \/ InResumption(p)
                 /\ pending[p].version = chosen[p].version
           /\ chosen[e].version = chosen[Server].version
    <1>1. /\ \A p \in Ends : Placed(p) /\ Keyed(p)
          /\ ClientKeyed /\ ServerKeyed /\ Opened
        BY DEF Inv
    <1>2. /\ session[e] # NoSession /\ readKey[e] = pending[e]
          /\ pending[e] # NoKey
        BY <1>1 DEF Placed, Keyed
    <1>3. Peer(e) \in Ends /\ {e, Peer(e)} = Ends
        BY DEF Peer, Ends
    <1>4. writeKey[Peer(e)] = pending[e]
        BY <1>1, <1>2 DEF Opened
    <1>5. pending[Peer(e)] = pending[e]
        BY <1>1, <1>2, <1>3, <1>4 DEF Keyed
    <1>6. \A p \in Ends : pending[p] = pending[e]
        BY <1>3, <1>5
    <1>7. ASSUME NEW p \in Ends
          PROVE  /\ InFull(p) \/ InResumption(p)
                 /\ pending[p].version = chosen[p].version
        <2>1. InFull(p) \/ InResumption(p)
            BY <1>2, <1>6 DEF InFull, InResumption
        <2>2. InFull(p) => pending[p].version = chosen[p].version
            BY <1>1 DEF Keyed, FullKey
        <2>3. InResumption(p) => pending[p].version = chosen[p].version
            BY <1>1, EndTypes DEF ClientKeyed, ServerKeyed, ResumedKey, Ends
        <2> QED
            BY <2>1, <2>2, <2>3
    <1>8. Client \in Ends /\ Server \in Ends
        BY EndTypes
    <1> QED
        BY <1>2, <1>6, <1>7, <1>8

\* The suite that an end is done with is one that its settings let through.
LEMMA DoneFits ==
    ASSUME Inv, NEW e \in Ends, at[e] = "done",
           NEW suite, suite = pending[e].suite,
           NEW v, v = chosen[e].version
    PROVE  /\ v \in Int /\ filterForVersion(suite, v, v)
           /\ session[e].secured.suite = suite
           /\ e = Client =>
                 suite \in ClientSuites(client.settings, client.auth)
           /\ e = Server => suite \in ServerSuites(server, Asked, v)
           /\ \E w : _filterSuites(suite, Settings(e), w)
    <1>0. /\ Keyed(e) /\ ClientKeyed /\ ServerKeyed
          /\ ClientSuited /\ ServerSuited
        BY DEF Inv
    <1>1. /\ session[e] # NoSession /\ pending[e] # NoKey
          /\ InFull(e) \/ InResumption(e)
        BY DoneShares
    <1>2. InFull(e) =>
              /\ session[e].secured.suite = chosen[e].suite
              /\ suite = chosen[e].suite
        BY <1>0, <1>1 DEF Keyed, FullSecured, Secured, FullKey
    <1>3. CASE e = Client
        <2>1. ClientFits(chosen[e].suite, v)
            BY <1>0, <1>1, <1>3 DEF ClientSuited
        <2>2. InResumption(e) =>
                  /\ session[e].secured.suite = chosen[e].suite
                  /\ suite = chosen[e].suite
            BY <1>0, <1>1, <1>3 DEF ClientSuited, ClientKeyed
        <2>3. /\ session[e].secured.suite = suite
              /\ ClientFits(suite, v)
            BY <1>1, <1>2, <2>1, <2>2
        <2>4. _filterSuites(suite, client.settings, client.settings.max)
            BY <2>3 DEF ClientFits, ClientSuites
        <2> QED
            BY <1>3, <2>3, <2>4, EndsAssumption DEF ClientFits, Settings
    <1>4. CASE e = Server
        <2>1. InFull(e) => ServerFits(suite, v)
            BY <1>0, <1>2, <1>4 DEF ServerSuited
        <2>2. InResumption(e) =>
                  session[e].secured.suite = suite /\ ServerFits(suite, v)
            BY <1>0, <1>1, <1>4 DEF ServerSuited, ServerKeyed
        <2>3. /\ session[e].secured.suite = suite
              /\ ServerFits(suite, v)
            BY <1>1, <1>2, <2>1, <2>2
        <2>4. _filterSuites(suite, server.settings, v)
            BY <2>3 DEF ServerFits, ServerSuites, ServerAllows
        <2> QED
            BY <1>4, <2>3, <2>4, EndsAssumption DEF ServerFits, Settings
    <1> QED
        BY <1>3, <1>4 DEF Ends

\* Encrypt-then-MAC came with a CBC cipher, now or in the session resumed.
LEMMA DoneEtm ==
    ASSUME Inv, NEW e \in Ends, at[e] = "done"
    PROVE  EtmFits(pending[e])
    <1>1. /\ InFull(Server) \/ InResumption(Server)
          /\ pending[e] = pending[Server]
        BY DoneShares, EndTypes DEF Ends
    <1>2. InFull(Server) => EtmFits(pending[Server])
        BY EndTypes DEF Inv, ServerSuited, Keyed, FullKey, EtmFits
    <1>3. InResumption(Server) => EtmFits(pending[Server])
        <2>1. InResumption(Server) =>
                  EtmFits(chosen[Server].session.secured)
            BY DEF Inv, ServerSettled, Known
        <2> QED
            BY <2>1 DEF Inv, ServerSuited, EtmFits
    <1> QED
        BY <1>1, <1>2, <1>3 DEF EtmFits

\* What an end concludes on is a suite that its own settings allow now, for
\* the version that was agreed, also when the session resumed was made under
\* other settings; and the keys it takes up are of the cipher and the MAC that
\* the settings named: the tables of constants.py, written by hand, give every
\* suite one cipher and one MAC, and _getCipherSettings and _getMacSettings
\* find them.
THEOREM SuitesFit == Spec => []SuiteFits
    <1>1. ASSUME Inv
          PROVE  SuiteFits
        <2>1. SuiteAllowed
            <3>1. OwnHello.asks = Asked
                BY <1>1, AskedFacts DEF Inv, Shape
            <3> QED
                BY <1>1, <3>1, DoneFits, EndsAssumption DEF SuiteAllowed, Ends
        <2>2. KeysFit
            <3> SUFFICES ASSUME NEW e \in Ends, at[e] = "done"
                         PROVE  KeyFits(e)
                BY DEF KeysFit
            <3>1. PICK suite, v : suite = pending[e].suite
                                  /\ v = chosen[e].version
                OBVIOUS
            <3>2. readKey[e] = pending[e] /\ pending[e].version = v
                BY <1>1, <3>1, DoneShares
            <3>3. /\ v \in Int /\ filterForVersion(suite, v, v)
                  /\ \E w : _filterSuites(suite, Settings(e), w)
                BY <1>1, <3>1, DoneFits
            <3>4. Settings(e).ciphers \subseteq CipherNames
                BY <1>1, SettingsFacts DEF Inv, Shape
            <3>5. PICK settings : settings = Settings(e)
                OBVIOUS
            <3>6. PICK w : _filterSuites(suite, settings, w)
                BY <3>3, <3>5
            <3>7. /\ _getCipherSettings(suite) \in KeySettings
                  /\ canonicalCipherName(suite) \in settings.ciphers
                  /\ (_getMacSettings(suite).length = 0)
                        <=> suite \in aeadSuites
                  /\ \E mac \in settings.macs :
                        mac = IF suite \in aeadSuites /\ mac = "aead"
                              THEN "aead" ELSE canonicalMacName(suite)
                  /\ \/ suite \in aeadSuites
                     \/ _getMacSettings(suite).digest = canonicalMacName(suite)
                  /\ v < 3 => suite \in ssl3Suites
                BY <3>3, <3>4, <3>5, <3>6, SuiteKeys
            <3>8. EtmFits(pending[e])
                BY <1>1, DoneEtm
            <3> QED
                BY <3>1, <3>2, <3>5, <3>7, <3>8 DEF KeyFits, EtmFits
        <2> QED
            BY <2>1, <2>2 DEF SuiteFits
    <1> QED
        BY <1>1, Invariance, PTL

\* The version that a server takes from an unaltered hello is the highest that
\* both ends speak, if neither list has gaps.
LEMMA BestTaken ==
    ASSUME Maps, Regular(client.settings), Regular(server.settings),
           NEW v \in ServerVersions(server.settings, Asked)
    PROVE  v = Lesser(client.settings.max, server.settings.max)
    <1> DEFINE c == client.settings
               s == server.settings
    <1>0. /\ c.min \in 0..4 /\ c.max \in 0..4 /\ c.versions \in Seq(0..4)
          /\ s.min \in 0..4 /\ s.max \in 0..4 /\ s.versions \in Seq(0..4)
        BY MeetingFacts, ValidatedFacts
    <1>1. /\ Asked.version = Lesser(c.max, 3)
          /\ Asked.versions = IF Speaks13(c) THEN c.versions ELSE <<>>
        BY AskedFacts
    <1>2. CASE c.max = 4
        <2>1. Supported(c) = c.min..4 /\ Supported(c) = ToSet(c.versions)
            BY <1>0, <1>2 DEF Regular, Supported
        <2>a. 4 \in Supported(c)
            BY <1>0, <2>1
        <2>b. 4 > 3
            OBVIOUS
        <2>2. 4 \in ToSet(c.versions) /\ Speaks13(c)
            BY <2>1, <2>a, <2>b, Zenon DEF Speaks13
        <2>3. Asked.versions = c.versions /\ c.versions # <<>>
            BY <1>1, <2>2 DEF ToSet
        <2>4. \A x : Contains(c.versions, x) <=> x \in c.min..4
            BY <1>0, <2>1, LenProperties DEF Contains, ToSet
        <2>5. PICK i \in DOMAIN s.versions :
                 /\ v = s.versions[i]
                 /\ v \in Supported(s) /\ v \in c.min..4
                 /\ \A j \in DOMAIN s.versions :
                       s.versions[j] \in Supported(s)
                       /\ s.versions[j] \in c.min..4 => i <= j
            BY <2>3, <2>4 DEF ServerVersions, FirstMatching
        <2>6. Supported(s) = s.min..s.max
            BY DEF Regular
        <2>7. s.max \in Supported(s) /\ s.max \in c.min..4 /\ v <= s.max
            BY <1>0, <2>5, <2>6
        <2>8. PICK j \in DOMAIN s.versions : s.versions[j] = s.max
            BY <2>7 DEF Supported, ToSet
        <2>9. i \in Nat /\ j \in Nat /\ j >= 1
            BY <1>0, LenProperties
        <2>10. j >= i
            BY <2>5, <2>7, <2>8, <2>9
        <2>11. i < j => v >= s.max
            BY <2>5, <2>7, <2>8 DEF Regular
        <2>12. v = s.max
            BY <1>0, <2>5, <2>6, <2>7, <2>8, <2>9, <2>10, <2>11
        <2> QED
            BY <1>0, <1>2, <2>12 DEF Lesser
    <1>3. CASE c.max # 4
        <2>a. ToSet(c.versions) \subseteq 0..4
            BY <1>0, LenProperties DEF ToSet
        <2>b. c.max \in 0..3
            BY <1>0, <1>3
        <2>1. c.max \in 0..3 /\ ~Speaks13(c)
            BY <2>a, <2>b DEF Speaks13, Supported
        <2>2. v = Lesser(Asked.version, Lesser(s.max, 3))
            BY <1>1, <2>1 DEF ServerVersions
        <2> QED
            BY <1>0, <1>1, <2>1, <2>2 DEF Lesser
    <1> QED
        BY <1>2, <1>3

\* However the network alters the hellos, the ends conclude on the highest
\* version that both of them support: the server takes its version from the
\* hello that begins its transcript, and no end concludes unless the other's
\* Finished covers the same transcript, which begins with the hello that the
\* client sent.
THEOREM HighestAgreed == Spec => []HighestVersion
    <1>1. ASSUME Inv
          PROVE  HighestVersion
        <2> SUFFICES ASSUME Regular(Settings(Client)),
                            Regular(Settings(Server)),
                            NEW e \in Ends, at[e] = "done"
                     PROVE  chosen[e].version = BestVersion
            BY DEF HighestVersion
        <2>1. /\ Settings(Client) = client.settings
              /\ Settings(Server) = server.settings
            BY EndsAssumption DEF Settings
        <2>2. /\ session[e] # NoSession /\ pending[Server] # NoKey
              /\ chosen[e].version = chosen[Server].version
            BY <1>1, DoneShares, EndTypes DEF Ends
        <2>3. Unaltered
            BY <1>1, <2>2 DEF Inv, Vouched
        <2>4. chosen[Server].version \in ServerVersions(server.settings, Asked)
            BY <1>1, <2>2, <2>3 DEF Inv, ServerBegan, Unaltered
        <2>5. chosen[Server].version
                  = Lesser(client.settings.max, server.settings.max)
            BY <1>1, <2>1, <2>4, BestTaken DEF Inv, Shape
        <2> QED
            BY <2>1, <2>2, <2>5 DEF BestVersion
    <1> QED
        BY <1>1, Invariance, PTL

\* What a step shows of an end that does not conclude in it.
LEMMA ViewStays ==
    ASSUME Inv, Step, NEW e \in Ends, session'[e] = session[e]
    PROVE  View(e)' = View(e)
    <1>1. CASE session[e] = NoSession
        BY <1>1 DEF View
    <1>2. CASE session[e] # NoSession
        BY <1>2, SessionStays DEF View, Stays, KeepsKeys, KeepsTalk
    <1> QED
        BY <1>1, <1>2

\* An end concludes on the session of its handshake.
Concluding(e, secured) ==
    /\ Concludes(e, secured) /\ Stays(Peer(e))
    /\ e = Client /\ ~chosen[e].resumed => secured = FullSecured(Client)
    /\ e = Client /\ chosen[e].resumed => secured = held.secured
    /\ e = Server /\ chosen[e].resumed =>
           secured = chosen[Server].session.secured

\* It then has the other's view, if the other concluded, and it resumes only
\* what both of them know.
LEMMA ConcludingView ==
    ASSUME Inv, Step, NEW e \in Ends, NEW secured, Concluding(e, secured)
    PROVE  /\ View(e) = NoSession /\ View(e)' # NoSession
           /\ View(e)'.session = secured
           /\ View(Peer(e)) \in {NoSession, View(e)'}
           /\ View(e)'.resumed \in BOOLEAN
           /\ View(e)'.resumed => secured \in known[Client] \cap known[Server]
    <1>c. /\ Concludes(e, secured)
          /\ e = Client /\ ~chosen[e].resumed => secured = FullSecured(Client)
          /\ e = Client /\ chosen[e].resumed => secured = held.secured
          /\ e = Server /\ chosen[e].resumed =>
                 secured = chosen[Server].session.secured
        BY DEF Concluding
    <1>0. \A p \in Ends : Placed(p) /\ Keyed(p)
        BY DEF Inv
    <1>1. session[e] = NoSession /\ readKey[e] = pending[e]
          /\ pending[e] # NoKey
        BY <1>c, <1>0 DEF Concludes, Placed, Late, Over
    <1>2. PICK v : v = [session |-> secured, version |-> chosen[e].version,
                        key |-> readKey[e], resumed |-> chosen[e].resumed]
        OBVIOUS
    <1>3. View(e)' = v
        BY <1>c, <1>2 DEF Concludes, View, KeepsTalk
    <1>4. /\ v # NoSession /\ v.session = secured
          /\ v.resumed = chosen[e].resumed /\ v.resumed \in BOOLEAN
        <2>1. "session" \in DOMAIN v /\ "session" \notin DOMAIN NoSession
            BY <1>2 DEF NoSession
        <2> QED
            BY <1>0, <1>1, <1>2, <2>1 DEF Placed
    <1>5. CASE e = Client /\ ~chosen[e].resumed
        <2>1. /\ InFull(Server) /\ session[Server] # NoSession
              /\ pending[Server] = pending[Client]
              /\ session[Server].secured = secured
              /\ chosen[Server].version = chosen[Client].version
            BY <1>c, <1>5, ClientAgrees
        <2>2. /\ readKey[Server] = pending[Server]
              /\ chosen[Server].resumed \in BOOLEAN
            BY <1>0, <2>1, EndTypes DEF Keyed, Placed
        <2>3. chosen[Server].resumed = chosen[Client].resumed
            BY <1>4, <1>5, <2>1, <2>2 DEF InFull
        <2>4. View(Server) = v
            BY <1>1, <1>2, <1>5, <2>1, <2>2, <2>3 DEF View
        <2> QED
            BY <1>1, <1>3, <1>4, <1>5, <2>4, EndTypes DEF View
    <1>6. CASE e = Client /\ chosen[e].resumed
        <2>1. /\ session[Server] = NoSession
              /\ secured \in known[Client] /\ secured \in known[Server]
            BY <1>c, <1>6, ClientTakesUp
        <2>2. View(Server) = NoSession
            BY <2>1 DEF View
        <2> QED
            BY <1>1, <1>3, <1>4, <1>6, <2>1, <2>2, EndTypes DEF View
    <1>7. CASE e = Server /\ ~chosen[e].resumed
        <2>1. session[Client] = NoSession
            BY <1>c, <1>7, ServerLeads
        <2>2. View(Client) = NoSession
            BY <2>1 DEF View
        <2> QED
            BY <1>1, <1>3, <1>4, <1>7, <2>2, EndTypes DEF View
    <1>8. CASE e = Server /\ chosen[e].resumed
        <2>1. /\ InResumption(Client) /\ session[Client] # NoSession
              /\ pending[Server] = pending[Client]
              /\ session[Client].secured = secured
              /\ secured \in known[Client] /\ secured \in known[Server]
              /\ chosen[Server].version = chosen[Client].version
            BY <1>c, <1>8, ServerAgrees
        <2>2. /\ readKey[Client] = pending[Client]
              /\ chosen[Client].resumed \in BOOLEAN
            BY <1>0, <2>1, EndTypes DEF Keyed, Placed
        <2>3. chosen[Server].resumed = chosen[Client].resumed
            BY <1>4, <1>8, <2>1, <2>2 DEF InResumption
        <2>4. View(Client) = v
            BY <1>1, <1>2, <1>8, <2>1, <2>2, <2>3 DEF View
        <2> QED
            BY <1>1, <1>3, <1>4, <1>8, <2>1, <2>4, EndTypes DEF View
    <1> QED
        BY <1>5, <1>6, <1>7, <1>8 DEF Ends

\* A step in which no end concludes.
Inconclusive ==
    /\ known' = known
    /\ \A e \in Ends : session'[e] = session[e]

LEMMA WhoConcludes ==
    ASSUME Step
    PROVE  Inconclusive \/ \E e \in Ends : \E secured : Concluding(e, secured)
    <1>1. CASE NetworkStep
        BY <1>1 DEF NetworkStep, Stays, KeepsMemory, Inconclusive, Ends
    <1>2. CASE ClientStep
        <2>1. CASE /\ KeepsMemory
                   /\ \/ Stops(Client) \/ Switches(Client)
                      \/ Greets \/ HearsHello \/ Verifies \/ TakesTicket
            BY <1>2, <2>1
            DEF ClientStep, KeepsMemory, Stops, Switches, Greets, HearsHello,
                Verifies, TakesTicket, Stays, Inconclusive, Ends
        <2>2. CASE ~chosen[Client].resumed
                   /\ ClientConcludes(FullSecured(Client))
            BY <1>2, <2>2, EndTypes, EndsAssumption
            DEF ClientStep, ClientConcludes, Concluding
        <2>3. CASE chosen[Client].resumed /\ ClientConcludes(held.secured)
            BY <1>2, <2>3, EndTypes, EndsAssumption
            DEF ClientStep, ClientConcludes, Concluding
        <2> QED
            BY <1>2, <2>1, <2>2, <2>3 DEF ClientStep
    <1>3. CASE ServerStep
        <2>1. CASE /\ KeepsMemory
                   /\ \/ Stops(Server) \/ Switches(Server)
                      \/ TakesSession \/ Negotiates \/ HearsClient
            BY <1>3, <2>1
            DEF ServerStep, KeepsMemory, Stops, Switches, TakesSession,
                Negotiates, HearsClient, KeepsKeys, Stays, Inconclusive, Ends
        <2>2. CASE ~chosen[Server].resumed
                   /\ ServerConcludes(FullSecured(Server))
            BY <1>3, <2>2, EndTypes, EndsAssumption
            DEF ServerStep, ServerConcludes, Concluding
        <2>3. CASE /\ chosen[Server].resumed
                   /\ ServerConcludes(chosen[Server].session.secured)
            BY <1>3, <2>3, EndTypes, EndsAssumption
            DEF ServerStep, ServerConcludes, Concluding
        <2> QED
            BY <1>3, <2>1, <2>2, <2>3 DEF ServerStep
    <1> QED
        BY <1>1, <1>2, <1>3 DEF Step

\* Two ends that meet again and again implement SessionAgreement: the second
\* to conclude does so on what the first concluded on, and what is resumed,
\* from the cache or from a ticket, is a session that both concluded on.
THEOREM AgreementRefined == Spec => ImplementsAgreement
    <1> DEFINE view == [e \in Ends |-> View(e)]
    <1>1. Init => Agreed!Init
        BY DEF Init, FreshConnections, Agreed!Init, Agreed!Ends, Ends, View
    <1>2. Inv /\ [Next]_vars => [Agreed!Next]_<<view, known>>
        <2>1. SUFFICES ASSUME Inv, Step \/ NextRound
                       PROVE  [Agreed!Next]_<<view, known>>
            BY NextStep
        <2>2. CASE NextRound
            <3>1. \A e \in Ends : View(e)' = NoSession
                BY <2>2 DEF NextRound, View
            <3>2. view' = [e \in Ends |-> NoSession] /\ known' = known
                BY <2>2, <3>1 DEF NextRound
            <3> QED
                BY <3>2 DEF Agreed!Next, Agreed!Meet, Agreed!Ends, Ends
        <2>3. CASE Step /\ Inconclusive
            <3>1. \A e \in Ends : View(e)' = View(e)
                BY <2>1, <2>3, ViewStays DEF Inconclusive
            <3>2. view' = view /\ known' = known
                BY <2>3, <3>1 DEF Inconclusive
            <3> QED
                BY <3>2
        <2>4. ASSUME Step, NEW e \in Ends, NEW secured, Concluding(e, secured)
              PROVE  Agreed!Full(e) \/ Agreed!Resumption(e)
            <3>1. /\ View(e) = NoSession /\ View(e)' # NoSession
                  /\ View(e)'.session = secured
                  /\ View(Peer(e)) \in {NoSession, View(e)'}
                  /\ View(e)'.resumed \in BOOLEAN
                  /\ View(e)'.resumed =>
                         secured \in known[Client] \cap known[Server]
                BY <2>1, <2>4, ConcludingView
            <3>2. /\ Peer(e) \in Ends /\ Peer(e) # e /\ Ends = {e, Peer(e)}
                  /\ Peer(e) = Agreed!Other(e)
                BY EndsAssumption DEF Peer, Ends, Agreed!Other
            <3>3. View(Peer(e))' = View(Peer(e))
                BY <2>1, <2>4, <3>2, ViewStays DEF Concluding, Stays
            <3>4. PICK v : v = View(e)'
                OBVIOUS
            <3>5. /\ view[e] = NoSession /\ view'[e] = v
                  /\ view[Peer(e)] = View(Peer(e))
                BY <3>1, <3>2, <3>4
            <3>6. view' = [view EXCEPT ![e] = v]
                BY <3>2, <3>3, <3>4
            <3>7. known' = [known EXCEPT ![e] = @ \cup {secured}]
                BY <2>4 DEF Concluding, Concludes
            <3>8. /\ view[e] = NoSession /\ view'[e] # NoSession
                  /\ view' = [view EXCEPT ![e] = view'[e]]
                  /\ view[Agreed!Other(e)] \in {NoSession, view'[e]}
                  /\ known' = [known EXCEPT ![e] = @ \cup {view'[e].session}]
                  /\ view'[e].resumed \in BOOLEAN
                  /\ view'[e].resumed =>
                         view'[e].session \in known[Client] \cap known[Server]
                <4> HIDE DEF view
                <4> QED
                    BY <3>1, <3>2, <3>4, <3>5, <3>6, <3>7
            <3>9. Agreed!Concludes(e)
                BY ONLY <3>8, Zenon DEF Agreed!Concludes
            <3> QED
                BY ONLY <3>8, <3>9, Zenon DEF Agreed!Full, Agreed!Resumption
        <2>5. CASE Step
            BY <2>3, <2>4, <2>5, WhoConcludes
            DEF Agreed!Next, Agreed!Ends, Ends
        <2> QED
            BY <2>1, <2>2, <2>5
    <1> QED
        BY <1>1, <1>2, Invariance, PTL
        DEF Spec, ImplementsAgreement, Agreed!Spec
=============================================================================
