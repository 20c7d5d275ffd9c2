-------------------------- MODULE Handshake13Proofs ---------------------------
(***************************************************************************)
(* The TLS 1.3 handshake, for any settings of the two ends, any number of  *)
(* breaks of the network and of damaged records: the server only concludes *)
(* on what the client concluded on (the refinement of Agreement), the      *)
(* certificate its session names is the client's, and a handshake that     *)
(* failed leaves no session that can be resumed.  Without a fault of the   *)
(* network no end meets a record it cannot open, and a handshake only      *)
(* fails over the settings or because a checker rejects the peer.          *)
(*                                                                         *)
(* The argument is about transcripts.  A record sealed with a handshake    *)
(* key was said by an end that had the transcript the key is named by; its *)
(* place in the speaker's transcript is given by that key and its number.  *)
(* An end that opens a record has the same key, hence the same transcript, *)
(* and appends the message the speaker appended: the server's flight makes *)
(* the client's transcript a prefix of the server's, and from there on     *)
(* what the server reads makes its own one a prefix of the client's, up to *)
(* the client's Finished, which is the last message of both.               *)
(*                                                                         *)
(* The proof has three layers: what each action does, sorted into a few    *)
(* kinds of steps of one end; the inductive invariant, from these kinds    *)
(* alone; and the theorems.                                                *)
(*                                                                         *)
(* The last part is about handshakes without faults.  There the settings   *)
(* and the outcome of the server's proof decide every message, and the two *)
(* ends are in one of some twenty situations, each of which says what is   *)
(* on the wire, sealed with which key and number: the course of the        *)
(* handshake.  Every action leads from a situation to a situation.         *)
(***************************************************************************)
EXTENDS Handshake13, SequenceTheorems, NumberTheorems, TLAPS

-----------------------------------------------------------------------------
(***************************************************************************)
(* The inductive invariant.                                                *)
(***************************************************************************)
IsSeq(s) == s \in Seq(ToSet(s))

Prefix(s, t) == Len(s) <= Len(t) /\ \A i \in 1..Len(s) : s[i] = t[i]

Places == {"start", "send_hello", "wait_hello", "send_second", "wait_retry",
           "wait_flight", "send_cert", "send_verify", "send_finished",
           "send_retry", "wait_second", "send_answer", "send_flight",
           "wait_cert", "wait_verify", "wait_finished", "send_tickets",
           "salvage", "salvage_tickets", "send_alert", "send_reject",
           "done", "failed"}

\* The client before it answers the server's flight, and while it does.
Greeting == {"start", "send_hello", "wait_hello", "send_second", "wait_retry"}
Opening == Greeting \cup {"wait_flight"}
Answering == {"send_cert", "send_verify", "send_finished"}
\* The server before its flight, and while it reads the client's answer.
Choosing == {"wait_hello", "send_retry", "wait_second", "send_answer"}
Checking == {"wait_cert", "wait_verify", "wait_finished"}
\* An end that has a session.
Concluded == {"send_tickets", "salvage_tickets", "send_reject", "done",
              "failed"}

\* Records have the fields they are read by.
IsRecord(r) ==
    r = [msg |-> r.msg, key |-> r.key, seq |-> r.seq, intact |-> r.intact]
IsState(s) == s = [key |-> s.key, seq |-> s.seq] /\ s.seq \in Nat
IsChoice(c) == c = [group |-> c.group, psk |-> c.psk, scheme |-> c.scheme,
                    request |-> c.request]
ForApplication(s) == IsState(s) /\ s.key.epoch = "app"

\* Only an end that concluded has a session: it names what was chosen, and
\* the transcripts its secrets were derived from.
Concludes(e, cert) == NewSession(e, cert, WithoutLast(hash[e]), hash[e])
SessionOf(e) ==
    [group |-> choice[e].group, psk |-> choice[e].psk,
     scheme |-> choice[e].scheme, clientCert |-> session[e].clientCert,
     master |-> master[e], exporter |-> WithoutLast(hash[e]),
     resumption |-> hash[e], resumable |-> session[e].resumable]
IsSession(e) ==
    \/ session[e] = NoSession
    \/ session[e] = SessionOf(e) /\ at[e] \in Concluded
Sessions == \A e \in Ends : IsSession(e)

\* A record sealed with a handshake key, and not damaged since.
Handshaking(r) == r.intact /\ r.key.epoch = "hs"
\* The records of an end that its peer has not read.
UnderWay(e) == ToSet(wire[e]) \cup ToSet(out[e])

\* The type invariant: each variable is a function of the two ends, each
\* place is one of those named, sequences are sequences, records records.
Maps ==
    /\ setup \in Setups
    /\ at \in [Ends -> Places]
    /\ writeState = [e \in Ends |-> writeState[e]]
    /\ readState = [e \in Ends |-> readState[e]]
    /\ pending = [e \in Ends |-> pending[e]]
    /\ hash = [e \in Ends |-> hash[e]]
    /\ choice = [e \in Ends |-> choice[e]]
    /\ master = [e \in Ends |-> master[e]]
    /\ session = [e \in Ends |-> session[e]]
    /\ wire = [e \in Ends |-> wire[e]]
    /\ out = [e \in Ends |-> out[e]]

Shape ==
    /\ Maps
    /\ \A e \in Ends :
        /\ IsSeq(hash[e]) /\ IsSeq(master[e]) /\ IsSeq(wire[e])
        /\ IsSeq(out[e])
        /\ \A r \in UnderWay(e) : IsRecord(r)
        /\ IsState(writeState[e]) /\ IsState(readState[e])
        /\ IsChoice(choice[e])

\* An end chose what the ServerHello and the flight at the end of a transcript
\* say: equal transcripts make equal choices.
Chosen(e, sh, flight) ==
    /\ choice[e].group = sh.msg.group
    /\ choice[e].psk = sh.msg.psk
    /\ choice[e].scheme = flight.msg.scheme
ChosenFrom(e, t) == Len(t) >= 2 /\ Chosen(e, t[Len(t) - 1], t[Len(t)])

\* The handshake key of the ends that agree on t, the transcript up to the
\* server's flight: it was derived from the one up to the ServerHello.
HandshakeKey(t) == [epoch |-> "hs", hash |-> WithoutLast(t)]

\* The client has no key before it gets the ServerHello, and while it waits
\* for the flight the keys of the transcript it has.
ClientOpening ==
    /\ at[Client] \in Opening =>
        /\ master[Client] = <<>>
        /\ writeState[Client].key = NoKey
    /\ at[Client] = "wait_flight" =>
        /\ hash[Client] # <<>>
        /\ readState[Client] = KeyedBy("hs", hash[Client])
        /\ pending[Client].write = KeyedBy("hs", hash[Client])
        /\ choice[Client].group = hash[Client][Len(hash[Client])].msg.group
        /\ choice[Client].psk = hash[Client][Len(hash[Client])].msg.psk

\* What an end said or read after the server's flight.
Answers(e) == (Len(master[e]) + 1) .. Len(hash[e])
\* The transcript up to the flight that the client verified is the server's;
\* the client numbers what it says by its place after the flight, and says
\* nothing after its Finished.
ClientAnswering ==
    /\ master[Client] # <<>> =>
        /\ ChosenFrom(Client, master[Client])
        /\ Prefix(master[Client], hash[Client])
        /\ Prefix(master[Client], hash[Server])
        /\ \A i \in Answers(Client) : hash[Client][i].msg.type = "finished" =>
              i = Len(hash[Client])
    /\ at[Client] \in Answering =>
        /\ master[Client] # <<>>
        /\ writeState[Client] =
              [key |-> HandshakeKey(master[Client]),
               seq |-> Len(hash[Client]) - Len(master[Client])]
    /\ at[Client] = "send_finished" => ForApplication(pending[Client].write)
    /\ at[Client] \in {"send_cert", "send_verify"} =>
        \A i \in Answers(Client) : hash[Client][i].msg.type # "finished"

\* A protected record of the client's handshake is the message at the place
\* in the client's transcript that its number gives.  When its Finished is
\* on the wire, the client has concluded.
ClientRecords ==
    /\ \A r \in UnderWay(Client) : Handshaking(r) =>
        /\ master[Client] # <<>>
        /\ r.key = HandshakeKey(master[Client])
        /\ r.seq \in Nat
        /\ Len(master[Client]) + r.seq + 1 \in Answers(Client)
        /\ hash[Client][Len(master[Client]) + r.seq + 1] = Seen(r.msg)
        /\ r.msg.type = "certificate" => r.msg.cert = client.cert
    /\ \A r \in ToSet(wire[Client]) :
          Handshaking(r) /\ r.msg.type = "finished" =>
             session[Client] # NoSession
    /\ at[Client] \notin Answering =>
          \A r \in ToSet(out[Client]) : ~Handshaking(r)

\* The server's choice is what its ServerHello and its flight say.
ServerOpening ==
    /\ at[Server] \in Choosing =>
       /\ master[Server] = <<>>
       /\ writeState[Server].key = NoKey
    /\ at[Server] = "send_answer" =>
       /\ hash[Server] # <<>>
       /\ choice[Server].group = hash[Server][Len(hash[Server])].msg.group
       /\ choice[Server].psk = hash[Server][Len(hash[Server])].msg.psk
    /\ at[Server] = "send_flight" =>
       /\ ChosenFrom(Server, hash[Server])
       /\ pending[Server].read = [key |-> HandshakeKey(hash[Server]),
                                  seq |-> 0]

\* The server numbers what it reads after its flight likewise; once it read
\* something, both ends agree on all it has.
ServerChecking ==
    at[Server] \in Checking =>
       /\ ChosenFrom(Server, master[Server])
       /\ Prefix(master[Server], hash[Server])
       /\ readState[Server] =
             [key |-> HandshakeKey(master[Server]),
              seq |-> Len(hash[Server]) - Len(master[Server])]
       /\ ForApplication(pending[Server].read)
       /\ hash[Server] # master[Server] =>
             /\ master[Client] = master[Server]
             /\ Prefix(hash[Server], hash[Client])

\* A protected record of the server's handshake is its flight, in answer to
\* the transcript the key is named by.
ServerRecords ==
    \A r \in UnderWay(Server) : Handshaking(r) =>
        /\ r.seq = 0
        /\ IsSeq(r.key.hash) /\ Len(r.key.hash) < Len(hash[Server])
        /\ Prefix(r.key.hash, hash[Server])
        /\ hash[Server][Len(r.key.hash) + 1] = Seen(r.msg)

\* An end that may send an alert or data has no handshake key to seal it.
Speaks ==
    \A e \in Ends : at[e] \in Waiting \cup {"done", "send_tickets"} =>
        writeState[e].key.epoch # "hs"

\* What the server keeps of the client's certificate is what the client has.
CertificateSeen ==
    /\ choice[Server].psk \in BOOLEAN
    /\ at[Server] \in {"send_answer", "send_flight"} \cup Checking =>
            choice[Server].request = (server.reqCert /\ ~choice[Server].psk)
    /\ at[Server] \in Choosing \cup {"send_flight", "wait_cert"} =>
          clientCert = "none"
    /\ at[Server] \in {"wait_cert", "wait_verify"} => choice[Server].request
    /\ at[Server] = "wait_verify" => clientCert = client.cert
    /\ at[Server] = "wait_finished" =>
          clientCert = (IF choice[Server].request THEN client.cert ELSE "none")

\* The views of two ends that concluded are the same.
Agreeing == session[Server] # NoSession => View(Server) = View(Client)
-----------------------------------------------------------------------------
(***************************************************************************)
(* The kinds of steps: what a step does to one end, and to the records on  *)
(* a wire, as far as the invariant is concerned.                           *)
(***************************************************************************)
\* The transcript and the choice of an end stay as they are.
KeepsTalk(e) ==
    hash'[e] = hash[e] /\ master'[e] = master[e] /\ choice'[e] = choice[e]

Stays(e) ==
    /\ KeepsTalk(e)
    /\ at'[e] = at[e] /\ out'[e] = out[e] /\ session'[e] = session[e]
    /\ writeState'[e] = writeState[e] /\ readState'[e] = readState[e]
    /\ pending'[e] = pending[e]

\* The application writes or reads.
Uses(e) ==
    /\ at[e] = "done" /\ at'[e] = "done"
    /\ KeepsTalk(e)
    /\ out'[e] = out[e] /\ session'[e] = session[e]
    /\ IsState(writeState'[e]) /\ writeState'[e].key = writeState[e].key
    /\ IsState(readState'[e])

\* What an end is sending: well formed, without a protected handshake message.
NoHandshakeRecord(s) == \A r \in ToSet(s) : ~Handshaking(r)
Fresh(s) == IsSeq(s) /\ \A r \in ToSet(s) : IsRecord(r)

\* The end gives up, sends an alert, or is done with what it was sending.  It
\* may drop its session, and has dropped it once it failed.
Stops(e) ==
    /\ at'[e] \in Concluded \cup {"send_alert", "salvage"}
    /\ at[e] \in Concluded => at'[e] \in Concluded
    /\ KeepsTalk(e)
    /\ session'[e] \in {session[e], [session[e] EXCEPT !.resumable = FALSE]}
    /\ at'[e] = "failed" => ~session'[e].resumable
    /\ IsState(writeState'[e]) /\ IsState(readState'[e])
    /\ at'[e] \in {"done", "send_tickets"} => writeState'[e].key.epoch # "hs"
    /\ Fresh(out'[e]) /\ NoHandshakeRecord(out'[e])

\* A handshake record on the wire was on it before, or the end sent it: the
\* client has concluded when it sent its Finished.
Carries(e) ==
    /\ IsSeq(wire'[e])
    /\ \A r \in ToSet(wire'[e]) :
        /\ IsRecord(r)
        /\ Handshaking(r) =>
             \/ r \in ToSet(wire[e])
             \/ /\ r \in ToSet(out[e])
                /\ at[e] = "send_finished" => session'[e] # NoSession

\* The client up to the ServerHello: hellos, without a key.
Greets ==
    /\ at[Client] \in Greeting /\ at'[Client] \in Greeting
    /\ master'[Client] = master[Client] /\ choice'[Client] = choice[Client]
    /\ session'[Client] = session[Client]
    /\ writeState'[Client] = writeState[Client]
    /\ readState'[Client] = readState[Client]
    /\ IsSeq(hash'[Client])
    /\ Fresh(out'[Client]) /\ NoHandshakeRecord(out'[Client])

\* It gets the ServerHello.
HearsServer ==
    /\ at[Client] \in Greeting /\ at'[Client] = "wait_flight"
    /\ master'[Client] = master[Client]
    /\ session'[Client] = session[Client]
    /\ writeState'[Client] = writeState[Client]
    /\ readState'[Client] = KeyedBy("hs", hash'[Client])
    /\ pending'[Client].write = KeyedBy("hs", hash'[Client])
    /\ IsChoice(choice'[Client])
    /\ IsSeq(hash'[Client]) /\ hash'[Client] # <<>>
    /\ choice'[Client].group = hash'[Client][Len(hash'[Client])].msg.group
    /\ choice'[Client].psk = hash'[Client][Len(hash'[Client])].msg.psk
    /\ out'[Client] = <<>>

\* It says one message of its answer: t is its transcript so far.
Says(state, t, answer) ==
    /\ hash'[Client] = Append(t, Seen(answer))
    /\ writeState'[Client] = Advanced(state)
    /\ Fresh(out'[Client])
    /\ \A r \in ToSet(out'[Client]) : Handshaking(r) =>
          r.msg = answer /\ r.key = state.key /\ r.seq = state.seq
    /\ answer.type = "certificate" => answer.cert = client.cert
    /\ answer.type = "finished" <=> at'[Client] = "send_finished"
    /\ at'[Client] = "send_finished" => ForApplication(pending'[Client].write)
    /\ session'[Client] = session[Client]
    /\ IsState(readState'[Client])

\* It verifies the flight and begins to answer.
Verifies(answer) ==
    LET r == Upcoming(Client)
    IN  /\ at[Client] = "wait_flight"
        /\ at'[Client] \in {"send_cert", "send_finished"}
        /\ Incoming(Client) /\ Opens(Client)
        /\ master'[Client] = Append(hash[Client],
                                    [msg |-> r.msg, intact |-> r.intact])
        /\ IsChoice(choice'[Client])
        /\ choice'[Client].group = choice[Client].group
        /\ choice'[Client].psk = choice[Client].psk
        /\ choice'[Client].scheme = r.msg.scheme
        /\ Says(pending[Client].write, master'[Client], answer)

\* It says the next message of its answer.
GoesOn(answer) ==
    /\ at[Client] \in {"send_cert", "send_verify"}
    /\ at'[Client] \in {"send_verify", "send_finished"}
    /\ master'[Client] = master[Client] /\ choice'[Client] = choice[Client]
    /\ Says(writeState[Client], hash[Client], answer)

\* Its Finished was sent.
ClientConcludes ==
    /\ at[Client] = "send_finished" /\ at'[Client] \in {"send_reject", "done"}
    /\ KeepsTalk(Client)
    /\ session'[Client] = Concludes(Client, client.cert)
    /\ IsState(writeState'[Client]) /\ writeState'[Client].key.epoch # "hs"
    /\ IsState(readState'[Client])
    /\ Fresh(out'[Client]) /\ NoHandshakeRecord(out'[Client])

ClientMoves ==
    \/ Greets
    \/ HearsServer
    \/ \E answer : Verifies(answer)
    \/ \E answer : GoesOn(answer)
    \/ ClientConcludes
    \/ Stops(Client)

ClientStep == ClientMoves /\ Stays(Server) /\ clientCert' = clientCert
Wires == Carries(Client) /\ Carries(Server)

\* The server up to its ServerHello: it reads hellos, without a key.
Chooses ==
    /\ at[Server] \in {"wait_hello", "send_retry", "wait_second"}
    /\ at'[Server] \in Choosing
    /\ master'[Server] = master[Server] /\ session'[Server] = session[Server]
    /\ writeState'[Server] = writeState[Server]
    /\ readState'[Server] = readState[Server]
    /\ IsChoice(choice'[Server]) /\ choice'[Server].psk \in BOOLEAN
    /\ IsSeq(hash'[Server]) /\ Prefix(hash[Server], hash'[Server])
    /\ Fresh(out'[Server]) /\ NoHandshakeRecord(out'[Server])
    /\ at'[Server] = "send_answer" =>
        /\ hash'[Server] # <<>>
        /\ choice'[Server].group = hash'[Server][Len(hash'[Server])].msg.group
        /\ choice'[Server].psk = hash'[Server][Len(hash'[Server])].msg.psk
        /\ choice'[Server].request = (server.reqCert /\ ~choice'[Server].psk)

\* It makes its flight, m, with the signature or the DVNIZK proof.
Proves(m) ==
    /\ at[Server] = "send_answer" /\ at'[Server] = "send_flight"
    /\ master'[Server] = master[Server] /\ session'[Server] = session[Server]
    /\ choice'[Server] = choice[Server]
    /\ IsState(writeState'[Server]) /\ readState'[Server] = readState[Server]
    /\ pending'[Server].read = KeyedBy("hs", hash[Server])
    /\ hash'[Server] = Append(hash[Server], Seen(m))
    /\ m.scheme = choice[Server].scheme
    /\ Fresh(out'[Server])
    /\ \A r \in ToSet(out'[Server]) : Handshaking(r) =>
          r.msg = m /\ r.key = KeyedBy("hs", hash[Server]).key /\ r.seq = 0

\* The flight was sent: it reads with the handshake key.
Settles ==
    /\ at[Server] = "send_flight"
    /\ at'[Server] =
          IF choice[Server].request THEN "wait_cert" ELSE "wait_finished"
    /\ hash'[Server] = hash[Server] /\ master'[Server] = hash[Server]
    /\ choice'[Server] = choice[Server] /\ session'[Server] = session[Server]
    /\ readState'[Server] = pending[Server].read
    /\ ForApplication(pending'[Server].read)
    /\ IsState(writeState'[Server]) /\ writeState'[Server].key.epoch = "app"
    /\ out'[Server] = <<>>

\* It reads a message of the client's answer.
Hears ==
    LET r == Upcoming(Server)
    IN  /\ Incoming(Server) /\ Opens(Server)
        /\ IsRecord(r) /\ r \in ToSet(wire[Client])
        /\ hash'[Server] = Append(hash[Server],
                                  [msg |-> r.msg, intact |-> r.intact])
        /\ master'[Server] = master[Server] /\ choice'[Server] = choice[Server]

\* The message is not the last one.
Checks ==
    /\ Hears
    /\ session'[Server] = session[Server]
    /\ readState'[Server] = Counted(Server)
    /\ writeState'[Server] = writeState[Server]
    /\ pending'[Server] = pending[Server]
    /\ out'[Server] = <<>>
    /\ \/ /\ at[Server] = "wait_cert"
          /\ Upcoming(Server).msg.type = "certificate"
          /\ clientCert' = Upcoming(Server).msg.cert
          /\ at'[Server] =
                IF clientCert' = "none" THEN "wait_finished" ELSE "wait_verify"
       \/ /\ at[Server] = "wait_verify" /\ at'[Server] = "wait_finished"
          /\ clientCert' = clientCert

\* The message is the client's Finished.
ServerConcludes ==
    /\ Hears
    /\ at[Server] = "wait_finished" /\ Upcoming(Server).msg.type = "finished"
    /\ at'[Server] \in {"send_tickets", "send_reject", "done"}
    /\ session'[Server] = NewSession(Server, SessionCert, hash[Server],
                                     hash'[Server])
    /\ IsState(writeState'[Server]) /\ writeState'[Server].key.epoch # "hs"
    /\ IsState(readState'[Server])
    /\ Fresh(out'[Server]) /\ NoHandshakeRecord(out'[Server])

ServerMoves ==
    \/ (Chooses \/ (\E m : Proves(m)) \/ Settles \/ ServerConcludes
       \/ Stops(Server))
       /\ clientCert' = clientCert
    \/ Checks

ServerStep == ServerMoves /\ Stays(Client)
-----------------------------------------------------------------------------
(***************************************************************************)
(* Sequences.                                                              *)
(***************************************************************************)
LEMMA SeqFacts ==
    ASSUME NEW s, IsSeq(s)
    PROVE  /\ Len(s) \in Nat
           /\ DOMAIN s = 1..Len(s)
           /\ s # <<>> => Len(s) > 0
           /\ \A i \in 1..Len(s) : s[i] \in ToSet(s)
    <1>1. s \in Seq(ToSet(s))
        BY DEF IsSeq
    <1>2. /\ Len(s) \in Nat
          /\ DOMAIN s = 1..Len(s)
        BY <1>1, LenProperties
    <1>3. s # <<>> => Len(s) > 0
        BY <1>1, EmptySeq
    <1> QED
        BY <1>2, <1>3 DEF ToSet

LEMMA EmptyFacts ==
    IsSeq(<<>>) /\ Len(<<>>) = 0 /\ ToSet(<<>>) = {}
    <1>1. <<>> \in Seq({}) /\ Len(<<>>) = 0
        BY EmptySeq
    <1>2. DOMAIN <<>> = 1..0
        BY <1>1, LenProperties
    <1>3. ToSet(<<>>) = {}
        BY <1>2 DEF ToSet
    <1> QED
        BY <1>1, <1>3 DEF IsSeq

\* Sequences are equal when their elements are.
LEMMA SameSeq ==
    ASSUME NEW s, NEW t, IsSeq(s), IsSeq(t), Len(s) = Len(t),
           \A i \in 1..Len(s) : s[i] = t[i]
    PROVE  s = t
    <1> DEFINE S == ToSet(s) \cup ToSet(t)
    <1>1. s \in Seq(S) /\ t \in Seq(S)
        BY SeqMonotonic DEF IsSeq
    <1> QED
        BY <1>1, SeqEqual

LEMMA AppendFacts ==
    ASSUME NEW s, IsSeq(s), NEW x
    PROVE  /\ IsSeq(Append(s, x))
           /\ Append(s, x) # <<>>
           /\ Len(Append(s, x)) = Len(s) + 1
           /\ \A i \in 1..Len(s) : Append(s, x)[i] = s[i]
           /\ Append(s, x)[Len(s) + 1] = x
    <1> DEFINE S == ToSet(s) \cup {x}
    <1>1. s \in Seq(S)
        BY SeqMonotonic DEF IsSeq
    <1>2. /\ Append(s, x) \in Seq(S)
          /\ Append(s, x) # <<>>
          /\ Len(Append(s, x)) = Len(s) + 1
          /\ \A i \in 1..Len(s) : Append(s, x)[i] = s[i]
          /\ Append(s, x)[Len(s) + 1] = x
        BY <1>1, AppendProperties
    <1> DEFINE t == Append(s, x)
    <1>3. Len(s) \in Nat
        BY SeqFacts
    <1>4. DOMAIN t = 1..(Len(s) + 1) /\ DOMAIN s = 1..Len(s)
        BY <1>2, LenProperties, SeqFacts
    <1>5. S \subseteq ToSet(t)
        BY <1>2, <1>3, <1>4 DEF ToSet
    <1>6. t \in Seq(ToSet(t))
        BY <1>2, <1>5, SeqMonotonic
    <1> QED
        BY <1>2, <1>6 DEF IsSeq

LEMMA SubSeqFacts ==
    ASSUME NEW s, IsSeq(s), NEW n \in 0..Len(s)
    PROVE  /\ IsSeq(SubSeq(s, 1, n))
           /\ Len(SubSeq(s, 1, n)) = n
           /\ \A i \in 1..n : SubSeq(s, 1, n)[i] = s[i]
           /\ ToSet(SubSeq(s, 1, n)) \subseteq ToSet(s)
    <1> DEFINE t == SubSeq(s, 1, n)
               S == {s[i] : i \in 1..n}
    <1>0. Len(s) \in Nat /\ DOMAIN s = 1..Len(s)
        BY SeqFacts
    <1>1. /\ t \in Seq(S)
          /\ Len(t) = IF 1 <= n THEN n - 1 + 1 ELSE 0
          /\ \A i \in 1..(n - 1 + 1) : t[i] = s[1 + i - 1]
        BY <1>0, SubSeqProperties
    <1>2. Len(t) = n /\ \A i \in 1..n : t[i] = s[i]
        BY <1>0, <1>1
    <1>3. DOMAIN t = 1..n
        BY <1>1, <1>2, LenProperties
    <1>4. ToSet(t) = S
        BY <1>2, <1>3 DEF ToSet
    <1>5. S \subseteq ToSet(s)
        BY <1>0 DEF ToSet
    <1> QED
        BY <1>1, <1>2, <1>4, <1>5 DEF IsSeq

LEMMA TailFacts ==
    ASSUME NEW s, IsSeq(s), s # <<>>
    PROVE  /\ Head(s) \in ToSet(s)
           /\ IsSeq(Tail(s))
           /\ ToSet(Tail(s)) \subseteq ToSet(s)
    <1> DEFINE t == Tail(s)
    <1>1. s \in Seq(ToSet(s))
        BY DEF IsSeq
    <1>2. /\ Head(s) \in ToSet(s)
          /\ t \in Seq(ToSet(s))
        BY <1>1, HeadTailProperties
    <1>3. DOMAIN t = 1..Len(t)
        BY <1>2, LenProperties
    <1>4. \A i \in 1..Len(t) : t[i] \in ToSet(s)
        BY <1>2, ElementOfSeq
    <1>5. ToSet(t) \subseteq ToSet(s)
        BY <1>3, <1>4 DEF ToSet
    <1>6. t \in Seq(ToSet(t))
        <2>1. t \in [1..Len(t) -> ToSet(s)] /\ Len(t) \in Nat
            BY <1>2, LenProperties
        <2>2. t \in [1..Len(t) -> ToSet(t)]
            BY <2>1 DEF ToSet
        <2> QED
            BY <2>1, <2>2, SeqDef
    <1> QED
        BY <1>2, <1>5, <1>6 DEF IsSeq

LEMMA ConcatFacts ==
    ASSUME NEW s, IsSeq(s), NEW t, IsSeq(t)
    PROVE  /\ IsSeq(s \o t)
           /\ ToSet(s \o t) = ToSet(s) \cup ToSet(t)
    <1> DEFINE S == ToSet(s) \cup ToSet(t)
               u == s \o t
    <1>1. s \in Seq(S) /\ t \in Seq(S)
        BY SeqMonotonic DEF IsSeq
    <1>2. /\ u \in Seq(S)
          /\ Len(u) = Len(s) + Len(t)
          /\ \A i \in 1..(Len(s) + Len(t)) :
                u[i] = IF i <= Len(s) THEN s[i] ELSE t[i - Len(s)]
        BY <1>1, ConcatProperties
    <1>3. DOMAIN u = 1..Len(u)
        BY <1>2, LenProperties
    <1>4. /\ Len(s) \in Nat /\ DOMAIN s = 1..Len(s)
          /\ Len(t) \in Nat /\ DOMAIN t = 1..Len(t)
        BY SeqFacts
    <1>5. ToSet(u) \subseteq S
        BY <1>2, <1>3, <1>4 DEF ToSet
    <1>6. ToSet(s) \subseteq ToSet(u)
        <2>1. \A i \in 1..Len(s) : i \in DOMAIN u /\ u[i] = s[i]
            BY <1>2, <1>3, <1>4
        <2> QED
            BY <1>4, <2>1 DEF ToSet
    <1>7. ToSet(t) \subseteq ToSet(u)
        <2>1. \A i \in 1..Len(t) : /\ i + Len(s) \in DOMAIN u
                                   /\ u[i + Len(s)] = t[i]
            BY <1>2, <1>3, <1>4
        <2> QED
            BY <1>4, <2>1 DEF ToSet
    <1>8. ToSet(u) = S
        BY <1>5, <1>6, <1>7
    <1> QED
        BY <1>2, <1>8 DEF IsSeq

LEMMA WithoutLastFacts ==
    ASSUME NEW s, IsSeq(s), s # <<>>
    PROVE  /\ IsSeq(WithoutLast(s))
           /\ Len(WithoutLast(s)) = Len(s) - 1
           /\ \A i \in 1..(Len(s) - 1) : WithoutLast(s)[i] = s[i]
    <1>1. Len(s) \in Nat /\ Len(s) > 0
        BY SeqFacts
    <1>2. Len(s) - 1 \in 0..Len(s)
        BY <1>1
    <1> QED
        BY <1>2, SubSeqFacts DEF WithoutLast

\* WithoutLast undoes Append.
LEMMA WithoutLastAppend ==
    ASSUME NEW s, IsSeq(s), NEW x
    PROVE  WithoutLast(Append(s, x)) = s
    <1> DEFINE t == Append(s, x)
    <1>1. IsSeq(t) /\ t # <<>> /\ Len(t) = Len(s) + 1 /\ Len(s) \in Nat
          /\ \A i \in 1..Len(s) : t[i] = s[i]
        BY AppendFacts, SeqFacts
    <1> HIDE DEF t
    <1>2. /\ IsSeq(WithoutLast(t)) /\ Len(WithoutLast(t)) = Len(t) - 1
          /\ \A i \in 1..(Len(t) - 1) : WithoutLast(t)[i] = t[i]
        BY <1>1, WithoutLastFacts
    <1>3. WithoutLast(t) = s
        BY <1>1, <1>2, SameSeq
    <1> QED
        BY <1>3 DEF t

\* What a record says of the message it was made of.
LEMMA SealedFacts ==
    ASSUME NEW state, NEW msgs, IsSeq(msgs)
    PROVE  /\ IsSeq(Sealed(state, msgs))
           /\ \A r \in ToSet(Sealed(state, msgs)) :
                \E m \in ToSet(msgs) :
                    r = [msg |-> m,
                         key |-> IF Protected(state, m) THEN state.key
                                                        ELSE NoKey,
                         seq |-> IF Protected(state, m) THEN state.seq ELSE 0,
                         intact |-> TRUE]
    <1> DEFINE s == Sealed(state, msgs)
               R(m) == [msg |-> m,
                        key |-> IF Protected(state, m) THEN state.key
                                                       ELSE NoKey,
                        seq |-> IF Protected(state, m) THEN state.seq ELSE 0,
                        intact |-> TRUE]
    <1>1. Len(msgs) \in Nat /\ DOMAIN msgs = 1..Len(msgs)
        BY SeqFacts
    <1>2. s = [i \in 1..Len(msgs) |-> R(msgs[i])]
        BY <1>1 DEF Sealed
    <1> HIDE DEF R
    <1>3. s \in [1..Len(msgs) -> ToSet(s)]
        BY <1>2 DEF ToSet
    <1>4. s \in Seq(ToSet(s))
        BY <1>1, <1>3, SeqDef
    <1>5. \A r \in ToSet(s) : \E m \in ToSet(msgs) : r = R(m)
        BY <1>1, <1>2 DEF ToSet
    <1> QED
        BY <1>4, <1>5 DEF IsSeq, R

\* Messages sent together: one or two.
LEMMA OneMessage ==
    ASSUME NEW m
    PROVE  IsSeq(<<m>>) /\ ToSet(<<m>>) = {m}
    <1>1. ToSet(<<m>>) = {m}
        BY DEF ToSet
    <1> QED
        BY <1>1 DEF IsSeq

LEMMA TwoMessages ==
    ASSUME NEW m, NEW n
    PROVE  IsSeq(<<m, n>>) /\ ToSet(<<m, n>>) = {m, n}
    <1>1. ToSet(<<m, n>>) = {m, n}
        BY DEF ToSet
    <1> QED
        BY <1>1 DEF IsSeq

-----------------------------------------------------------------------------
USE EndsAssumption DEF Ends

\* A session dropped cannot be resumed.
LEMMA Dropped ==
    ASSUME NEW e, IsSession(e)
    PROVE  ~[session[e] EXCEPT !.resumable = FALSE].resumable
    BY DEF IsSession, NoSession, SessionOf

\* _shutdown(False): the end stops, with its session dropped.
LEMMA FailStep ==
    ASSUME Shape, Sessions, NEW e \in Ends, Fail(e)
    PROVE  Stops(e) /\ \A p \in Ends \ {e} : Stays(p)
    <1>0. Maps
        BY DEF Shape
    <1>1. session'[e] = [session[e] EXCEPT !.resumable = FALSE]
          /\ \A p \in Ends \ {e} : session'[p] = session[p]
        BY <1>0 DEF Fail, DropSession, Maps
    <1>2. ~session'[e].resumable
        BY <1>1, Dropped DEF Sessions
    <1>3. /\ at'[e] = "failed" /\ out'[e] = <<>>
          /\ \A p \in Ends \ {e} : at'[p] = at[p] /\ out'[p] = out[p]
        BY <1>0 DEF Fail, Goto, Maps
    <1>4. KeepsTalk(e) /\ \A p \in Ends \ {e} : KeepsTalk(p)
        BY DEF Fail, talkVars, KeepsTalk
    <1>5. /\ writeState'[e] = NoState /\ readState'[e] = NoState
          /\ \A p \in Ends \ {e} : /\ writeState'[p] = writeState[p]
                                   /\ readState'[p] = readState[p]
                                   /\ pending'[p] = pending[p]
        BY <1>0 DEF Fail, ResetStates, Maps
    <1>6. IsState(NoState)
        BY DEF IsState, NoState
    <1> QED
        BY <1>1, <1>2, <1>3, <1>4, <1>5, <1>6, EmptyFacts
        DEF Stops, Stays, Concluded, Fresh, NoHandshakeRecord

\* A state that has a key counts the records.
LEMMA AdvancedFacts ==
    ASSUME NEW state, IsState(state)
    PROVE  /\ IsState(Advanced(state)) /\ Advanced(state).key = state.key
           /\ state.key # NoKey => Advanced(state).seq = state.seq + 1
           /\ state.key = NoKey => Advanced(state) = state
    BY DEF IsState, Advanced

\* Sending: the records carry the messages, under the key of the state.
LEMMA SendStep ==
    ASSUME Maps, NEW e \in Ends, NEW state, IsState(state),
           NEW msgs, IsSeq(msgs), NEW where, Send(e, state, msgs, where)
    PROVE  /\ at'[e] = where
           /\ writeState'[e] = Advanced(state)
           /\ Fresh(out'[e])
           /\ \A r \in ToSet(out'[e]) :
                 /\ r.msg \in ToSet(msgs)
                 /\ r.key # NoKey => /\ r.key = state.key /\ r.seq = state.seq
                                     /\ r.msg.type # "ccs"
           /\ \A p \in Ends \ {e} : /\ at'[p] = at[p] /\ out'[p] = out[p]
                                    /\ writeState'[p] = writeState[p]
    <1>1. /\ at'[e] = where
          /\ writeState'[e] = Advanced(state)
          /\ out'[e] = Sealed(state, msgs)
          /\ \A p \in Ends \ {e} : /\ at'[p] = at[p] /\ out'[p] = out[p]
                                   /\ writeState'[p] = writeState[p]
        BY DEF Send, Maps
    <1>2. Fresh(out'[e])
        BY <1>1, SealedFacts DEF Fresh, IsRecord
    <1>3. ASSUME NEW r \in ToSet(out'[e])
          PROVE  /\ r.msg \in ToSet(msgs)
                 /\ r.key # NoKey => /\ r.key = state.key /\ r.seq = state.seq
                                     /\ r.msg.type # "ccs"
        BY <1>1, <1>3, SealedFacts DEF Protected
    <1> QED
        BY <1>1, <1>2, <1>3

\* A completed write moves what was being sent to the wire.
LEMMA SentCarries ==
    ASSUME Shape, NEW e \in Ends, NEW where, Sent(e, where),
           where = "send_finished" => session'[e] # NoSession
    PROVE  Carries(Client) /\ Carries(Server)
    <1>0. /\ Maps
          /\ \A p \in Ends : IsSeq(wire[p]) /\ IsSeq(out[p])
             /\ \A r \in UnderWay(p) : IsRecord(r)
        BY DEF Shape
    <1>1. \A p \in Ends \ {e} : wire'[p] = wire[p]
        BY <1>0 DEF Sent, Maps
    <1>2. wire'[e] = wire[e] \/ wire'[e] = wire[e] \o out[e]
        BY <1>0 DEF Sent, Maps
    <1>3. Carries(e)
        BY <1>0, <1>2, ConcatFacts DEF Carries, UnderWay, Sent
    <1>4. \A p \in Ends \ {e} : Carries(p)
        BY <1>0, <1>1 DEF Carries, UnderWay
    <1> QED
        BY <1>3, <1>4

\* Reading removes one record from the peer's wire.
LEMMA TakeCarries ==
    ASSUME Shape, NEW e \in Ends, Incoming(e), Take(e)
    PROVE  Carries(Client) /\ Carries(Server)
    <1>0. /\ Maps
          /\ \A p \in Ends : IsSeq(wire[p])
             /\ \A r \in UnderWay(p) : IsRecord(r)
        BY DEF Shape
    <1>1. wire'[Peer(e)] = Tail(wire[Peer(e)]) /\ wire'[e] = wire[e]
        BY <1>0 DEF Take, Maps, Peer
    <1>2. Carries(Peer(e))
        BY <1>0, <1>1, TailFacts DEF Carries, UnderWay, Incoming, Peer
    <1>3. Carries(e)
        BY <1>0, <1>1 DEF Carries, UnderWay
    <1> QED
        BY <1>2, <1>3 DEF Peer

LEMMA StillCarries ==
    ASSUME Shape, wire' = wire
    PROVE  Carries(Client) /\ Carries(Server)
    BY DEF Shape, Carries, UnderWay

-----------------------------------------------------------------------------
(***************************************************************************)
(* The client's steps.                                                     *)
(***************************************************************************)
LEMMA NoStateFacts ==
    IsState(NoState) /\ NoState.key = NoKey /\ NoKey.epoch # "hs"
    BY DEF IsState, NoState, NoKey

LEMMA KeyedFacts ==
    ASSUME NEW epoch, NEW t
    PROVE  /\ IsState(KeyedBy(epoch, t))
           /\ KeyedBy(epoch, t).key = [epoch |-> epoch, hash |-> t]
           /\ KeyedBy(epoch, t).seq = 0
    BY DEF KeyedBy, IsState

\* An end without a key seals nothing.
LEMMA StateWithoutKey ==
    ASSUME NEW e \in Ends, IsState(writeState[e]), writeState[e].key = NoKey,
           NEW msgs, IsSeq(msgs), NEW where, Maps,
           Send(e, writeState[e], msgs, where)
    PROVE  writeState'[e] = writeState[e] /\ NoHandshakeRecord(out'[e])
    <1>1. \A r \in ToSet(out'[e]) : r.key = NoKey
        BY SendStep
    <1>2. writeState'[e] = writeState[e]
        BY SendStep, AdvancedFacts
    <1> QED
        BY <1>1, <1>2, NoStateFacts DEF NoHandshakeRecord, Handshaking

LEMMA ClientHelloStep ==
    ASSUME Shape, ClientOpening, SendClientHello
    PROVE  ClientStep /\ Wires
    <1>0. Maps /\ IsState(writeState[Client]) /\ Client \in Ends
          /\ Server \in Ends \ {Client}
        BY DEF Shape
    <1>1. at[Client] = "start" /\ writeState[Client].key = NoKey
        BY DEF SendClientHello, ClientOpening, Opening, Greeting
    <1>2. IsSeq(<<FirstHello>>) /\ IsSeq(<<Seen(FirstHello)>>)
        BY OneMessage
    <1>3. Send(Client, writeState[Client], <<FirstHello>>, "send_hello")
        BY DEF SendClientHello
    <1>4. /\ at'[Client] = "send_hello"
          /\ Fresh(out'[Client])
          /\ at'[Server] = at[Server] /\ out'[Server] = out[Server]
          /\ writeState'[Server] = writeState[Server]
        BY <1>0, <1>2, <1>3, SendStep
    <1>5. writeState'[Client] = writeState[Client]
          /\ NoHandshakeRecord(out'[Client])
        BY <1>0, <1>1, <1>2, <1>3, StateWithoutKey
    <1>6. hash'[Client] = <<Seen(FirstHello)>> /\ hash'[Server] = hash[Server]
        BY <1>0 DEF SendClientHello, Maps
    <1>7. UNCHANGED <<readState, pending, choice, master, clientCert, session,
                      wire>>
        BY DEF SendClientHello, endVars, netVars
    <1>8. Greets
        BY <1>0, <1>1, <1>2, <1>4, <1>5, <1>6, <1>7 DEF Greets, Greeting
    <1>9. Stays(Server)
        BY <1>4, <1>6, <1>7 DEF Stays, KeepsTalk
    <1> QED
        BY <1>7, <1>8, <1>9, StillCarries DEF ClientStep, ClientMoves, Wires

LEMMA SendsPlain ==
    ASSUME Maps, NEW e \in Ends, IsState(writeState[e]),
           writeState[e].key = NoKey,
           NEW msgs, IsSeq(msgs), NEW where,
           Send(e, writeState[e], msgs, where)
    PROVE  /\ at'[e] = where
           /\ Fresh(out'[e]) /\ NoHandshakeRecord(out'[e])
           /\ writeState'[e] = writeState[e]
           /\ \A p \in Ends \ {e} : /\ at'[p] = at[p] /\ out'[p] = out[p]
                                    /\ writeState'[p] = writeState[p]
    BY SendStep, StateWithoutKey

\* Moving on without sending.
LEMMA GotoStep ==
    ASSUME Maps, NEW e \in Ends, NEW where, Goto(e, where)
    PROVE  /\ at'[e] = where /\ out'[e] = <<>>
           /\ Fresh(out'[e]) /\ NoHandshakeRecord(out'[e])
           /\ \A p \in Ends \ {e} : at'[p] = at[p] /\ out'[p] = out[p]
    BY EmptyFacts DEF Goto, Maps, Fresh, NoHandshakeRecord

LEMMA ClientHelloSentStep ==
    ASSUME Shape, ClientHelloSent
    PROVE  ClientStep /\ Wires
    <1>0. Maps /\ Client \in Ends /\ Server \in Ends \ {Client}
          /\ IsSeq(hash[Client])
        BY DEF Shape
    <1>1. Goto(Client, "wait_hello") /\ Sent(Client, "send_hello")
        BY DEF ClientHelloSent
    <1>2. UNCHANGED <<writeState, readState, pending, hash, choice, master,
                      clientCert, session>>
        BY DEF ClientHelloSent, keyVars, talkVars, endVars
    <1>3. at[Client] = "send_hello"
        BY <1>1 DEF Sent
    <1>4. Greets /\ Stays(Server)
        BY <1>0, <1>1, <1>2, <1>3, GotoStep
        DEF Greets, Greeting, Stays, KeepsTalk
    <1>5. Carries(Client) /\ Carries(Server)
        BY <1>1, <1>3, SentCarries DEF Sent
    <1> QED
        BY <1>2, <1>4, <1>5 DEF ClientStep, ClientMoves, Wires

\* The record an end reads was on its peer's wire.
LEMMA ReceivesFacts ==
    ASSUME Shape, NEW e \in Ends, NEW where, NEW type, Receives(e, where, type)
    PROVE  /\ at[e] = where /\ Incoming(e) /\ Opens(e)
           /\ Upcoming(e).msg.type = type
           /\ IsRecord(Upcoming(e)) /\ Upcoming(e) \in ToSet(wire[Peer(e)])
           /\ Wires
    <1>1. IsSeq(wire[Peer(e)]) /\ \A r \in ToSet(wire[Peer(e)]) : IsRecord(r)
        BY DEF Shape, Peer, UnderWay
    <1>2. wire[Peer(e)] # <<>>
        BY DEF Receives, Incoming
    <1>3. Upcoming(e) \in ToSet(wire[Peer(e)])
        BY <1>1, <1>2, TailFacts DEF Upcoming
    <1>4. Incoming(e) /\ Take(e)
        BY DEF Receives
    <1> QED
        BY <1>1, <1>3, <1>4, TakeCarries DEF Receives, Wires

LEMMA ReadRetryStep ==
    ASSUME Shape, ClientOpening, ReadRetry
    PROVE  ClientStep /\ Wires
    <1>0. Maps /\ Client \in Ends /\ Server \in Ends \ {Client}
          /\ IsSeq(hash[Client]) /\ IsState(writeState[Client])
        BY DEF Shape
    <1>1. at[Client] = "wait_hello" /\ Wires
        BY <1>0, ReceivesFacts DEF ReadRetry
    <1>2. writeState[Client].key = NoKey
        BY <1>1 DEF ClientOpening, Opening, Greeting
    <1>3. UNCHANGED <<readState, pending, choice, master, clientCert, session>>
        BY DEF ReadRetry, endVars
    <1>4. PICK m, cookie :
             LET h == Hashed(Client, m)
                 second == SecondHello(m.group, cookie, h)
             IN  /\ Send(Client, writeState[Client], <<Simple("ccs"), second>>,
                         "send_second")
                 /\ hash' = [hash EXCEPT ![Client] = Append(h, Seen(second))]
        BY DEF ReadRetry
    <1> DEFINE h == Hashed(Client, m)
               second == SecondHello(m.group, cookie, h)
    <1>5. IsSeq(<<Simple("ccs"), second>>)
        BY TwoMessages
    <1>6. IsSeq(h) /\ IsSeq(Append(h, Seen(second)))
        BY <1>0, AppendFacts DEF Hashed
    <1> HIDE DEF h, second
    <1>7. hash'[Client] = Append(h, Seen(second))
          /\ hash'[Server] = hash[Server]
        BY <1>0, <1>4 DEF Maps, h, second
    <1>8. Send(Client, writeState[Client], <<Simple("ccs"), second>>,
               "send_second")
        BY <1>4 DEF h, second
    <1>9. Greets /\ Stays(Server)
        BY <1>0, <1>1, <1>2, <1>3, <1>5, <1>6, <1>7, <1>8, SendsPlain
        DEF Greets, Greeting, Stays, KeepsTalk
    <1> QED
        BY <1>1, <1>3, <1>9 DEF ClientStep, ClientMoves

\* _sendError: the alert is not under a handshake key.
LEMMA ErrorStep ==
    ASSUME Shape, Speaks, NEW e \in Ends, at[e] \in Waiting, SendError(e),
           \A p \in Ends : /\ hash'[p] = hash[p] /\ master'[p] = master[p]
                           /\ choice'[p] = choice[p]
                           /\ session'[p] = session[p],
           \/ readState' = readState
           \/ readState' = [readState EXCEPT ![e] = Counted(e)],
           pending' = pending
    PROVE  Stops(e) /\ \A p \in Ends \ {e} : Stays(p)
    <1>0. Maps /\ IsState(writeState[e]) /\ IsState(readState[e])
        BY DEF Shape
    <1>1. Send(e, writeState[e], <<Simple("alert")>>, "send_alert")
          /\ IsSeq(<<Simple("alert")>>)
        BY OneMessage DEF SendError
    <1>2. /\ at'[e] = "send_alert"
          /\ writeState'[e] = Advanced(writeState[e])
          /\ Fresh(out'[e])
          /\ \A r \in ToSet(out'[e]) : r.key # NoKey =>
                r.key = writeState[e].key
          /\ \A p \in Ends \ {e} : /\ at'[p] = at[p] /\ out'[p] = out[p]
                                   /\ writeState'[p] = writeState[p]
        BY <1>0, <1>1, SendStep
    <1>3. NoHandshakeRecord(out'[e])
        BY <1>2, NoStateFacts DEF Speaks, NoHandshakeRecord, Handshaking
    <1>4. IsState(writeState'[e])
        BY <1>0, <1>2, AdvancedFacts
    <1>5. IsState(readState'[e])
          /\ \A p \in Ends \ {e} : readState'[p] = readState[p]
        <2>1. CASE readState' = readState
            BY <1>0, <2>1
        <2>2. CASE readState' = [readState EXCEPT ![e] = Counted(e)]
            <3>1. /\ readState'[e] = Counted(e)
                  /\ \A p \in Ends \ {e} : readState'[p] = readState[p]
                BY <1>0, <2>2 DEF Maps
            <3> QED
                BY <1>0, <3>1, AdvancedFacts DEF Counted
        <2> QED
            BY <2>1, <2>2
    <1>6. at[e] \notin Concluded
        BY DEF Waiting, Concluded
    <1> QED
        BY <1>2, <1>3, <1>4, <1>5, <1>6 DEF Stops, Stays, KeepsTalk, Concluded

LEMMA RefuseRetryStep ==
    ASSUME Shape, Speaks, RefuseRetry
    PROVE  ClientStep /\ Wires
    <1>1. at[Client] = "wait_hello" /\ Wires
        BY ReceivesFacts DEF RefuseRetry
    <1>2. UNCHANGED <<readState, pending, hash, choice, master, clientCert,
                      session>>
        BY DEF RefuseRetry, talkVars, endVars
    <1>3. Stops(Client) /\ Stays(Server)
        BY <1>1, <1>2, ErrorStep DEF RefuseRetry, Waiting
    <1> QED
        BY <1>1, <1>2, <1>3 DEF ClientStep, ClientMoves

LEMMA SecondHelloSentStep ==
    ASSUME Shape, SecondHelloSent
    PROVE  ClientStep /\ Wires
    <1>0. Maps /\ Client \in Ends /\ Server \in Ends \ {Client}
          /\ IsSeq(hash[Client])
        BY DEF Shape
    <1>1. Goto(Client, "wait_retry") /\ Sent(Client, "send_second")
        BY DEF SecondHelloSent
    <1>2. UNCHANGED <<writeState, readState, pending, hash, choice, master,
                      clientCert, session>>
        BY DEF SecondHelloSent, keyVars, endVars
    <1>3. at[Client] = "send_second"
        BY <1>1 DEF Sent
    <1>4. Greets /\ Stays(Server)
        BY <1>0, <1>1, <1>2, <1>3, GotoStep
        DEF Greets, Greeting, Stays, KeepsTalk
    <1>5. Carries(Client) /\ Carries(Server)
        BY <1>1, <1>3, SentCarries DEF Sent
    <1> QED
        BY <1>2, <1>4, <1>5 DEF ClientStep, ClientMoves, Wires

LEMMA ReadServerHelloStep ==
    ASSUME Shape, ReadServerHello
    PROVE  ClientStep /\ Wires
    <1>0. Maps /\ Client \in Ends /\ Server \in Ends \ {Client}
          /\ IsSeq(hash[Client])
        BY DEF Shape
    <1>1. at[Client] \in {"wait_hello", "wait_retry"} /\ Wires
        BY <1>0, ReceivesFacts DEF ReadServerHello
    <1>2. UNCHANGED <<writeState, master, clientCert, session>>
        BY DEF ReadServerHello, endVars
    <1>3. PICK m :
             LET h == Hashed(Client, m)
                 keys == CalcPending("hs", h)
             IN  /\ hash' = [hash EXCEPT ![Client] = h]
                 /\ readState' = [readState EXCEPT ![Client] = keys.read]
                 /\ pending' = [pending EXCEPT ![Client] =
                                   [keys EXCEPT !.read = NoState]]
                 /\ choice' = [choice EXCEPT ![Client] =
                                  [NoChoice EXCEPT !.group = m.group,
                                                   !.psk = m.psk]]
        BY DEF ReadServerHello
    <1> DEFINE h == Hashed(Client, m)
               keys == CalcPending("hs", h)
    <1>4. IsSeq(h) /\ h # <<>> /\ h[Len(h)].msg = m
        <2>1. Len(h) = Len(hash[Client]) + 1 /\ Len(hash[Client]) \in Nat
            BY <1>0, AppendFacts, SeqFacts DEF Hashed
        <2> QED
            BY <1>0, <2>1, AppendFacts DEF Hashed
    <1>5. keys.read = KeyedBy("hs", h)
          /\ [keys EXCEPT !.read = NoState].write = KeyedBy("hs", h)
        BY DEF CalcPending
    <1> HIDE DEF h, keys
    <1>7. /\ hash'[Client] = h /\ hash'[Server] = hash[Server]
          /\ readState'[Client] = keys.read
          /\ readState'[Server] = readState[Server]
          /\ pending'[Client] = [keys EXCEPT !.read = NoState]
          /\ pending'[Server] = pending[Server]
          /\ choice'[Client] = [NoChoice EXCEPT !.group = m.group,
                                !.psk = m.psk]
          /\ choice'[Server] = choice[Server]
        BY <1>0, <1>3 DEF Maps, h, keys
    <1>8. Goto(Client, "wait_flight")
        BY DEF ReadServerHello
    <1>6. /\ IsChoice(choice'[Client])
          /\ choice'[Client].group = m.group /\ choice'[Client].psk = m.psk
        BY <1>7 DEF NoChoice, IsChoice
    <1>9. HearsServer
        BY <1>0, <1>1, <1>2, <1>4, <1>5, <1>6, <1>7, <1>8, GotoStep
        DEF HearsServer, Greeting
    <1>10. Stays(Server)
        BY <1>0, <1>2, <1>7, <1>8, GotoStep DEF Stays, KeepsTalk
    <1> QED
        BY <1>1, <1>2, <1>9, <1>10 DEF ClientStep, ClientMoves

LEMMA RejectServerHelloStep ==
    ASSUME Shape, Sessions, RejectServerHello
    PROVE  ClientStep /\ Wires
    <1>1. Wires
        BY ReceivesFacts DEF RejectServerHello
    <1>2. Fail(Client) /\ clientCert' = clientCert
        BY DEF RejectServerHello, Fail, talkVars
    <1> QED
        BY <1>1, <1>2, FailStep DEF ClientStep, ClientMoves

\* ClientFinishes and the two other ways the client answers.
LEMMA SaysStep ==
    ASSUME Maps, Client \in Ends, NEW state, IsState(state), NEW t, NEW msgs,
           IsSeq(msgs), NEW answer,
           NEW where, Send(Client, state, msgs, where),
           ToSet(msgs) \subseteq {Simple("ccs"), answer},
           hash'[Client] = Append(t, Seen(answer)),
           hash'[Server] = hash[Server],
           answer.type = "certificate" => answer.cert = client.cert,
           answer.type = "finished" <=> where = "send_finished",
           where = "send_finished" => ForApplication(pending'[Client].write),
           session' = session, IsState(readState'[Client])
    PROVE  /\ Says(state, t, answer) /\ at'[Client] = where
           /\ at'[Server] = at[Server] /\ out'[Server] = out[Server]
           /\ writeState'[Server] = writeState[Server]
           /\ hash'[Server] = hash[Server]
    <1>2. /\ at'[Client] = where
          /\ writeState'[Client] = Advanced(state)
          /\ Fresh(out'[Client])
          /\ \A r \in ToSet(out'[Client]) :
                /\ r.msg \in ToSet(msgs)
                /\ r.key # NoKey => /\ r.key = state.key /\ r.seq = state.seq
                                    /\ r.msg.type # "ccs"
          /\ at'[Server] = at[Server] /\ out'[Server] = out[Server]
          /\ writeState'[Server] = writeState[Server]
        BY SendStep
    <1>3. ASSUME NEW r \in ToSet(out'[Client]), Handshaking(r)
          PROVE  r.msg = answer /\ r.key = state.key /\ r.seq = state.seq
        <2>1. r.key # NoKey
            BY <1>3, NoStateFacts DEF Handshaking
        <2>2. r.msg # Simple("ccs")
            BY <1>2, <2>1 DEF Simple
        <2> QED
            BY <1>2, <2>1, <2>2
    <1> QED
        BY <1>2, <1>3 DEF Says

LEMMA FinishesStep ==
    ASSUME Maps, Client \in Ends, NEW state, IsState(state), NEW h, NEW secret,
           ClientFinishes(state, h, secret), session' = session
    PROVE  /\ Says(state, h, Simple("finished"))
           /\ at'[Client] = "send_finished"
           /\ at'[Server] = at[Server] /\ out'[Server] = out[Server]
           /\ writeState'[Server] = writeState[Server]
           /\ hash'[Server] = hash[Server]
           /\ readState'[Server] = readState[Server]
           /\ pending'[Server] = pending[Server]
    <1> DEFINE finished == Simple("finished")
               keys == CalcPending("app", secret)
               msgs == IF ccsSent[Client] THEN <<finished>>
                       ELSE <<Simple("ccs"), finished>>
    <1>1. /\ readState'[Client] = KeyedBy("app", secret)
          /\ readState'[Server] = readState[Server]
        BY DEF ClientFinishes, CalcPending, Maps
    <1>2. /\ pending'[Client].write = KeyedBy("app", secret)
          /\ pending'[Server] = pending[Server]
        BY DEF ClientFinishes, CalcPending, Maps
    <1>3. ForApplication(pending'[Client].write) /\ IsState(readState'[Client])
        <2>1. ForApplication(KeyedBy("app", secret))
              /\ IsState(KeyedBy("app", secret))
            BY DEF KeyedBy, IsState, ForApplication
        <2> QED
            BY <1>1, <1>2, <2>1
    <1>4. finished.type = "finished"
        BY DEF Simple
    <1>5. /\ Send(Client, state, msgs, "send_finished")
          /\ IsSeq(msgs) /\ ToSet(msgs) \subseteq {Simple("ccs"), finished}
        BY OneMessage, TwoMessages DEF ClientFinishes
    <1>6. /\ hash'[Client] = Append(h, Seen(finished))
          /\ hash'[Server] = hash[Server]
        BY DEF ClientFinishes, Maps
    <1> HIDE DEF finished, msgs
    <1>7. /\ Says(state, h, finished) /\ at'[Client] = "send_finished"
          /\ at'[Server] = at[Server] /\ out'[Server] = out[Server]
          /\ writeState'[Server] = writeState[Server]
          /\ hash'[Server] = hash[Server]
        BY <1>3, <1>4, <1>5, <1>6, SaysStep
    <1> QED
        BY <1>1, <1>2, <1>7 DEF finished

\* The two ways to go on from a flight that was verified.
LEMMA FlightStep ==
    ASSUME Shape, ClientOpening, Receives(Client, "wait_flight", "flight"),
           NEW h, h = Hashed(Client, Upcoming(Client).msg),
           master'[Client] = h, master'[Server] = master[Server],
           IsChoice(choice'[Client]),
           choice'[Client].group = choice[Client].group,
           choice'[Client].psk = choice[Client].psk,
           choice'[Client].scheme = Upcoming(Client).msg.scheme,
           choice'[Server] = choice[Server],
           NEW answer, at'[Client] \in {"send_cert", "send_finished"},
           Says(pending[Client].write, h, answer),
           at'[Server] = at[Server], out'[Server] = out[Server],
           writeState'[Server] = writeState[Server],
           hash'[Server] = hash[Server],
           readState'[Server] = readState[Server],
           pending'[Server] = pending[Server],
           session' = session, clientCert' = clientCert
    PROVE  ClientStep /\ Wires
    <1>0. Maps /\ Client \in Ends /\ Server \in Ends \ {Client}
        BY DEF Shape
    <1>1. at[Client] = "wait_flight" /\ Incoming(Client) /\ Opens(Client)
          /\ Wires
        BY <1>0, ReceivesFacts
    <1>3. Verifies(answer)
        BY <1>1 DEF Verifies, Hashed
    <1>4. Stays(Server)
        BY DEF Stays, KeepsTalk
    <1> QED
        BY <1>1, <1>3, <1>4 DEF ClientStep, ClientMoves

\* The scheme is set, the rest of the choice stays.
LEMMA SchemeChosen ==
    ASSUME Maps, IsChoice(choice[Client]), NEW scheme,
           choice' = [choice EXCEPT ![Client].scheme = scheme]
    PROVE  /\ IsChoice(choice'[Client])
           /\ choice'[Client].group = choice[Client].group
           /\ choice'[Client].psk = choice[Client].psk
           /\ choice'[Client].scheme = scheme
           /\ choice'[Server] = choice[Server]
    BY DEF Maps, IsChoice

LEMMA ReadFlightStep ==
    ASSUME Shape, ClientOpening, ReadFlight
    PROVE  ClientStep /\ Wires
    <1>0. Maps /\ Client \in Ends /\ IsChoice(choice[Client])
        BY DEF Shape
    <1> DEFINE h == Hashed(Client, Upcoming(Client).msg)
    <1>1. /\ Receives(Client, "wait_flight", "flight")
          /\ master'[Client] = h /\ master'[Server] = master[Server]
          /\ ClientFinishes(pending[Client].write, h, h)
          /\ clientCert' = clientCert /\ session' = session
        BY <1>0 DEF ReadFlight, endVars, Maps
    <1>2. IsState(pending[Client].write)
        BY <1>1 DEF ClientOpening, Receives, KeyedBy, IsState
    <1>c. /\ IsChoice(choice'[Client])
          /\ choice'[Client].group = choice[Client].group
          /\ choice'[Client].psk = choice[Client].psk
          /\ choice'[Client].scheme = Upcoming(Client).msg.scheme
          /\ choice'[Server] = choice[Server]
        <2>1. choice' =
                 [choice EXCEPT ![Client].scheme = Upcoming(Client).msg.scheme]
            BY DEF ReadFlight
        <2> QED
            BY <1>0, <2>1, SchemeChosen
    <1>h. h = Hashed(Client, Upcoming(Client).msg)
        OBVIOUS
    <1> HIDE DEF h
    <1>3. /\ Says(pending[Client].write, h, Simple("finished"))
          /\ at'[Client] = "send_finished"
          /\ at'[Server] = at[Server] /\ out'[Server] = out[Server]
          /\ writeState'[Server] = writeState[Server]
          /\ hash'[Server] = hash[Server]
          /\ readState'[Server] = readState[Server]
          /\ pending'[Server] = pending[Server]
        BY <1>0, <1>1, <1>2, FinishesStep
    <1> QED
        BY <1>1, <1>3, <1>c, <1>h, FlightStep

LEMMA ReadFlightRequestingStep ==
    ASSUME Shape, ClientOpening, ReadFlightRequesting
    PROVE  ClientStep /\ Wires
    <1>0. Maps /\ Client \in Ends /\ IsState(readState[Client])
          /\ IsChoice(choice[Client])
        BY DEF Shape
    <1> DEFINE h == Hashed(Client, Upcoming(Client).msg)
               answer == [type |-> "certificate", cert |-> client.cert]
    <1>1. /\ Receives(Client, "wait_flight", "flight")
          /\ master'[Client] = h /\ master'[Server] = master[Server]
          /\ Send(Client, pending[Client].write, <<answer>>, "send_cert")
          /\ hash'[Client] = Append(h, Seen(answer))
          /\ hash'[Server] = hash[Server]
          /\ clientCert' = clientCert /\ session' = session
          /\ pending' = [pending EXCEPT ![Client] = NothingPending]
          /\ readState' = [readState EXCEPT ![Client] = Counted(Client)]
        BY <1>0 DEF ReadFlightRequesting, endVars, Maps
    <1>2. IsState(pending[Client].write)
        BY <1>1 DEF ClientOpening, Receives, KeyedBy, IsState
    <1>c. /\ IsChoice(choice'[Client])
          /\ choice'[Client].group = choice[Client].group
          /\ choice'[Client].psk = choice[Client].psk
          /\ choice'[Client].scheme = Upcoming(Client).msg.scheme
          /\ choice'[Server] = choice[Server]
        <2>1. choice' =
                 [choice EXCEPT ![Client].scheme = Upcoming(Client).msg.scheme]
            BY DEF ReadFlightRequesting
        <2> QED
            BY <1>0, <2>1, SchemeChosen
    <1>h. h = Hashed(Client, Upcoming(Client).msg)
        OBVIOUS
    <1>3. answer.type = "certificate" /\ answer.cert = client.cert
        OBVIOUS
    <1> HIDE DEF h, answer
    <1>4. /\ readState'[Client] = Counted(Client)
          /\ readState'[Server] = readState[Server]
          /\ pending'[Server] = pending[Server]
        BY <1>0, <1>1 DEF Maps
    <1>5. IsState(readState'[Client])
        BY <1>0, <1>4, AdvancedFacts DEF Counted
    <1>6. /\ Says(pending[Client].write, h, answer)
          /\ at'[Client] = "send_cert"
          /\ at'[Server] = at[Server] /\ out'[Server] = out[Server]
          /\ writeState'[Server] = writeState[Server]
          /\ hash'[Server] = hash[Server]
        <2> DEFINE msgs == <<answer>>
        <2>1. /\ Send(Client, pending[Client].write, msgs, "send_cert")
              /\ IsSeq(msgs) /\ ToSet(msgs) \subseteq {Simple("ccs"), answer}
            BY <1>1, OneMessage
        <2>2. answer.type = "finished" <=> "send_cert" = "send_finished"
            BY <1>3
        <2>3. Maps /\ Client \in Ends /\ IsState(pending[Client].write)
              /\ session' = session
            BY <1>0, <1>1, <1>2
        <2>4. hash'[Client] = Append(h, Seen(answer))
              /\ hash'[Server] = hash[Server]
            BY <1>1
        <2> HIDE DEF msgs
        <2> QED
            BY <1>3, <1>5, <2>1, <2>2, <2>3, <2>4, SaysStep
    <1> QED
        BY <1>1, <1>4, <1>6, <1>c, <1>h, FlightStep

LEMMA RefuseProofStep ==
    ASSUME Shape, Speaks, RefuseProof
    PROVE  ClientStep /\ Wires
    <1>1. at[Client] = "wait_flight" /\ Wires
        BY ReceivesFacts DEF RefuseProof
    <1>2. UNCHANGED <<pending, hash, choice, master, clientCert, session>>
        BY DEF RefuseProof, talkVars, endVars
    <1>3. Stops(Client) /\ Stays(Server)
        BY <1>1, <1>2, ErrorStep DEF RefuseProof, Waiting
    <1> QED
        BY <1>1, <1>2, <1>3 DEF ClientStep, ClientMoves

\* The steps from the certificate to the Finished.
LEMMA GoesOnStep ==
    ASSUME Shape, NEW answer,
           at[Client] \in {"send_cert", "send_verify"},
           at'[Client] \in {"send_verify", "send_finished"},
           Sent(Client, at[Client]),
           Says(writeState[Client], hash[Client], answer),
           at'[Server] = at[Server], out'[Server] = out[Server],
           writeState'[Server] = writeState[Server],
           hash'[Server] = hash[Server],
           readState'[Server] = readState[Server],
           pending'[Server] = pending[Server],
           UNCHANGED <<session, master, choice, clientCert>>
    PROVE  ClientStep /\ Wires
    <1>1. GoesOn(answer)
        BY DEF GoesOn
    <1>2. Stays(Server)
        BY DEF Stays, KeepsTalk
    <1>3. Wires
        BY SentCarries DEF Wires
    <1> QED
        BY <1>1, <1>2, <1>3 DEF ClientStep, ClientMoves

LEMMA EmptyCertificateSentStep ==
    ASSUME Shape, EmptyCertificateSent
    PROVE  ClientStep /\ Wires
    <1>0. Maps /\ Client \in Ends /\ IsState(writeState[Client])
        BY DEF Shape
    <1>1. /\ Sent(Client, "send_cert") /\ at[Client] = "send_cert"
          /\ ClientFinishes(writeState[Client], hash[Client], master[Client])
          /\ UNCHANGED <<session, master, choice, clientCert>>
        BY DEF EmptyCertificateSent, endVars, Sent
    <1>2. /\ Says(writeState[Client], hash[Client], Simple("finished"))
          /\ at'[Client] = "send_finished"
          /\ at'[Server] = at[Server] /\ out'[Server] = out[Server]
          /\ writeState'[Server] = writeState[Server]
          /\ hash'[Server] = hash[Server]
          /\ readState'[Server] = readState[Server]
          /\ pending'[Server] = pending[Server]
        BY <1>0, <1>1, FinishesStep
    <1> QED
        BY <1>1, <1>2, GoesOnStep

LEMMA CertificateSentStep ==
    ASSUME Shape, CertificateSent
    PROVE  ClientStep /\ Wires
    <1>0. Maps /\ Client \in Ends /\ IsState(writeState[Client])
          /\ IsState(readState[Client])
        BY DEF Shape
    <1> DEFINE verify == [type |-> "certificate_verify",
                          scheme |-> ClientScheme(Request)]
    <1>1. /\ Sent(Client, "send_cert") /\ at[Client] = "send_cert"
          /\ Send(Client, writeState[Client], <<verify>>, "send_verify")
          /\ hash'[Client] = Append(hash[Client], Seen(verify))
          /\ hash'[Server] = hash[Server]
          /\ UNCHANGED <<readState, pending, session, master, choice,
                         clientCert>>
        BY <1>0 DEF CertificateSent, endVars, Sent, Maps
    <1>2. verify.type = "certificate_verify"
        OBVIOUS
    <1> HIDE DEF verify
    <1>3. /\ Says(writeState[Client], hash[Client], verify)
          /\ at'[Client] = "send_verify"
          /\ at'[Server] = at[Server] /\ out'[Server] = out[Server]
          /\ writeState'[Server] = writeState[Server]
          /\ hash'[Server] = hash[Server]
        <2> DEFINE msgs == <<verify>>
                   where == "send_verify"
                   state == writeState[Client]
                   t == hash[Client]
        <2>1. /\ Send(Client, state, msgs, where)
              /\ IsSeq(msgs) /\ ToSet(msgs) \subseteq {Simple("ccs"), verify}
            BY <1>1, OneMessage
        <2>2. /\ verify.type = "finished" <=> where = "send_finished"
              /\ verify.type = "certificate" => verify.cert = client.cert
              /\ where # "send_finished"
            BY <1>2
        <2>3. /\ Maps /\ Client \in Ends /\ IsState(state)
              /\ session' = session /\ IsState(readState'[Client])
            BY <1>0, <1>1
        <2>4. /\ hash'[Client] = Append(t, Seen(verify))
              /\ hash'[Server] = hash[Server]
            BY <1>1
        <2> HIDE DEF msgs, where, state, t
        <2>5. /\ Says(state, t, verify) /\ at'[Client] = where
              /\ at'[Server] = at[Server] /\ out'[Server] = out[Server]
              /\ writeState'[Server] = writeState[Server]
              /\ hash'[Server] = hash[Server]
            BY <2>1, <2>2, <2>3, <2>4, SaysStep
        <2> QED
            BY <2>5 DEF where, state, t
    <1> QED
        BY <1>1, <1>3, GoesOnStep

LEMMA CannotSignStep ==
    ASSUME Shape, Sessions, CannotSign
    PROVE  ClientStep /\ Wires
    <1>1. Wires
        BY SentCarries DEF CannotSign, Wires
    <1>2. Fail(Client) /\ clientCert' = clientCert
        BY DEF CannotSign, Fail, talkVars
    <1> QED
        BY <1>1, <1>2, FailStep DEF ClientStep, ClientMoves

LEMMA VerifySentStep ==
    ASSUME Shape, VerifySent
    PROVE  ClientStep /\ Wires
    <1>0. Maps /\ Client \in Ends /\ IsState(writeState[Client])
        BY DEF Shape
    <1>1. /\ Sent(Client, "send_verify") /\ at[Client] = "send_verify"
          /\ ClientFinishes(writeState[Client], hash[Client], master[Client])
          /\ UNCHANGED <<session, master, choice, clientCert>>
        BY DEF VerifySent, endVars, Sent
    <1>2. /\ Says(writeState[Client], hash[Client], Simple("finished"))
          /\ at'[Client] = "send_finished"
          /\ at'[Server] = at[Server] /\ out'[Server] = out[Server]
          /\ writeState'[Server] = writeState[Server]
          /\ hash'[Server] = hash[Server]
          /\ readState'[Server] = readState[Server]
          /\ pending'[Server] = pending[Server]
        BY <1>0, <1>1, FinishesStep
    <1> QED
        BY <1>1, <1>2, GoesOnStep

\* A new session is one.
LEMMA NewSessionFacts ==
    ASSUME NEW e, NEW cert, NEW exporter, NEW resumption
    PROVE  NewSession(e, cert, exporter, resumption) # NoSession
    <1>1. "group" \in DOMAIN NewSession(e, cert, exporter, resumption)
        BY DEF NewSession
    <1>2. "group" \notin DOMAIN NoSession
        BY DEF NoSession
    <1> QED
        BY <1>1, <1>2

\* A handshake that is over may still send the checker's alert, under a key
\* that is not the handshake's.
LEMMA ConcludeStep ==
    ASSUME Maps, NEW e \in Ends, NEW state, IsState(state),
           state.key.epoch # "hs",
           NEW resumption, Conclude(e, state, resumption)
    PROVE  /\ at'[e] \in {"send_reject", "done"}
           /\ IsState(writeState'[e]) /\ writeState'[e].key.epoch # "hs"
           /\ Fresh(out'[e]) /\ NoHandshakeRecord(out'[e])
           /\ \A p \in Ends \ {e} : /\ at'[p] = at[p] /\ out'[p] = out[p]
                                    /\ writeState'[p] = writeState[p]
    <1>1. CASE (IF e = Client THEN client ELSE server).rejects
        <2>1. Send(e, state, <<Simple("alert")>>, "send_reject")
            BY <1>1 DEF Conclude
        <2>2. IsSeq(<<Simple("alert")>>)
            BY OneMessage
        <2>3. /\ at'[e] = "send_reject"
              /\ writeState'[e] = Advanced(state)
              /\ Fresh(out'[e])
              /\ \A r \in ToSet(out'[e]) : r.key # NoKey => r.key = state.key
              /\ \A p \in Ends \ {e} : /\ at'[p] = at[p] /\ out'[p] = out[p]
                                       /\ writeState'[p] = writeState[p]
            BY <2>1, <2>2, SendStep
        <2>4. NoHandshakeRecord(out'[e])
            BY <2>3, NoStateFacts DEF NoHandshakeRecord, Handshaking
        <2> QED
            BY <2>3, <2>4, AdvancedFacts
    <1>2. CASE ~(IF e = Client THEN client ELSE server).rejects
        <2>1. Goto(e, "done") /\ writeState' = [writeState EXCEPT ![e] = state]
            BY <1>2 DEF Conclude
        <2>2. writeState'[e] = state
              /\ \A p \in Ends \ {e} : writeState'[p] = writeState[p]
            BY <2>1 DEF Maps
        <2> QED
            BY <2>1, <2>2, GotoStep
    <1> QED
        BY <1>1, <1>2

LEMMA ClientFinishedSentStep ==
    ASSUME Shape, ClientAnswering, ClientFinishedSent
    PROVE  ClientStep /\ Wires
    <1>0. Maps /\ Client \in Ends /\ Server \in Ends \ {Client}
          /\ IsState(readState[Client])
        BY DEF Shape
    <1>1. /\ Sent(Client, "send_finished") /\ at[Client] = "send_finished"
          /\ UNCHANGED <<readState, hash, master, choice, clientCert>>
        BY DEF ClientFinishedSent, talkVars, Sent
    <1>2. /\ session'[Client] = Concludes(Client, client.cert)
          /\ session'[Server] = session[Server]
          /\ pending'[Server] = pending[Server]
        BY <1>0 DEF ClientFinishedSent, Concludes, Maps
    <1>3. Wires
        BY <1>1, <1>2, NewSessionFacts, SentCarries DEF Wires, Concludes
    <1>4. Conclude(Client, Switched(Client), choice[Client].psk)
        BY DEF ClientFinishedSent
    <1>5. IsState(Switched(Client)) /\ Switched(Client).key.epoch # "hs"
        BY <1>1 DEF Switched, ClientAnswering, ForApplication
    <1>6. /\ at'[Client] \in {"send_reject", "done"}
          /\ IsState(writeState'[Client])
          /\ writeState'[Client].key.epoch # "hs"
          /\ Fresh(out'[Client]) /\ NoHandshakeRecord(out'[Client])
          /\ at'[Server] = at[Server] /\ out'[Server] = out[Server]
          /\ writeState'[Server] = writeState[Server]
        BY <1>0, <1>4, <1>5, ConcludeStep
    <1>7. ClientConcludes /\ Stays(Server)
        BY <1>0, <1>1, <1>2, <1>6 DEF ClientConcludes, Stays, KeepsTalk
    <1> QED
        BY <1>1, <1>3, <1>7 DEF ClientStep, ClientMoves

-----------------------------------------------------------------------------
(***************************************************************************)
(* The server's steps.                                                     *)
(***************************************************************************)
\* A sequence is a prefix of itself and of what extends it.
LEMMA PrefixFacts ==
    ASSUME NEW s, IsSeq(s)
    PROVE  /\ Prefix(s, s)
           /\ \A x : Prefix(s, Append(s, x))
           /\ \A x, y : Prefix(s, Append(Append(s, x), y))
    <1>1. Len(s) \in Nat
        BY SeqFacts
    <1>2. \A x : Prefix(s, Append(s, x)) /\ IsSeq(Append(s, x))
          /\ Len(Append(s, x)) = Len(s) + 1
        BY <1>1, AppendFacts DEF Prefix
    <1>3. ASSUME NEW x, NEW y
          PROVE  Prefix(s, Append(Append(s, x), y))
        <2> DEFINE t == Append(s, x)
        <2>1. IsSeq(t) /\ Prefix(s, t) /\ Len(t) = Len(s) + 1
            BY <1>2
        <2> HIDE DEF t
        <2>2. /\ Len(Append(t, y)) = Len(t) + 1
              /\ \A i \in 1..Len(t) : Append(t, y)[i] = t[i]
            BY <2>1, AppendFacts
        <2>3. Prefix(s, Append(t, y))
            BY <1>1, <2>1, <2>2 DEF Prefix
        <2> QED
            BY <2>3 DEF t
    <1> QED
        BY <1>1, <1>2, <1>3 DEF Prefix

\* _serverTLS13Handshake up to its ServerHello.
LEMMA AnswerStep ==
    ASSUME Shape, ServerOpening, NEW where,
           Receives(Server, where, "client_hello"),
           where \in {"wait_hello", "wait_second"},
           NEW m, Answer(m),
           UNCHANGED <<readState, pending, master, clientCert, session>>
    PROVE  ServerStep /\ Wires
    <1>0. Maps /\ Server \in Ends /\ Client \in Ends \ {Server}
          /\ IsSeq(hash[Server]) /\ IsState(writeState[Server])
        BY DEF Shape
    <1>1. at[Server] = where /\ Wires
        BY <1>0, ReceivesFacts
    <1>2. writeState[Server].key = NoKey
        BY <1>1 DEF ServerOpening, Choosing
    <1> DEFINE group == SharedGroup(m)
               psk == m.psk = "good"
               sh == [type |-> "server_hello", group |-> group, psk |-> psk]
               msgs == IF ccsSent[Server] THEN <<sh>>
                                          ELSE <<sh, Simple("ccs")>>
               h == Hashed(Server, m)
    <1>3. IsSeq(msgs) /\ Send(Server, writeState[Server], msgs, "send_answer")
        BY OneMessage, TwoMessages DEF Answer
    <1>4. /\ hash'[Server] = Append(h, Seen(sh))
          /\ hash'[Client] = hash[Client]
        BY <1>0 DEF Answer, Maps
    <1>5. /\ choice'[Server] =
                [group |-> group, psk |-> psk,
                 scheme |-> IF psk THEN "none" ELSE ServerScheme(m),
                 request |-> server.reqCert /\ ~psk]
          /\ choice'[Client] = choice[Client]
        BY <1>0 DEF Answer, Maps
    <1>6. /\ IsChoice(choice'[Server])
          /\ choice'[Server].group = group /\ choice'[Server].psk = psk
          /\ choice'[Server].request = (server.reqCert /\ ~psk)
        BY <1>5 DEF IsChoice
    <1>7. /\ IsSeq(hash'[Server]) /\ hash'[Server] # <<>>
          /\ Prefix(hash[Server], hash'[Server])
          /\ hash'[Server][Len(hash'[Server])] = Seen(sh)
        <2>1. IsSeq(h) /\ Len(h) \in Nat
            BY <1>0, AppendFacts, SeqFacts DEF Hashed
        <2>2. Prefix(hash[Server], Append(h, Seen(sh)))
            BY <1>0, PrefixFacts DEF Hashed
        <2> HIDE DEF h, sh
        <2>3. /\ IsSeq(Append(h, Seen(sh))) /\ Append(h, Seen(sh)) # <<>>
              /\ Len(Append(h, Seen(sh))) = Len(h) + 1
              /\ Append(h, Seen(sh))[Len(h) + 1] = Seen(sh)
            BY <2>1, AppendFacts
        <2> QED
            BY <1>4, <2>2, <2>3
    <1>8. Seen(sh).msg.group = group /\ Seen(sh).msg.psk = psk
        BY DEF Seen
    <1>9. psk \in BOOLEAN
        OBVIOUS
    <1> HIDE DEF msgs, h, sh, group, psk
    <1>10. Chooses
        BY <1>0, <1>1, <1>2, <1>3, <1>6, <1>7, <1>8, <1>9, SendsPlain
        DEF Chooses, Choosing
    <1>11. Stays(Client)
        BY <1>0, <1>2, <1>3, <1>4, <1>5, SendsPlain DEF Stays, KeepsTalk
    <1> QED
        BY <1>1, <1>10, <1>11 DEF ServerStep, ServerMoves

LEMMA ReadHelloStep ==
    ASSUME Shape, ServerOpening, ReadHello
    PROVE  ServerStep /\ Wires
    <1>1. /\ Receives(Server, "wait_hello", "client_hello")
          /\ Answer(Upcoming(Server).msg)
          /\ UNCHANGED <<readState, pending, master, clientCert, session>>
        BY DEF ReadHello, endVars
    <1> QED
        BY <1>1, AnswerStep

LEMMA ReadSecondHelloStep ==
    ASSUME Shape, ServerOpening, ReadSecondHello
    PROVE  ServerStep /\ Wires
    <1>1. /\ Receives(Server, "wait_second", "client_hello")
          /\ Answer(Upcoming(Server).msg)
          /\ UNCHANGED <<readState, pending, master, clientCert, session>>
        BY DEF ReadSecondHello, endVars
    <1> QED
        BY <1>1, AnswerStep

LEMMA ReadHelloRetryingStep ==
    ASSUME Shape, ServerOpening, CertificateSeen, ReadHelloRetrying
    PROVE  ServerStep /\ Wires
    <1>0. Maps /\ Server \in Ends /\ Client \in Ends \ {Server}
          /\ IsSeq(hash[Server]) /\ IsState(writeState[Server])
          /\ IsChoice(choice[Server])
        BY DEF Shape
    <1> DEFINE m == Upcoming(Server).msg
               retry == [type |-> "retry", group |-> RetryGroup(m)]
               msgs == <<retry, Simple("ccs")>>
               h == Hashed(Server, m)
    <1>1. at[Server] = "wait_hello" /\ Wires
        BY <1>0, ReceivesFacts DEF ReadHelloRetrying
    <1>2. writeState[Server].key = NoKey
        BY <1>1 DEF ServerOpening, Choosing
    <1>3. IsSeq(msgs) /\ Send(Server, writeState[Server], msgs, "send_retry")
        BY TwoMessages DEF ReadHelloRetrying
    <1>4. hash'[Server] = Append(h, Seen(retry))
          /\ hash'[Client] = hash[Client]
        BY <1>0 DEF ReadHelloRetrying, Maps
    <1>5. /\ IsChoice(choice'[Server])
          /\ choice'[Server].psk = choice[Server].psk
          /\ choice'[Client] = choice[Client]
        <2>1. choice' = [choice EXCEPT ![Server].group = retry.group]
            BY DEF ReadHelloRetrying
        <2> HIDE DEF retry
        <2> QED
            BY <1>0, <2>1 DEF Maps, IsChoice
    <1>6. IsSeq(hash'[Server]) /\ Prefix(hash[Server], hash'[Server])
        <2>1. IsSeq(h)
            BY <1>0, AppendFacts DEF Hashed
        <2>2. Prefix(hash[Server], Append(h, Seen(retry)))
            BY <1>0, PrefixFacts DEF Hashed
        <2> HIDE DEF h, retry
        <2> QED
            BY <1>4, <2>1, <2>2, AppendFacts
    <1>7. UNCHANGED <<readState, pending, master, clientCert, session>>
        BY DEF ReadHelloRetrying, endVars
    <1> HIDE DEF msgs, h, retry, m
    <1>8. Chooses
        BY <1>0, <1>1, <1>2, <1>3, <1>5, <1>6, <1>7, SendsPlain
        DEF Chooses, Choosing, CertificateSeen
    <1>9. Stays(Client)
        BY <1>0, <1>2, <1>3, <1>4, <1>5, <1>7, SendsPlain DEF Stays, KeepsTalk
    <1> QED
        BY <1>1, <1>7, <1>8, <1>9 DEF ServerStep, ServerMoves

LEMMA RefuseHelloStep ==
    ASSUME Shape, Speaks, RefuseHello \/ RefuseSecondHello
    PROVE  ServerStep /\ Wires
    <1>1. at[Server] \in {"wait_hello", "wait_second"} /\ Wires
        BY ReceivesFacts DEF RefuseHello, RefuseSecondHello
    <1>2. UNCHANGED <<readState, pending, hash, choice, master, clientCert,
                      session>>
        BY DEF RefuseHello, RefuseSecondHello, talkVars, endVars
    <1>3. SendError(Server)
        BY DEF RefuseHello, RefuseSecondHello
    <1>4. Stops(Server) /\ Stays(Client)
        BY <1>1, <1>2, <1>3, ErrorStep DEF Waiting
    <1> QED
        BY <1>1, <1>2, <1>4 DEF ServerStep, ServerMoves

LEMMA RetrySentStep ==
    ASSUME Shape, CertificateSeen, RetrySent
    PROVE  ServerStep /\ Wires
    <1>0. Maps /\ Server \in Ends /\ Client \in Ends \ {Server}
          /\ IsSeq(hash[Server])
          /\ IsChoice(choice[Server])
        BY DEF Shape
    <1>1. Goto(Server, "wait_second") /\ Sent(Server, "send_retry")
        BY DEF RetrySent
    <1>2. UNCHANGED <<writeState, readState, pending, hash, choice, master,
                      clientCert, session>>
        BY DEF RetrySent, keyVars, endVars
    <1>3. at[Server] = "send_retry"
        BY <1>1 DEF Sent
    <1>4. Chooses /\ Stays(Client)
        BY <1>0, <1>1, <1>2, <1>3, GotoStep, PrefixFacts
        DEF Chooses, Choosing, Stays, KeepsTalk, CertificateSeen
    <1>5. Carries(Client) /\ Carries(Server)
        BY <1>1, <1>3, SentCarries DEF Sent
    <1> QED
        BY <1>2, <1>4, <1>5 DEF ServerStep, ServerMoves, Wires

LEMMA AnswerSentStep ==
    ASSUME Shape, AnswerSent
    PROVE  ServerStep /\ Wires
    <1>0. Maps /\ Server \in Ends /\ Client \in Ends \ {Server}
        BY DEF Shape
    <1>1. at[Server] = "send_answer" /\ Sent(Server, "send_answer")
          /\ UNCHANGED <<readState, choice, master, clientCert, session>>
        BY DEF AnswerSent, endVars, Sent
    <1>2. PICK outcome :
             LET keys == CalcPending("hs", hash[Server])
                 m == Flight(outcome = "right")
             IN  /\ Send(Server, keys.write, <<m>>, "send_flight")
                 /\ pending' = [pending EXCEPT ![Server] =
                                   [keys EXCEPT !.write = NoState]]
                 /\ hash' = [hash EXCEPT ![Server] = Append(@, Seen(m))]
        BY DEF AnswerSent
    <1> DEFINE m == Flight(outcome = "right")
               state == KeyedBy("hs", hash[Server])
               msgs == <<m>>
    <1>3. m.scheme = choice[Server].scheme
        BY DEF Flight
    <1>4. IsSeq(msgs) /\ ToSet(msgs) = {m}
        BY OneMessage
    <1>5. Send(Server, state, msgs, "send_flight")
        BY <1>2 DEF CalcPending
    <1>6. hash'[Server] = Append(hash[Server], Seen(m))
          /\ hash'[Client] = hash[Client]
        BY <1>0, <1>2 DEF Maps
    <1>7. pending'[Server].read = state /\ pending'[Client] = pending[Client]
        BY <1>0, <1>2 DEF Maps, CalcPending
    <1>8. IsState(state) /\ state.seq = 0
        BY KeyedFacts
    <1> HIDE DEF m, state, msgs
    <1>9. /\ at'[Server] = "send_flight"
          /\ writeState'[Server] = Advanced(state)
          /\ Fresh(out'[Server])
          /\ \A r \in ToSet(out'[Server]) :
                /\ r.msg \in ToSet(msgs)
                /\ r.key # NoKey => r.key = state.key /\ r.seq = state.seq
          /\ at'[Client] = at[Client] /\ out'[Client] = out[Client]
          /\ writeState'[Client] = writeState[Client]
        BY <1>0, <1>4, <1>5, <1>8, SendStep
    <1>10. \A r \in ToSet(out'[Server]) : Handshaking(r) =>
               r.msg = m /\ r.key = state.key /\ r.seq = 0
        BY <1>4, <1>8, <1>9, NoStateFacts DEF Handshaking
    <1>11. Proves(m)
        BY <1>1, <1>3, <1>6, <1>7, <1>8, <1>9, <1>10, AdvancedFacts
        DEF Proves, state
    <1>12. Stays(Client)
        BY <1>1, <1>6, <1>7, <1>9 DEF Stays, KeepsTalk
    <1>13. Wires
        BY <1>1, SentCarries DEF Wires
    <1> QED
        BY <1>1, <1>11, <1>12, <1>13 DEF ServerStep, ServerMoves

LEMMA CannotProveStep ==
    ASSUME Shape, Sessions, CannotProve
    PROVE  ServerStep /\ Wires
    <1>1. Wires
        BY SentCarries DEF CannotProve, Wires
    <1>2. Fail(Server) /\ clientCert' = clientCert
        BY DEF CannotProve, Fail, talkVars
    <1> QED
        BY <1>1, <1>2, FailStep DEF ServerStep, ServerMoves

LEMMA FlightSentStep ==
    ASSUME Shape, FlightSent
    PROVE  ServerStep /\ Wires
    <1>0. Maps /\ Server \in Ends /\ Client \in Ends \ {Server}
        BY DEF Shape
    <1>1. at[Server] = "send_flight" /\ Sent(Server, "send_flight")
          /\ UNCHANGED <<hash, choice, clientCert, session>>
        BY DEF FlightSent, endVars, Sent
    <1>2. /\ readState'[Server] = pending[Server].read
          /\ writeState'[Server] = KeyedBy("app", hash[Server])
          /\ master'[Server] = hash[Server]
          /\ pending'[Server].read = KeyedBy("app", hash[Server])
          /\ readState'[Client] = readState[Client]
          /\ writeState'[Client] = writeState[Client]
          /\ pending'[Client] = pending[Client]
          /\ master'[Client] = master[Client]
        BY <1>0 DEF FlightSent, CalcPending, Maps
    <1>3. Goto(Server,
               IF choice[Server].request THEN "wait_cert" ELSE "wait_finished")
        BY DEF FlightSent
    <1>4. IsState(writeState'[Server]) /\ writeState'[Server].key.epoch = "app"
          /\ ForApplication(pending'[Server].read)
        BY <1>2 DEF KeyedBy, IsState, ForApplication
    <1>5. Settles
        BY <1>0, <1>1, <1>2, <1>3, <1>4, GotoStep DEF Settles
    <1>6. Stays(Client)
        BY <1>0, <1>1, <1>2, <1>3, GotoStep DEF Stays, KeepsTalk
    <1>7. Wires
        BY <1>1, SentCarries DEF Wires
    <1> QED
        BY <1>1, <1>5, <1>6, <1>7 DEF ServerStep, ServerMoves

\* Reading a message of the client's answer.
LEMMA HearsStep ==
    ASSUME Shape, NEW where, NEW type, Receives(Server, where, type),
           hash' = [hash EXCEPT ![Server] = Hashed(Server,
                                                   Upcoming(Server).msg)],
           UNCHANGED <<master, choice>>
    PROVE  /\ Hears /\ Wires
           /\ at[Server] = where /\ Upcoming(Server).msg.type = type
           /\ hash'[Client] = hash[Client]
    <1>1. Maps
        BY DEF Shape
    <1>2. /\ at[Server] = where /\ Incoming(Server) /\ Opens(Server)
          /\ Upcoming(Server).msg.type = type
          /\ IsRecord(Upcoming(Server))
          /\ Upcoming(Server) \in ToSet(wire[Client])
          /\ Wires
        BY ReceivesFacts DEF Peer
    <1>3. /\ hash'[Server] = Hashed(Server, Upcoming(Server).msg)
          /\ hash'[Client] = hash[Client]
        BY <1>1 DEF Maps
    <1> QED
        BY <1>2, <1>3 DEF Hears, Hashed

LEMMA ReadCertificateStep ==
    ASSUME Shape, ReadCertificate
    PROVE  ServerStep /\ Wires
    <1>0. Maps /\ Server \in Ends /\ Client \in Ends \ {Server}
        BY DEF Shape
    <1>1. /\ Receives(Server, "wait_cert", "certificate")
          /\ hash' = [hash EXCEPT ![Server] = Hashed(Server,
                                                     Upcoming(Server).msg)]
          /\ UNCHANGED <<writeState, pending, choice, master, session>>
        BY DEF ReadCertificate, endVars
    <1>2. /\ Hears /\ Wires /\ at[Server] = "wait_cert"
          /\ Upcoming(Server).msg.type = "certificate"
          /\ hash'[Client] = hash[Client]
        BY <1>1, HearsStep
    <1>3. /\ clientCert' = Upcoming(Server).msg.cert
          /\ Goto(Server, IF clientCert' = "none" THEN "wait_finished"
                                                 ELSE "wait_verify")
        BY DEF ReadCertificate
    <1>4. readState'[Server] = Counted(Server)
          /\ readState'[Client] = readState[Client]
        BY <1>0 DEF ReadCertificate, Maps
    <1>5. /\ at'[Server] =
                IF clientCert' = "none" THEN "wait_finished" ELSE "wait_verify"
          /\ out'[Server] = <<>> /\ at'[Client] = at[Client]
          /\ out'[Client] = out[Client]
        BY <1>0, <1>3, GotoStep
    <1>6. Checks
        BY <1>1, <1>2, <1>3, <1>4, <1>5 DEF Checks
    <1>7. Stays(Client)
        BY <1>1, <1>2, <1>4, <1>5 DEF Stays, KeepsTalk
    <1> QED
        BY <1>2, <1>6, <1>7 DEF ServerStep, ServerMoves

LEMMA ReadVerifyStep ==
    ASSUME Shape, ReadVerify
    PROVE  ServerStep /\ Wires
    <1>0. Maps /\ Server \in Ends /\ Client \in Ends \ {Server}
        BY DEF Shape
    <1>1. /\ Receives(Server, "wait_verify", "certificate_verify")
          /\ hash' = [hash EXCEPT ![Server] = Hashed(Server,
                                                     Upcoming(Server).msg)]
          /\ UNCHANGED <<writeState, pending, choice, master, session,
                         clientCert>>
        BY DEF ReadVerify, endVars
    <1>2. /\ Hears /\ Wires /\ at[Server] = "wait_verify"
          /\ hash'[Client] = hash[Client]
        BY <1>1, HearsStep
    <1>3. Goto(Server, "wait_finished")
        BY DEF ReadVerify
    <1>4. readState'[Server] = Counted(Server)
          /\ readState'[Client] = readState[Client]
        BY <1>0 DEF ReadVerify, Maps
    <1>5. /\ at'[Server] = "wait_finished"
          /\ out'[Server] = <<>> /\ at'[Client] = at[Client]
          /\ out'[Client] = out[Client]
        BY <1>0, <1>3, GotoStep
    <1>6. Checks
        BY <1>1, <1>2, <1>4, <1>5 DEF Checks
    <1>7. Stays(Client)
        BY <1>1, <1>2, <1>4, <1>5 DEF Stays, KeepsTalk
    <1> QED
        BY <1>2, <1>6, <1>7 DEF ServerStep, ServerMoves

LEMMA ReadFinishedStep ==
    ASSUME Shape, Speaks, ServerChecking, ReadFinished
    PROVE  ServerStep /\ Wires
    <1>0. Maps /\ Server \in Ends /\ Client \in Ends \ {Server}
          /\ IsState(writeState[Server])
        BY DEF Shape
    <1>1. /\ Receives(Server, "wait_finished", "finished")
          /\ hash' = [hash EXCEPT ![Server] = Hashed(Server,
                                                     Upcoming(Server).msg)]
          /\ UNCHANGED <<choice, master, clientCert>>
        BY DEF ReadFinished
    <1>2. /\ Hears /\ Wires /\ at[Server] = "wait_finished"
          /\ Upcoming(Server).msg.type = "finished"
          /\ hash'[Client] = hash[Client]
        BY <1>1, HearsStep
    <1>3. /\ session'[Server] = NewSession(Server, SessionCert, hash[Server],
                                           hash'[Server])
          /\ session'[Client] = session[Client]
        BY <1>0, <1>1 DEF ReadFinished, Exporter, Maps
    <1>4. /\ readState'[Server] = pending[Server].read
          /\ readState'[Client] = readState[Client]
          /\ pending'[Client] = pending[Client]
        BY <1>0 DEF ReadFinished, Maps
    <1>5. writeState[Server].key.epoch # "hs" /\ IsState(pending[Server].read)
        BY <1>2 DEF Speaks, Waiting, ServerChecking, Checking, ForApplication
    <1>6. /\ at'[Server] \in {"send_tickets", "send_reject", "done"}
          /\ IsState(writeState'[Server])
          /\ writeState'[Server].key.epoch # "hs"
          /\ Fresh(out'[Server]) /\ NoHandshakeRecord(out'[Server])
          /\ at'[Client] = at[Client] /\ out'[Client] = out[Client]
          /\ writeState'[Client] = writeState[Client]
        <2>1. CASE server.tickets
            <3>1. Send(Server, writeState[Server], <<Simple("tickets")>>,
                       "send_tickets")
                  /\ IsSeq(<<Simple("tickets")>>)
                BY <2>1, OneMessage DEF ReadFinished
            <3>2. /\ at'[Server] = "send_tickets"
                  /\ writeState'[Server] = Advanced(writeState[Server])
                  /\ Fresh(out'[Server])
                  /\ \A r \in ToSet(out'[Server]) : r.key # NoKey =>
                        r.key = writeState[Server].key
                  /\ at'[Client] = at[Client] /\ out'[Client] = out[Client]
                  /\ writeState'[Client] = writeState[Client]
                BY <1>0, <3>1, SendStep
            <3>3. NoHandshakeRecord(out'[Server])
                BY <1>5, <3>2, NoStateFacts DEF NoHandshakeRecord, Handshaking
            <3> QED
                BY <1>0, <1>5, <3>2, <3>3, AdvancedFacts
        <2>2. CASE ~server.tickets
            <3>1. Conclude(Server, writeState[Server], FALSE)
                BY <2>2 DEF ReadFinished
            <3> QED
                BY <1>0, <1>5, <3>1, ConcludeStep
        <2> QED
            BY <2>1, <2>2
    <1>7. ServerConcludes
        BY <1>2, <1>3, <1>4, <1>5, <1>6 DEF ServerConcludes
    <1>8. Stays(Client)
        BY <1>1, <1>2, <1>3, <1>4, <1>6 DEF Stays, KeepsTalk
    <1> QED
        BY <1>1, <1>2, <1>7, <1>8 DEF ServerStep, ServerMoves

LEMMA TicketsSentStep ==
    ASSUME Shape, Speaks, TicketsSent
    PROVE  ServerStep /\ Wires
    <1>0. Maps /\ Server \in Ends /\ Client \in Ends \ {Server}
          /\ IsState(writeState[Server]) /\ IsState(readState[Server])
        BY DEF Shape
    <1>1. at[Server] = "send_tickets" /\ Sent(Server, "send_tickets")
          /\ UNCHANGED <<readState, pending, hash, choice, master, clientCert,
                         session>>
        BY DEF TicketsSent, talkVars, Sent
    <1>2. writeState[Server].key.epoch # "hs"
        BY <1>0, <1>1 DEF Speaks
    <1>3. Conclude(Server, writeState[Server], FALSE)
        BY DEF TicketsSent
    <1>4. /\ at'[Server] \in {"send_reject", "done"}
          /\ IsState(writeState'[Server])
          /\ writeState'[Server].key.epoch # "hs"
          /\ Fresh(out'[Server]) /\ NoHandshakeRecord(out'[Server])
          /\ at'[Client] = at[Client] /\ out'[Client] = out[Client]
          /\ writeState'[Client] = writeState[Client]
        BY <1>0, <1>2, <1>3, ConcludeStep
    <1>5. Stops(Server) /\ Stays(Client)
        BY <1>0, <1>1, <1>4 DEF Stops, Stays, KeepsTalk, Concluded
    <1>6. Wires
        BY <1>1, SentCarries DEF Wires
    <1> QED
        BY <1>1, <1>5, <1>6 DEF ServerStep, ServerMoves

-----------------------------------------------------------------------------
(***************************************************************************)
(* The steps of either end, of the applications and of the network.        *)
(***************************************************************************)
CommonStep(e) ==
    /\ Stops(e) \/ Stays(e) \/ Uses(e)
    /\ \A p \in Ends \ {e} : Stays(p)
    /\ clientCert' = clientCert

LEMMA IncomingCarries ==
    ASSUME Shape, NEW e \in Ends, Incoming(e), Take(e)
    PROVE  Wires
    BY TakeCarries DEF Wires

LEMMA FailCommon ==
    ASSUME Shape, Sessions, NEW e \in Ends, Fail(e)
    PROVE  CommonStep(e)
    BY FailStep DEF CommonStep, Fail, talkVars

LEMMA SkipCcsStep ==
    ASSUME Shape, NEW e \in Ends, SkipCcs(e)
    PROVE  CommonStep(e) /\ Wires
    <1>1. UNCHANGED <<at, out, writeState, readState, pending, hash, choice,
                      master, clientCert, session>>
        BY DEF SkipCcs, keyVars, talkVars, endVars
    <1>2. Wires
        BY IncomingCarries DEF SkipCcs
    <1> QED
        BY <1>1, <1>2 DEF CommonStep, Stays, KeepsTalk

LEMMA GetAlertStep ==
    ASSUME Shape, Sessions, NEW e \in Ends, GetAlert(e)
    PROVE  CommonStep(e) /\ Wires
    BY IncomingCarries, FailCommon DEF GetAlert

LEMMA RefuseStep ==
    ASSUME Shape, Speaks, NEW e \in Ends, Refuse(e)
    PROVE  CommonStep(e) /\ Wires
    <1>1. Wires /\ at[e] \in Waiting /\ SendError(e)
        BY IncomingCarries DEF Refuse
    <1>2. UNCHANGED <<pending, hash, choice, master, clientCert, session>>
        BY DEF Refuse, talkVars, endVars
    <1>3. Stops(e) /\ \A p \in Ends \ {e} : Stays(p)
        BY <1>1, <1>2, ErrorStep DEF Refuse
    <1> QED
        BY <1>1, <1>2, <1>3 DEF CommonStep

LEMMA AlertSentStep ==
    ASSUME Shape, Sessions, NEW e \in Ends, AlertSent(e)
    PROVE  CommonStep(e) /\ Wires
    <1>1. PICK where \in {"send_alert", "send_reject"} : Sent(e, where)
        BY DEF AlertSent
    <1>2. Wires
        BY <1>1, SentCarries DEF Wires
    <1> QED
        BY <1>2, FailCommon DEF AlertSent

LEMMA PeerGoneStep ==
    ASSUME Shape, Sessions, NEW e \in Ends, PeerGone(e) \/ FlushFails(e)
    PROVE  CommonStep(e) /\ Wires
    <1>1. Wires
        BY StillCarries DEF PeerGone, FlushFails, netVars, Wires
    <1> QED
        BY <1>1, FailCommon DEF PeerGone, FlushFails

LEMMA SendFailsStep ==
    ASSUME Shape, Sessions, NEW e \in Ends, SendFails(e)
    PROVE  CommonStep(e) /\ Wires
    <1>0. Maps /\ IsState(writeState[e]) /\ IsState(readState[e])
        BY DEF Shape
    <1>1. /\ Goto(e, IF at[e] = "send_tickets" THEN "salvage_tickets"
                                              ELSE "salvage")
          /\ UNCHANGED <<writeState, readState, pending, hash, choice, master,
                         clientCert, session, wire>>
          /\ at[e] \in {"send_hello", "send_cert", "send_verify",
                        "send_flight", "send_tickets"}
        BY DEF SendFails, keyVars, talkVars, endVars, netVars
    <1>2. /\ at'[e] =
                IF at[e] = "send_tickets" THEN "salvage_tickets" ELSE "salvage"
          /\ out'[e] = <<>>
          /\ Fresh(out'[e]) /\ NoHandshakeRecord(out'[e])
          /\ \A p \in Ends \ {e} : at'[p] = at[p] /\ out'[p] = out[p]
        BY <1>0, <1>1, GotoStep
    <1>3. Stops(e) /\ \A p \in Ends \ {e} : Stays(p)
        BY <1>0, <1>1, <1>2 DEF Stops, Stays, KeepsTalk, Concluded
    <1> QED
        BY <1>1, <1>3, StillCarries DEF CommonStep, Wires

LEMMA SalvageFailsStep ==
    ASSUME Shape, Sessions, NEW e \in Ends, SalvageFails(e)
    PROVE  CommonStep(e) /\ Wires
    <1>1. Wires
        BY IncomingCarries, StillCarries DEF SalvageFails, netVars, Wires
    <1> QED
        BY <1>1, FailCommon DEF SalvageFails

LEMMA SalvageFallsThroughStep ==
    ASSUME Shape, Sessions, NEW e \in Ends, SalvageFallsThrough(e)
    PROVE  CommonStep(e) /\ Wires
    <1>0. Maps
        BY DEF Shape
    <1>1. Wires
        BY IncomingCarries DEF SalvageFallsThrough
    <1>2. /\ Goto(e, IF server.rejects THEN "failed" ELSE "done")
          /\ at[e] = "salvage_tickets"
          /\ UNCHANGED <<hash, choice, master, clientCert>>
        BY DEF SalvageFallsThrough, talkVars
    <1>3. session'[e] = [session[e] EXCEPT !.resumable = FALSE]
          /\ \A p \in Ends \ {e} : session'[p] = session[p]
        BY <1>0 DEF SalvageFallsThrough, DropSession, Maps
    <1>4. ~session'[e].resumable
        BY <1>3, Dropped DEF Sessions
    <1>5. /\ writeState'[e] = NoState /\ readState'[e] = NoState
          /\ \A p \in Ends \ {e} : /\ writeState'[p] = writeState[p]
                                   /\ readState'[p] = readState[p]
                                   /\ pending'[p] = pending[p]
        BY <1>0 DEF SalvageFallsThrough, ResetStates, Maps
    <1>6. /\ at'[e] = IF server.rejects THEN "failed" ELSE "done"
          /\ Fresh(out'[e]) /\ NoHandshakeRecord(out'[e])
          /\ \A p \in Ends \ {e} : at'[p] = at[p] /\ out'[p] = out[p]
        BY <1>0, <1>2, GotoStep
    <1>7. Stops(e)
        BY <1>2, <1>3, <1>4, <1>5, <1>6, NoStateFacts
        DEF Stops, KeepsTalk, Concluded
    <1>8. \A p \in Ends \ {e} : Stays(p)
        BY <1>2, <1>3, <1>5, <1>6 DEF Stays, KeepsTalk
    <1> QED
        BY <1>1, <1>2, <1>7, <1>8 DEF CommonStep

LEMMA ReadsOnStep ==
    ASSUME Shape, NEW e \in Ends, ReadsOn(e)
    PROVE  CommonStep(e) /\ Wires
    <1>0. Maps /\ IsState(writeState[e]) /\ IsState(readState[e])
        BY DEF Shape
    <1>1. Wires
        BY IncomingCarries DEF ReadsOn
    <1>2. /\ at[e] = "done"
          /\ UNCHANGED <<at, out, writeState, pending, hash, choice, master,
                         clientCert, session>>
        BY DEF ReadsOn, talkVars, endVars
    <1>3. /\ readState'[e] = Counted(e)
          /\ \A p \in Ends \ {e} : readState'[p] = readState[p]
        BY <1>0 DEF ReadsOn, Maps
    <1>4. IsState(readState'[e])
        BY <1>0, <1>3, AdvancedFacts DEF Counted
    <1> QED
        BY <1>0, <1>1, <1>2, <1>3, <1>4 DEF CommonStep, Uses, Stays, KeepsTalk

\* Application data is not under a handshake key.
LEMMA ClientWritesStep ==
    ASSUME Shape, Speaks, ClientWrites
    PROVE  CommonStep(Client) /\ Wires
    <1>0. /\ Maps /\ IsState(writeState[Client]) /\ IsState(readState[Client])
          /\ \A p \in Ends : IsSeq(wire[p])
             /\ \A r \in UnderWay(p) : IsRecord(r)
        BY DEF Shape
    <1>1. /\ at[Client] = "done"
          /\ UNCHANGED <<at, out, readState, pending, hash, choice, master,
                         clientCert, session>>
        BY DEF ClientWrites, talkVars, endVars
    <1>2. /\ writeState'[Client] = Advanced(writeState[Client])
          /\ writeState'[Server] = writeState[Server]
        BY <1>0 DEF ClientWrites, Maps
    <1>3. CommonStep(Client)
        BY <1>0, <1>1, <1>2, AdvancedFacts
        DEF CommonStep, Uses, Stays, KeepsTalk
    <1> DEFINE msgs == <<Simple("data")>>
               new == Sealed(writeState[Client], msgs)
    <1>4. /\ wire'[Server] = wire[Server]
          /\ \/ wire'[Client] = wire[Client]
             \/ wire'[Client] = wire[Client] \o new
        BY <1>0 DEF ClientWrites, Maps
    <1>5. IsSeq(msgs)
        BY OneMessage
    <1> HIDE DEF msgs
    <1>6. IsSeq(new) /\ \A r \in ToSet(new) : IsRecord(r)
          /\ (r.key = NoKey \/ r.key = writeState[Client].key)
        BY <1>5, SealedFacts DEF IsRecord
    <1> HIDE DEF new
    <1>7. \A r \in ToSet(new) : ~Handshaking(r)
        BY <1>0, <1>1, <1>6, NoStateFacts DEF Speaks, Handshaking
    <1>8. Carries(Client)
        <2>1. \A r \in ToSet(wire[Client]) : IsRecord(r)
            BY <1>0 DEF UnderWay
        <2>2. CASE wire'[Client] = wire[Client]
            BY <1>0, <2>1, <2>2 DEF Carries
        <2>3. CASE wire'[Client] = wire[Client] \o new
            <3>1. /\ IsSeq(wire'[Client])
                  /\ ToSet(wire'[Client]) = ToSet(wire[Client]) \cup ToSet(new)
                BY <1>0, <1>6, <2>3, ConcatFacts
            <3> QED
                BY <1>6, <1>7, <2>1, <3>1 DEF Carries
        <2> QED
            BY <1>4, <2>2, <2>3
    <1>9. Carries(Server)
        BY <1>0, <1>4 DEF Carries, UnderWay
    <1> QED
        BY <1>3, <1>8, <1>9 DEF Wires

\* Records that are lost were the last ones.
LEMMA BreakStep ==
    ASSUME Shape, Break
    PROVE  CommonStep(Client) /\ Wires
    <1>0. /\ Maps
          /\ \A p \in Ends : IsSeq(wire[p])
             /\ \A r \in UnderWay(p) : IsRecord(r)
        BY DEF Shape
    <1>1. UNCHANGED <<at, out, writeState, readState, pending, hash, choice,
                      master, clientCert, session>>
        BY DEF Break, keyVars, talkVars, endVars
    <1>2. PICK m \in 0..Len(wire[Client]), n \in 0..Len(wire[Server]) :
              wire' = [wire EXCEPT ![Client] = SubSeq(@, 1, m),
                                   ![Server] = SubSeq(@, 1, n)]
        BY DEF Break
    <1>3. wire'[Client] = SubSeq(wire[Client], 1, m)
          /\ wire'[Server] = SubSeq(wire[Server], 1, n)
        BY <1>0, <1>2 DEF Maps
    <1>4. Carries(Client)
        BY <1>0, <1>3, SubSeqFacts DEF Carries, UnderWay
    <1>5. Carries(Server)
        BY <1>0, <1>3, SubSeqFacts DEF Carries, UnderWay
    <1> QED
        BY <1>1, <1>4, <1>5 DEF CommonStep, Stays, KeepsTalk, Wires

\* A damaged record is no handshake record any more.
LEMMA DamageStep ==
    ASSUME Shape, Damage
    PROVE  CommonStep(Client) /\ Wires
    <1>0. /\ Maps
          /\ \A p \in Ends : IsSeq(wire[p])
             /\ \A r \in UnderWay(p) : IsRecord(r)
        BY DEF Shape
    <1>1. UNCHANGED <<at, out, writeState, readState, pending, hash, choice,
                      master, clientCert, session>>
        BY DEF Damage, keyVars, talkVars, endVars
    <1>e. PICK e \in Ends : \E i \in DOMAIN wire[e] :
              wire' = [wire EXCEPT ![e][i].intact = FALSE]
        BY DEF Damage
    <1>2. PICK i \in DOMAIN wire[e] :
              wire' = [wire EXCEPT ![e][i].intact = FALSE]
        BY <1>e
    <1>3. /\ wire'[e] = [wire[e] EXCEPT ![i].intact = FALSE]
          /\ \A p \in Ends \ {e} : wire'[p] = wire[p]
        BY <1>0, <1>2 DEF Maps
    <1> DEFINE s == wire[e]
               t == wire'[e]
    <1>4. /\ Len(s) \in Nat /\ DOMAIN s = 1..Len(s) /\ i \in 1..Len(s)
          /\ s = [j \in 1..Len(s) |-> s[j]]
          /\ \A j \in 1..Len(s) : IsRecord(s[j]) /\ s[j] \in ToSet(s)
        <2>1. s \in Seq(ToSet(s)) /\ IsSeq(s)
            BY <1>0 DEF IsSeq
        <2>2. Len(s) \in Nat /\ DOMAIN s = 1..Len(s)
              /\ s \in [1..Len(s) -> ToSet(s)]
            BY <2>1, LenProperties
        <2>3. \A j \in 1..Len(s) : s[j] \in ToSet(s)
            BY <2>1, SeqFacts
        <2> QED
            BY <1>0, <2>2, <2>3 DEF UnderWay
    <1>5. t = [j \in 1..Len(s) |->
                 IF j = i THEN [s[i] EXCEPT !.intact = FALSE] ELSE s[j]]
        BY <1>3, <1>4
    <1> HIDE DEF s, t
    <1>6. [s[i] EXCEPT !.intact = FALSE].intact = FALSE
          /\ IsRecord([s[i] EXCEPT !.intact = FALSE])
        <2>1. ASSUME NEW r, IsRecord(r), NEW c, c = [r EXCEPT !.intact = FALSE]
              PROVE  IsRecord(c) /\ c.intact = FALSE
            BY <2>1 DEF IsRecord
        <2> QED
            BY <1>4, <2>1
    <1>7. \A r \in ToSet(t) : IsRecord(r) /\ (Handshaking(r) => r \in ToSet(s))
        <2>1. ToSet(t) = {t[j] : j \in 1..Len(s)}
            BY <1>5 DEF ToSet
        <2>2. ASSUME NEW j \in 1..Len(s)
              PROVE  IsRecord(t[j]) /\ (Handshaking(t[j]) => t[j] \in ToSet(s))
            <3>1. CASE j = i
                BY <1>4, <1>5, <1>6, <3>1 DEF Handshaking
            <3>2. CASE j # i
                BY <1>4, <1>5, <3>2
            <3> QED
                BY <3>1, <3>2
        <2> QED
            BY <2>1, <2>2
    <1>8. IsSeq(t)
        <2>1. t \in [1..Len(s) -> ToSet(t)]
            BY <1>5 DEF ToSet
        <2>2. t \in Seq(ToSet(t))
            BY <1>4, <2>1, SeqDef
        <2> QED
            BY <2>2 DEF IsSeq
    <1>9. Carries(e)
        BY <1>7, <1>8 DEF Carries, s, t
    <1>10. \A p \in Ends \ {e} : Carries(p)
        BY <1>0, <1>3 DEF Carries, UnderWay
    <1> QED
        BY <1>1, <1>9, <1>10 DEF CommonStep, Stays, KeepsTalk, Wires

-----------------------------------------------------------------------------
(***************************************************************************)
(* Each step leaves every variable of the two ends a function of the ends. *)
(***************************************************************************)
IsMap(f) == f = [e \in Ends |-> f[e]]

LEMMA SendMaps ==
    ASSUME Maps, NEW e \in Ends, NEW state, NEW msgs, NEW where \in Places,
           Send(e, state, msgs, where)
    PROVE  at' \in [Ends -> Places] /\ IsMap(out') /\ IsMap(writeState')
    BY DEF Maps, Send, IsMap

LEMMA GotoMaps ==
    ASSUME Maps, NEW e \in Ends, NEW where \in Places, Goto(e, where)
    PROVE  at' \in [Ends -> Places] /\ IsMap(out')
    BY DEF Maps, Goto, IsMap

LEMMA SentMaps ==
    ASSUME Maps, NEW e \in Ends, NEW where, Sent(e, where)
    PROVE  IsMap(wire')
    BY DEF Maps, Sent, IsMap

LEMMA TakeMaps ==
    ASSUME Maps, NEW e \in Ends, Take(e)
    PROVE  IsMap(wire')
    BY DEF Maps, Take, IsMap, Peer

LEMMA FailMaps ==
    ASSUME Maps, NEW e \in Ends, Fail(e), IsMap(wire')
    PROVE  Maps'
    <1>1. at' \in [Ends -> Places] /\ IsMap(out')
        BY GotoMaps DEF Fail, Places
    <1>2. IsMap(writeState') /\ IsMap(readState') /\ IsMap(pending')
        BY DEF Fail, ResetStates, Maps, IsMap
    <1>3. IsMap(session')
        BY DEF Fail, DropSession, Maps, IsMap
    <1>4. UNCHANGED <<setup, hash, choice, master>>
        BY DEF Fail, talkVars
    <1> QED
        BY <1>1, <1>2, <1>3, <1>4 DEF Maps, IsMap

LEMMA ConcludeMaps ==
    ASSUME Maps, NEW e \in Ends, NEW state, NEW resumption,
           Conclude(e, state, resumption)
    PROVE  at' \in [Ends -> Places] /\ IsMap(out') /\ IsMap(writeState')
    <1>1. CASE Send(e, state, <<Simple("alert")>>, "send_reject")
        BY <1>1, SendMaps DEF Places
    <1>2. CASE Goto(e, "done")
               /\ writeState' = [writeState EXCEPT ![e] = state]
        BY <1>2, GotoMaps DEF Places, Maps, IsMap
    <1> QED
        BY <1>1, <1>2 DEF Conclude

LEMMA ErrorMaps ==
    ASSUME Maps, NEW e \in Ends, SendError(e)
    PROVE  at' \in [Ends -> Places] /\ IsMap(out') /\ IsMap(writeState')
    BY SendMaps DEF SendError, Places

LEMMA FinishesMaps ==
    ASSUME Maps, NEW state, NEW h, NEW t, ClientFinishes(state, h, t)
    PROVE  /\ at' \in [Ends -> Places] /\ IsMap(out') /\ IsMap(writeState')
           /\ IsMap(readState') /\ IsMap(pending') /\ IsMap(hash')
    <1> DEFINE finished == Simple("finished")
               msgs == IF ccsSent[Client] THEN <<finished>>
                       ELSE <<Simple("ccs"), finished>>
    <1>1. Send(Client, state, msgs, "send_finished")
        BY DEF ClientFinishes
    <1>2. at' \in [Ends -> Places] /\ IsMap(out') /\ IsMap(writeState')
        BY <1>1, SendMaps DEF Places
    <1> QED
        BY <1>2 DEF ClientFinishes, Maps, IsMap

LEMMA ClientMaps ==
    ASSUME Maps, ClientSteps
    PROVE  Maps'
    <1>1. ASSUME NEW where, NEW type, Receives(Client, where, type)
          PROVE  IsMap(wire')
        BY <1>1, TakeMaps DEF Receives
    <1>2. ASSUME SendClientHello
          PROVE  Maps'
        <2>1. at' \in [Ends -> Places] /\ IsMap(out') /\ IsMap(writeState')
            BY <1>2, SendMaps DEF SendClientHello, Places
        <2> QED
            BY <1>2, <2>1 DEF SendClientHello, endVars, netVars, Maps, IsMap
    <1>3. ASSUME ClientHelloSent \/ SecondHelloSent
          PROVE  Maps'
        <2>1. at' \in [Ends -> Places] /\ IsMap(out') /\ IsMap(wire')
            BY <1>3, GotoMaps, SentMaps
            DEF ClientHelloSent, SecondHelloSent, Places
        <2> QED
            BY <1>3, <2>1
            DEF ClientHelloSent, SecondHelloSent, keyVars, talkVars,
               endVars, Maps, IsMap
    <1>4. ASSUME ReadRetry
          PROVE  Maps'
        <2>1. PICK m, second, new :
                 /\ Send(Client, writeState[Client], <<Simple("ccs"),
                                                       second>>, "send_second")
                 /\ hash' = [hash EXCEPT ![Client] = new]
            BY <1>4 DEF ReadRetry
        <2>2. at' \in [Ends -> Places] /\ IsMap(out') /\ IsMap(writeState')
            BY <2>1, SendMaps DEF Places
        <2>3. IsMap(wire')
            BY <1>1, <1>4 DEF ReadRetry
        <2> QED
            BY <1>4, <2>1, <2>2, <2>3 DEF ReadRetry, endVars, Maps, IsMap
    <1>5. ASSUME RefuseRetry \/ RefuseProof
          PROVE  Maps'
        <2>1. at' \in [Ends -> Places] /\ IsMap(out') /\ IsMap(writeState')
            BY <1>5, ErrorMaps DEF RefuseRetry, RefuseProof
        <2>2. IsMap(wire')
            BY <1>1, <1>5 DEF RefuseRetry, RefuseProof
        <2> QED
            BY <1>5, <2>1, <2>2
            DEF RefuseRetry, RefuseProof, talkVars, endVars,
               Maps, IsMap
    <1>6. ASSUME ReadServerHello
          PROVE  Maps'
        <2>1. PICK m :
                 LET h == Hashed(Client, m)
                     keys == CalcPending("hs", h)
                 IN  /\ hash' = [hash EXCEPT ![Client] = h]
                     /\ readState' = [readState EXCEPT ![Client] = keys.read]
                     /\ pending' = [pending EXCEPT ![Client] =
                                       [keys EXCEPT !.read = NoState]]
                     /\ choice' = [choice EXCEPT ![Client] =
                                      [NoChoice EXCEPT !.group = m.group,
                                                       !.psk = m.psk]]
            BY <1>6 DEF ReadServerHello
        <2>2. at' \in [Ends -> Places] /\ IsMap(out')
            BY <1>6, GotoMaps DEF ReadServerHello, Places
        <2>3. IsMap(wire')
            BY <1>1, <1>6 DEF ReadServerHello
        <2> QED
            BY <1>6, <2>1, <2>2, <2>3 DEF ReadServerHello, endVars, Maps, IsMap
    <1>7. ASSUME RejectServerHello \/ CannotSign
          PROVE  Maps'
        <2>1. IsMap(wire')
            BY <1>1, <1>7, SentMaps DEF RejectServerHello, CannotSign
        <2> QED
            BY <1>7, <2>1, FailMaps DEF RejectServerHello, CannotSign
    <1>8. ASSUME ReadFlight
          PROVE  Maps'
        <2>1. PICK h : /\ master' = [master EXCEPT ![Client] = h]
                       /\ ClientFinishes(pending[Client].write, h, h)
            BY <1>8 DEF ReadFlight
        <2>2. /\ at' \in [Ends -> Places] /\ IsMap(out') /\ IsMap(writeState')
              /\ IsMap(readState') /\ IsMap(pending') /\ IsMap(hash')
            BY <2>1, FinishesMaps
        <2>3. IsMap(wire')
            BY <1>1, <1>8 DEF ReadFlight
        <2> QED
            BY <1>8, <2>1, <2>2, <2>3 DEF ReadFlight, endVars, Maps, IsMap
    <1>9. ASSUME ReadFlightRequesting
          PROVE  Maps'
        <2>1. PICK h, answer, new :
                 /\ master' = [master EXCEPT ![Client] = h]
                 /\ Send(Client, pending[Client].write, <<answer>>,
                         "send_cert")
                 /\ hash' = [hash EXCEPT ![Client] = new]
            BY <1>9 DEF ReadFlightRequesting
        <2>2. at' \in [Ends -> Places] /\ IsMap(out') /\ IsMap(writeState')
            BY <2>1, SendMaps DEF Places
        <2>3. IsMap(wire')
            BY <1>1, <1>9 DEF ReadFlightRequesting
        <2> QED
            BY <1>9, <2>1, <2>2, <2>3
            DEF ReadFlightRequesting, endVars, Maps, IsMap
    <1>10. ASSUME EmptyCertificateSent \/ VerifySent
           PROVE  Maps'
        <2>1. IsMap(wire')
            BY <1>10, SentMaps DEF EmptyCertificateSent, VerifySent
        <2>2. /\ at' \in [Ends -> Places] /\ IsMap(out') /\ IsMap(writeState')
              /\ IsMap(readState') /\ IsMap(pending') /\ IsMap(hash')
            BY <1>10, FinishesMaps DEF EmptyCertificateSent, VerifySent
        <2> QED
            BY <1>10, <2>1, <2>2 DEF EmptyCertificateSent, VerifySent, endVars,
               Maps, IsMap
    <1>11. ASSUME CertificateSent
           PROVE  Maps'
        <2>1. PICK verify :
                 /\ Send(Client, writeState[Client], <<verify>>, "send_verify")
                 /\ hash' = [hash EXCEPT ![Client] = Append(@, Seen(verify))]
            BY <1>11 DEF CertificateSent
        <2>2. at' \in [Ends -> Places] /\ IsMap(out') /\ IsMap(writeState')
            BY <2>1, SendMaps DEF Places
        <2>3. IsMap(wire')
            BY <1>11, SentMaps DEF CertificateSent
        <2> QED
            BY <1>11, <2>1, <2>2, <2>3
            DEF CertificateSent, endVars, Maps, IsMap
    <1>12. ASSUME ClientFinishedSent
           PROVE  Maps'
        <2>1. at' \in [Ends -> Places] /\ IsMap(out') /\ IsMap(writeState')
            BY <1>12, ConcludeMaps DEF ClientFinishedSent
        <2>2. IsMap(wire')
            BY <1>12, SentMaps DEF ClientFinishedSent
        <2> QED
            BY <1>12, <2>1, <2>2 DEF ClientFinishedSent, talkVars, Maps, IsMap
    <1> QED
        BY <1>2, <1>3, <1>4, <1>5, <1>6, <1>7, <1>8, <1>9, <1>10, <1>11, <1>12
        DEF ClientSteps

LEMMA AnswerMaps ==
    ASSUME Maps, NEW m, Answer(m)
    PROVE  /\ at' \in [Ends -> Places] /\ IsMap(out') /\ IsMap(writeState')
           /\ IsMap(hash') /\ IsMap(choice')
    <1>1. PICK msgs, h, c :
             /\ Send(Server, writeState[Server], msgs, "send_answer")
             /\ hash' = [hash EXCEPT ![Server] = h]
             /\ choice' = [choice EXCEPT ![Server] = c]
        BY DEF Answer
    <1>2. at' \in [Ends -> Places] /\ IsMap(out') /\ IsMap(writeState')
        BY <1>1, SendMaps DEF Places
    <1> QED
        BY <1>1, <1>2 DEF Maps, IsMap

LEMMA ServerMaps ==
    ASSUME Maps, ServerSteps
    PROVE  Maps'
    <1>1. ASSUME NEW where, NEW type, Receives(Server, where, type)
          PROVE  IsMap(wire')
        BY <1>1, TakeMaps DEF Receives
    <1>2. ASSUME ReadHello \/ ReadSecondHello
          PROVE  Maps'
        <2>1. /\ at' \in [Ends -> Places] /\ IsMap(out') /\ IsMap(writeState')
              /\ IsMap(hash') /\ IsMap(choice')
            BY <1>2, AnswerMaps DEF ReadHello, ReadSecondHello
        <2>2. IsMap(wire')
            BY <1>1, <1>2 DEF ReadHello, ReadSecondHello
        <2> QED
            BY <1>2, <2>1, <2>2
            DEF ReadHello, ReadSecondHello, endVars, Maps, IsMap
    <1>3. ASSUME ReadHelloRetrying
          PROVE  Maps'
        <2>1. PICK m, retry, h :
                 /\ Send(Server, writeState[Server], <<retry, Simple("ccs")>>,
                         "send_retry")
                 /\ hash' = [hash EXCEPT ![Server] = h]
                 /\ choice' = [choice EXCEPT ![Server].group = retry.group]
            BY <1>3 DEF ReadHelloRetrying
        <2>2. at' \in [Ends -> Places] /\ IsMap(out') /\ IsMap(writeState')
            BY <2>1, SendMaps DEF Places
        <2>3. IsMap(wire')
            BY <1>1, <1>3 DEF ReadHelloRetrying
        <2> QED
            BY <1>3, <2>1, <2>2, <2>3
            DEF ReadHelloRetrying, endVars, Maps, IsMap
    <1>4. ASSUME RefuseHello \/ RefuseSecondHello
          PROVE  Maps'
        <2>1. at' \in [Ends -> Places] /\ IsMap(out') /\ IsMap(writeState')
            BY <1>4, ErrorMaps DEF RefuseHello, RefuseSecondHello
        <2>2. IsMap(wire')
            BY <1>1, <1>4 DEF RefuseHello, RefuseSecondHello
        <2> QED
            BY <1>4, <2>1, <2>2 DEF RefuseHello, RefuseSecondHello, talkVars,
               endVars, Maps, IsMap
    <1>5. ASSUME RetrySent
          PROVE  Maps'
        <2>1. at' \in [Ends -> Places] /\ IsMap(out') /\ IsMap(wire')
            BY <1>5, GotoMaps, SentMaps DEF RetrySent, Places
        <2> QED
            BY <1>5, <2>1 DEF RetrySent, keyVars, endVars, Maps, IsMap
    <1>6. ASSUME AnswerSent
          PROVE  Maps'
        <2>1. PICK keys, m :
                 /\ Send(Server, keys.write, <<m>>, "send_flight")
                 /\ pending' = [pending EXCEPT ![Server] =
                                   [keys EXCEPT !.write = NoState]]
                 /\ hash' = [hash EXCEPT ![Server] = Append(@, Seen(m))]
            BY <1>6 DEF AnswerSent
        <2>2. at' \in [Ends -> Places] /\ IsMap(out') /\ IsMap(writeState')
            BY <2>1, SendMaps DEF Places
        <2>3. IsMap(wire')
            BY <1>6, SentMaps DEF AnswerSent
        <2> QED
            BY <1>6, <2>1, <2>2, <2>3 DEF AnswerSent, endVars, Maps, IsMap
    <1>7. ASSUME CannotProve
          PROVE  Maps'
        BY <1>7, SentMaps, FailMaps DEF CannotProve
    <1>8. ASSUME FlightSent
          PROVE  Maps'
        <2>1. at' \in [Ends -> Places] /\ IsMap(out') /\ IsMap(wire')
            BY <1>8, GotoMaps, SentMaps DEF FlightSent, Places
        <2> QED
            BY <1>8, <2>1 DEF FlightSent, endVars, Maps, IsMap
    <1>9. ASSUME ReadCertificate
          PROVE  Maps'
        <2>1. at' \in [Ends -> Places] /\ IsMap(out') /\ IsMap(wire')
            BY <1>1, <1>9, GotoMaps DEF ReadCertificate, Places
        <2> QED
            BY <1>9, <2>1 DEF ReadCertificate, endVars, Maps, IsMap
    <1>10. ASSUME ReadVerify
           PROVE  Maps'
        <2>1. at' \in [Ends -> Places] /\ IsMap(out') /\ IsMap(wire')
            BY <1>1, <1>10, GotoMaps DEF ReadVerify, Places
        <2> QED
            BY <1>10, <2>1 DEF ReadVerify, endVars, Maps, IsMap
    <1>11. ASSUME ReadFinished
           PROVE  Maps'
        <2>1. at' \in [Ends -> Places] /\ IsMap(out') /\ IsMap(writeState')
            BY <1>11, SendMaps, ConcludeMaps DEF ReadFinished, Places
        <2>2. IsMap(wire')
            BY <1>1, <1>11 DEF ReadFinished
        <2> QED
            BY <1>11, <2>1, <2>2 DEF ReadFinished, Maps, IsMap
    <1>12. ASSUME TicketsSent
           PROVE  Maps'
        <2>1. at' \in [Ends -> Places] /\ IsMap(out') /\ IsMap(writeState')
            BY <1>12, ConcludeMaps DEF TicketsSent
        <2>2. IsMap(wire')
            BY <1>12, SentMaps DEF TicketsSent
        <2> QED
            BY <1>12, <2>1, <2>2 DEF TicketsSent, talkVars, Maps, IsMap
    <1> QED
        BY <1>2, <1>3, <1>4, <1>5, <1>6, <1>7, <1>8, <1>9, <1>10, <1>11, <1>12
        DEF ServerSteps

LEMMA CommonMaps ==
    ASSUME Maps, NEW e \in Ends, CommonSteps(e) \/ ReadsOn(e)
    PROVE  Maps'
    <1>1. Take(e) => IsMap(wire')
        BY TakeMaps
    <1>2. UNCHANGED netVars => IsMap(wire')
        BY DEF netVars, Maps, IsMap
    <1>3. ASSUME SkipCcs(e) \/ ReadsOn(e)
          PROVE  Maps'
        BY <1>1, <1>3
        DEF SkipCcs, ReadsOn, keyVars, talkVars, endVars, Maps, IsMap
    <1>4. ASSUME GetAlert(e) \/ PeerGone(e) \/ FlushFails(e) \/ SalvageFails(e)
          PROVE  Maps'
        BY <1>1, <1>2, <1>4, FailMaps
        DEF GetAlert, PeerGone, FlushFails, SalvageFails
    <1>5. ASSUME Refuse(e)
          PROVE  Maps'
        <2>1. at' \in [Ends -> Places] /\ IsMap(out') /\ IsMap(writeState')
            BY <1>5, ErrorMaps DEF Refuse
        <2> QED
            BY <1>1, <1>5, <2>1 DEF Refuse, talkVars, endVars, Maps, IsMap
    <1>6. ASSUME AlertSent(e)
          PROVE  Maps'
        BY <1>6, SentMaps, FailMaps DEF AlertSent
    <1>7. ASSUME SendFails(e)
          PROVE  Maps'
        <2>1. at' \in [Ends -> Places] /\ IsMap(out')
            BY <1>7, GotoMaps DEF SendFails, Places
        <2> QED
            BY <1>2, <1>7, <2>1
            DEF SendFails, keyVars, talkVars, endVars, Maps, IsMap
    <1>8. ASSUME SalvageFallsThrough(e)
          PROVE  Maps'
        <2>1. at' \in [Ends -> Places] /\ IsMap(out')
            BY <1>8, GotoMaps DEF SalvageFallsThrough, Places
        <2>2. IsMap(writeState') /\ IsMap(readState') /\ IsMap(pending')
            BY <1>8 DEF SalvageFallsThrough, ResetStates, Maps, IsMap
        <2>3. IsMap(session') /\ IsMap(wire')
            BY <1>1, <1>8 DEF SalvageFallsThrough, DropSession, Maps, IsMap
        <2> QED
            BY <1>8, <2>1, <2>2, <2>3
            DEF SalvageFallsThrough, talkVars, Maps, IsMap
    <1> QED
        BY <1>3, <1>4, <1>5, <1>6, <1>7, <1>8 DEF CommonSteps

\* Every step leaves every variable a function of the two ends.
LEMMA MapsStep ==
    ASSUME Maps, [Next]_vars
    PROVE  Maps'
    <1>1. CASE ClientWrites
        BY <1>1 DEF ClientWrites, talkVars, endVars, Maps
    <1>2. CASE Break
        BY <1>2 DEF Break, keyVars, talkVars, endVars, Maps
    <1>3. CASE Damage
        BY <1>3 DEF Damage, keyVars, talkVars, endVars, Maps
    <1>4. CASE UNCHANGED vars
        BY <1>4 DEF vars, keyVars, talkVars, endVars, netVars, Maps
    <1> QED
        BY <1>1, <1>2, <1>3, <1>4, ClientMaps, ServerMaps, CommonMaps DEF Next

-----------------------------------------------------------------------------
(***************************************************************************)
(* What each end does in a step: one of them at most moves.                *)
(***************************************************************************)
Inv ==
    /\ Shape
    /\ ClientOpening
    /\ ClientAnswering
    /\ ClientRecords
    /\ ServerOpening
    /\ ServerChecking
    /\ ServerRecords
    /\ Speaks
    /\ Sessions
    /\ CertificateSeen
    /\ ClientIdentity
    /\ FailedNotResumable
    /\ Agreeing

ClientDoes ==
    \/ Greets
    \/ HearsServer
    \/ \E answer : Verifies(answer)
    \/ \E answer : GoesOn(answer)
    \/ ClientConcludes
    \/ Stops(Client)
    \/ Uses(Client)
    \/ Stays(Client)

ServerDoes ==
    \/ Chooses
    \/ \E m : Proves(m)
    \/ Settles
    \/ Checks
    \/ ServerConcludes
    \/ Stops(Server)
    \/ Uses(Server)
    \/ Stays(Server)

Step ==
    /\ ClientDoes /\ ServerDoes
    /\ Stays(Client) \/ Stays(Server)
    /\ Wires
    /\ clientCert' = clientCert \/ Checks
    /\ setup' = setup

\* The settings never change.
LEMMA SetupStays ==
    ASSUME [Next]_vars
    PROVE  setup' = setup
    <1>1. ASSUME ClientSteps
          PROVE  setup' = setup
        BY <1>1 DEF ClientSteps, SendClientHello, ClientHelloSent, ReadRetry,
           RefuseRetry, SecondHelloSent, ReadServerHello, RejectServerHello,
           ReadFlight, ReadFlightRequesting, RefuseProof, EmptyCertificateSent,
           CertificateSent, CannotSign, VerifySent, ClientFinishedSent, Fail
    <1>2. ASSUME ServerSteps
          PROVE  setup' = setup
        BY <1>2 DEF ServerSteps, ReadHello, ReadHelloRetrying, RefuseHello,
           RetrySent, ReadSecondHello, RefuseSecondHello, AnswerSent,
           CannotProve, FlightSent, ReadCertificate, ReadVerify, ReadFinished,
           TicketsSent, Fail
    <1>3. ASSUME NEW e \in Ends, CommonSteps(e) \/ ReadsOn(e)
          PROVE  setup' = setup
        BY <1>3 DEF CommonSteps, ReadsOn, SkipCcs, GetAlert, Refuse, AlertSent,
           PeerGone, FlushFails, SendFails, SalvageFails, SalvageFallsThrough,
           Fail
    <1> QED
        BY <1>1, <1>2, <1>3 DEF Next, ClientWrites, Break, Damage, vars

\* Each action is a step of one of the kinds.
LEMMA ClientStepsStep ==
    ASSUME Inv, ClientSteps
    PROVE  ClientStep /\ Wires
    BY ClientHelloStep, ClientHelloSentStep, ReadRetryStep, RefuseRetryStep,
       SecondHelloSentStep, ReadServerHelloStep, RejectServerHelloStep,
       ReadFlightStep, ReadFlightRequestingStep, RefuseProofStep,
       EmptyCertificateSentStep, CertificateSentStep, CannotSignStep,
       VerifySentStep, ClientFinishedSentStep
    DEF Inv, ClientSteps

LEMMA ServerStepsStep ==
    ASSUME Inv, ServerSteps
    PROVE  ServerStep /\ Wires
    BY ReadHelloStep, ReadHelloRetryingStep, RefuseHelloStep, RetrySentStep,
       ReadSecondHelloStep, AnswerSentStep, CannotProveStep, FlightSentStep,
       ReadCertificateStep, ReadVerifyStep, ReadFinishedStep, TicketsSentStep
    DEF Inv, ServerSteps

LEMMA CommonStepsStep ==
    ASSUME Inv, NEW e \in Ends, CommonSteps(e) \/ ReadsOn(e)
    PROVE  CommonStep(e) /\ Wires
    BY SkipCcsStep, GetAlertStep, RefuseStep, AlertSentStep, PeerGoneStep,
       SendFailsStep, SalvageFailsStep, SalvageFallsThroughStep, ReadsOnStep
    DEF Inv, CommonSteps

\* Every step of the handshakes is a step of one of the kinds.
LEMMA NextStep ==
    ASSUME Inv, [Next]_vars
    PROVE  Step
    <1>1. setup' = setup
        BY SetupStays
    <1>2. ASSUME ClientStep, Wires
          PROVE  Step
        BY <1>1, <1>2 DEF Step, ClientStep, ClientMoves, ClientDoes, ServerDoes
    <1>3. ASSUME ServerStep, Wires
          PROVE  Step
        BY <1>1, <1>3 DEF Step, ServerStep, ServerMoves, ClientDoes, ServerDoes
    <1>4. ASSUME NEW e \in Ends, CommonStep(e), Wires
          PROVE  Step
        <2>1. CASE e = Client
            BY <1>1, <1>4, <2>1 DEF Step, CommonStep, ClientDoes, ServerDoes
        <2>2. CASE e = Server
            BY <1>1, <1>4, <2>2 DEF Step, CommonStep, ClientDoes, ServerDoes
        <2> QED
            BY <2>1, <2>2
    <1>5. CASE UNCHANGED vars
        <2>1. Stays(Client) /\ Stays(Server) /\ clientCert' = clientCert
            BY <1>5 DEF vars, keyVars, talkVars, endVars, Stays, KeepsTalk
        <2>2. Wires
            BY <1>5, StillCarries DEF vars, netVars, Inv, Wires
        <2> QED
            BY <1>1, <2>1, <2>2 DEF Step, ClientDoes, ServerDoes
    <1>6. CASE ClientSteps
        BY <1>2, <1>6, ClientStepsStep
    <1>7. CASE ServerSteps
        BY <1>3, <1>7, ServerStepsStep
    <1>8. CASE \E e \in Ends : CommonSteps(e) \/ ReadsOn(e)
        BY <1>4, <1>8, CommonStepsStep
    <1>9. CASE ClientWrites \/ Break \/ Damage
        BY <1>4, <1>9, ClientWritesStep, BreakStep, DamageStep DEF Inv
    <1> QED
        BY <1>5, <1>6, <1>7, <1>8, <1>9 DEF Next

-----------------------------------------------------------------------------
(***************************************************************************)
(* What a step does to transcripts.                                        *)
(***************************************************************************)
\* Prefix is transitive.
LEMMA PrefixExtends ==
    ASSUME NEW s, NEW t, NEW u, Prefix(s, t), Prefix(t, u),
           Len(s) \in Nat, Len(t) \in Nat, Len(u) \in Nat
    PROVE  Prefix(s, u)
    BY DEF Prefix

LEMMA TranscriptFacts ==
    ASSUME Inv, NEW e \in Ends
    PROVE  /\ IsSeq(hash[e]) /\ Len(hash[e]) \in Nat
           /\ IsSeq(master[e]) /\ Len(master[e]) \in Nat
           /\ hash[e] # <<>> => Len(hash[e]) > 0
           /\ master[e] # <<>> => Len(master[e]) > 0
    BY SeqFacts DEF Inv, Shape

\* The server's transcript only grows.
LEMMA ServerExtends ==
    ASSUME Inv, ServerDoes
    PROVE  IsSeq(hash'[Server]) /\ Len(hash'[Server]) \in Nat
           /\ Prefix(hash[Server], hash'[Server])
    <1>1. IsSeq(hash[Server])
        BY TranscriptFacts
    <1>2. CASE Chooses
        BY <1>2, SeqFacts DEF Chooses
    <1>3. CASE (\E m : Proves(m)) \/ Hears
        <2>1. PICK x : hash'[Server] = Append(hash[Server], x)
            BY <1>3 DEF Proves, Hears
        <2> QED
            BY <1>1, <2>1, AppendFacts, PrefixFacts, SeqFacts
    <1>4. CASE hash'[Server] = hash[Server]
        BY <1>1, <1>4, PrefixFacts, SeqFacts
    <1> QED
        BY <1>2, <1>3, <1>4 DEF ServerDoes, Settles, Checks, ServerConcludes,
           Stops, Uses, Stays, KeepsTalk

\* The flight the client accepts is the one the server sent, in answer to the
\* messages the client has seen.
LEMMA VerifiesFacts ==
    ASSUME Inv, NEW answer, Verifies(answer)
    PROVE  /\ hash[Client] # <<>> /\ master[Client] = <<>>
           /\ IsSeq(master'[Client])
           /\ Len(master'[Client]) = Len(hash[Client]) + 1
           /\ WithoutLast(master'[Client]) = hash[Client]
           /\ Prefix(master'[Client], hash[Server])
           /\ ChosenFrom(Client, master[Client])'
           /\ pending[Client].write = [key |-> HandshakeKey(master'[Client]),
                                       seq |-> 0]
    <1> DEFINE r == Upcoming(Client)
               t == hash[Client]
               x == [msg |-> r.msg, intact |-> r.intact]
    <1>0. IsSeq(t) /\ Len(t) \in Nat /\ IsSeq(hash[Server])
          /\ Len(hash[Server]) \in Nat
        BY TranscriptFacts
    <1>1. /\ t # <<>> /\ master[Client] = <<>>
          /\ readState[Client] = KeyedBy("hs", t)
          /\ pending[Client].write = KeyedBy("hs", t)
          /\ choice[Client].group = t[Len(t)].msg.group
          /\ choice[Client].psk = t[Len(t)].msg.psk
        BY DEF Verifies, Inv, ClientOpening, Opening
    <1>2. Len(t) > 0
        BY <1>0, <1>1, SeqFacts
    <1>3. r \in ToSet(wire[Server])
        BY TailFacts DEF Verifies, Incoming, Upcoming, Peer, Inv, Shape
    <1>4. r.key = [epoch |-> "hs", hash |-> t] /\ r.intact
        BY <1>1, KeyedFacts DEF Verifies, Opens, NoKey
    <1>5. /\ Len(t) < Len(hash[Server])
          /\ Prefix(t, hash[Server])
          /\ hash[Server][Len(t) + 1] = Seen(r.msg)
        BY <1>3, <1>4 DEF Inv, ServerRecords, UnderWay, Handshaking
    <1>6. x = Seen(r.msg)
        BY <1>4, <1>3 DEF Seen, Handshaking, Inv, Shape, UnderWay, IsRecord
    <1>7. master'[Client] = Append(t, x)
          /\ choice'[Client].scheme = r.msg.scheme
          /\ choice'[Client].group = choice[Client].group
          /\ choice'[Client].psk = choice[Client].psk
        BY DEF Verifies
    <1> HIDE DEF x, r, t
    <1>8. /\ IsSeq(Append(t, x)) /\ Len(Append(t, x)) = Len(t) + 1
          /\ \A i \in 1..Len(t) : Append(t, x)[i] = t[i]
          /\ Append(t, x)[Len(t) + 1] = x
          /\ WithoutLast(Append(t, x)) = t
        BY <1>0, AppendFacts, WithoutLastAppend
    <1>9. Prefix(Append(t, x), hash[Server])
        BY <1>0, <1>5, <1>6, <1>8 DEF Prefix
    <1>10. ChosenFrom(Client, master[Client])'
        <2>1. x.msg = r.msg
            BY <1>6 DEF Seen
        <2>2. /\ master'[Client][Len(master'[Client]) - 1] = t[Len(t)]
              /\ master'[Client][Len(master'[Client])] = x
              /\ Len(master'[Client]) >= 2
            BY <1>0, <1>2, <1>7, <1>8
        <2> QED
            BY <1>1, <1>7, <2>1, <2>2 DEF ChosenFrom, Chosen
    <1>11. pending[Client].write = [key |-> HandshakeKey(master'[Client]),
                                    seq |-> 0]
        BY <1>1, <1>7, <1>8 DEF KeyedBy, HandshakeKey
    <1> QED
        BY <1>1, <1>7, <1>8, <1>9, <1>10, <1>11 DEF t

\* What the server reads of the client's answer is the next message of the
\* client's transcript, and both ends agree up to there.
LEMMA HearsFacts ==
    ASSUME Inv, Hears, at[Server] \in Checking
    PROVE  LET r == Upcoming(Server)
           IN  /\ r \in ToSet(wire[Client]) /\ Handshaking(r)
               /\ master[Client] = master[Server]
               /\ Len(hash[Server]) + 1 \in Answers(Client)
               /\ hash[Client][Len(hash[Server]) + 1] = Seen(r.msg)
               /\ Prefix(hash'[Server], hash[Client])
               /\ Len(hash'[Server]) = Len(hash[Server]) + 1
               /\ IsSeq(hash'[Server])
               /\ Prefix(master[Server], hash'[Server])
               /\ readState[Server].key # NoKey
    <1> DEFINE r == Upcoming(Server)
               s == master[Server]
               c == master[Client]
               x == [msg |-> r.msg, intact |-> r.intact]
    <1>0. /\ IsSeq(hash[Server]) /\ Len(hash[Server]) \in Nat
          /\ IsSeq(hash[Client]) /\ Len(hash[Client]) \in Nat
          /\ IsSeq(s) /\ Len(s) \in Nat
          /\ IsSeq(c) /\ Len(c) \in Nat
        BY TranscriptFacts
    <1>1. /\ ChosenFrom(Server, s)
          /\ Prefix(s, hash[Server])
          /\ readState[Server] = [key |-> HandshakeKey(s),
                                  seq |-> Len(hash[Server]) - Len(s)]
          /\ hash[Server] # s => c = s /\ Prefix(hash[Server], hash[Client])
        BY DEF Inv, ServerChecking
    <1>2. readState[Server].key # NoKey /\ readState[Server].key.epoch = "hs"
        BY <1>1 DEF HandshakeKey, NoKey
    <1>3. /\ r \in ToSet(wire[Client]) /\ IsRecord(r) /\ r.intact
          /\ r.key = HandshakeKey(s) /\ r.seq = Len(hash[Server]) - Len(s)
        <2>1. r \in ToSet(wire[Client]) /\ IsRecord(r) /\ Opens(Server)
            BY DEF Hears
        <2>2. /\ r.key = readState[Server].key
              /\ r.key # NoKey => r.seq = readState[Server].seq /\ r.intact
            BY <2>1 DEF Opens
        <2>3. r.intact /\ r.seq = readState[Server].seq
            BY <1>2, <2>2
        <2> QED
            BY <1>1, <2>1, <2>2, <2>3
    <1>4. Handshaking(r)
        BY <1>2, <1>3, <1>1 DEF Handshaking
    <1>5. /\ c # <<>>
          /\ r.key = HandshakeKey(c)
          /\ Len(c) + r.seq + 1 \in Answers(Client)
          /\ hash[Client][Len(c) + r.seq + 1] = Seen(r.msg)
        BY <1>3, <1>4 DEF Inv, ClientRecords, UnderWay
    <1>6. Prefix(c, hash[Client]) /\ Prefix(c, hash[Server])
        BY <1>5 DEF Inv, ClientAnswering
    <1>7. Len(c) = Len(s)
        <2>1. s # <<>> /\ Len(s) > 0 /\ Len(c) > 0
            BY <1>0, <1>1, <1>5, EmptyFacts, SeqFacts DEF ChosenFrom
        <2>2. WithoutLast(s) = WithoutLast(c)
            BY <1>3, <1>5 DEF HandshakeKey
        <2>3. Len(WithoutLast(s)) = Len(s) - 1
              /\ Len(WithoutLast(c)) = Len(c) - 1
            BY <1>0, <1>5, <2>1, WithoutLastFacts
        <2> QED
            BY <1>0, <2>2, <2>3
    <1> HIDE DEF r, s, c, x
    <1>8. c = s
        <2>1. \A i \in 1..Len(c) : c[i] = s[i]
            BY <1>0, <1>1, <1>6, <1>7 DEF Prefix
        <2> QED
            BY <1>0, <1>7, <2>1, SameSeq
    <1>9. /\ Len(hash[Server]) + 1 \in Answers(Client)
          /\ hash[Client][Len(hash[Server]) + 1] = Seen(r.msg)
        BY <1>0, <1>3, <1>5, <1>7
    <1>10. Prefix(hash[Server], hash[Client])
        BY <1>1, <1>6, <1>8
    <1>11. x = Seen(r.msg)
        BY <1>3, <1>4 DEF Seen, Handshaking, IsRecord, x
    <1>12. /\ hash'[Server] = Append(hash[Server], x)
           /\ IsSeq(hash'[Server])
              /\ Len(hash'[Server]) = Len(hash[Server]) + 1
           /\ \A i \in 1..Len(hash[Server]) :
                 hash'[Server][i] = hash[Server][i]
           /\ hash'[Server][Len(hash[Server]) + 1] = x
        BY <1>0, AppendFacts DEF Hears, x, r
    <1>13. Len(hash[Server]) + 1 <= Len(hash[Client])
        BY <1>0, <1>9 DEF Answers
    <1>14. Prefix(hash'[Server], hash[Client])
        BY <1>0, <1>9, <1>10, <1>11, <1>12, <1>13 DEF Prefix
    <1>15. Prefix(s, hash'[Server])
        BY <1>0, <1>1, <1>12 DEF Prefix
    <1> QED
        BY <1>2, <1>3, <1>4, <1>8, <1>9, <1>12, <1>14, <1>15 DEF r, s, c

-----------------------------------------------------------------------------
(***************************************************************************)
(* Each part of the invariant is preserved.                                *)
(***************************************************************************)
Formed(e) ==
    /\ IsSeq(hash[e]) /\ IsSeq(master[e]) /\ Fresh(out[e])
    /\ IsState(writeState[e]) /\ IsState(readState[e])
    /\ IsChoice(choice[e])

\* Type correctness.
LEMMA ShapeStep ==
    ASSUME Inv, [Next]_vars
    PROVE  Shape'
    <1>0. \A e \in Ends : Formed(e)
        BY DEF Inv, Shape, Formed, Fresh, UnderWay
    <1>1. Maps'
        BY MapsStep DEF Inv, Shape
    <1>2. Step
        BY NextStep
    <1>3. Formed(Client)'
        <2>1. CASE Greets
            BY <1>0, <2>1 DEF Formed, Greets
        <2>2. CASE HearsServer
            <3>1. readState'[Client] = KeyedBy("hs", hash'[Client])
                  /\ Fresh(out'[Client])
                BY <2>2, EmptyFacts DEF HearsServer, Fresh
            <3>2. IsState(readState'[Client])
                BY <3>1 DEF KeyedBy, IsState
            <3> QED
                BY <1>0, <2>2, <3>1, <3>2 DEF Formed, HearsServer
        <2>3. ASSUME NEW answer, Verifies(answer)
              PROVE  Formed(Client)'
            <3>1. IsSeq(master'[Client]) /\ IsState(pending[Client].write)
                BY <2>3, VerifiesFacts DEF IsState
            <3>2. IsSeq(hash'[Client])
                BY <2>3, <3>1, AppendFacts DEF Verifies, Says
            <3>3. IsState(writeState'[Client])
                BY <2>3, <3>1, AdvancedFacts DEF Verifies, Says
            <3> QED
                BY <2>3, <3>1, <3>2, <3>3 DEF Formed, Verifies, Says
        <2>4. ASSUME NEW answer, GoesOn(answer)
              PROVE  Formed(Client)'
            <3>1. IsSeq(hash'[Client])
                BY <1>0, <2>4, AppendFacts DEF GoesOn, Says, Formed
            <3>2. IsState(writeState'[Client])
                BY <1>0, <2>4, AdvancedFacts DEF GoesOn, Says, Formed
            <3> QED
                BY <1>0, <2>4, <3>1, <3>2 DEF Formed, GoesOn, Says
        <2>5. CASE ClientConcludes
            BY <1>0, <2>5 DEF Formed, ClientConcludes, KeepsTalk
        <2>6. CASE Stops(Client) \/ Uses(Client) \/ Stays(Client)
            BY <1>0, <2>6 DEF Formed, Stops, Uses, Stays, KeepsTalk
        <2> QED
            BY <1>2, <2>1, <2>2, <2>3, <2>4, <2>5, <2>6 DEF Step, ClientDoes
    <1>4. Formed(Server)'
        <2>0. IsSeq(hash'[Server])
            BY <1>2, ServerExtends DEF Step
        <2>1. CASE Chooses
            BY <1>0, <2>1 DEF Formed, Chooses
        <2>2. ASSUME NEW m, Proves(m)
              PROVE  Formed(Server)'
            BY <1>0, <2>0, <2>2 DEF Formed, Proves
        <2>3. CASE Settles
            <3>1. IsState(readState'[Server])
                BY <2>3 DEF Settles, Inv, ServerOpening, IsState
            <3> QED
                BY <1>0, <2>3, <3>1, EmptyFacts DEF Formed, Settles, Fresh
        <2>4. CASE Checks
            <3>1. IsState(readState'[Server])
                BY <1>0, <2>4, AdvancedFacts DEF Checks, Counted, Formed
            <3> QED
                BY <1>0, <2>0, <2>4, <3>1, EmptyFacts
                DEF Formed, Checks, Hears, Fresh
        <2>5. CASE ServerConcludes
            BY <1>0, <2>0, <2>5 DEF Formed, ServerConcludes, Hears
        <2>6. CASE Stops(Server) \/ Uses(Server) \/ Stays(Server)
            BY <1>0, <2>6 DEF Formed, Stops, Uses, Stays, KeepsTalk
        <2> QED
            BY <1>2, <2>1, <2>2, <2>3, <2>4, <2>5, <2>6 DEF Step, ServerDoes
    <1>5. \A e \in Ends : IsSeq(wire'[e])
          /\ \A r \in ToSet(wire'[e]) : IsRecord(r)
        BY <1>2 DEF Step, Wires, Carries
    <1>6. \A e \in Ends : Formed(e)'
        BY <1>3, <1>4
    <1> QED
        BY <1>1, <1>5, <1>6 DEF Shape, Formed, Fresh, UnderWay

LEMMA ClientOpeningStep ==
    ASSUME Inv, Step
    PROVE  ClientOpening'
    <1>0. ClientOpening
        BY DEF Inv
    <1>1. CASE Greets
        BY <1>0, <1>1 DEF Greets, ClientOpening, Opening, Greeting
    <1>2. CASE HearsServer
        BY <1>0, <1>2 DEF HearsServer, ClientOpening, Opening, Greeting
    <1>3. CASE (\E answer : Verifies(answer) \/ GoesOn(answer))
               \/ ClientConcludes
        BY <1>3
        DEF Verifies, GoesOn, ClientConcludes, ClientOpening, Opening, Greeting
    <1>4. CASE Stops(Client) \/ Uses(Client)
        BY <1>4 DEF Stops, Uses, ClientOpening, Opening, Greeting, Concluded
    <1>5. CASE Stays(Client)
        BY <1>0, <1>5 DEF Stays, KeepsTalk, ClientOpening
    <1> QED
        BY <1>1, <1>2, <1>3, <1>4, <1>5 DEF Step, ClientDoes

LEMMA ClientAnsweringStep ==
    ASSUME Inv, Step
    PROVE  ClientAnswering'
    <1>0. ClientAnswering
        BY DEF Inv
    <1>1. /\ IsSeq(hash[Client]) /\ Len(hash[Client]) \in Nat
          /\ IsSeq(master[Client]) /\ Len(master[Client]) \in Nat
          /\ Len(hash[Server]) \in Nat
        BY TranscriptFacts
    <1>2. Prefix(hash[Server], hash'[Server]) /\ Len(hash'[Server]) \in Nat
        BY ServerExtends DEF Step
    <1>3. master'[Client] = master[Client] /\ master[Client] # <<>>
             => Prefix(master'[Client], hash'[Server])
        BY <1>0, <1>1, <1>2, PrefixExtends DEF ClientAnswering
    <1>4. CASE Greets \/ HearsServer
        BY <1>4 DEF Greets, HearsServer, ClientAnswering, Answering, Greeting,
           Inv, ClientOpening, Opening
    <1>5. ASSUME NEW answer, Verifies(answer)
          PROVE  ClientAnswering'
        <2> DEFINE t == master'[Client]
        <2>1. /\ IsSeq(t) /\ Len(t) = Len(hash[Client]) + 1
              /\ Prefix(t, hash[Server])
              /\ ChosenFrom(Client, master[Client])'
              /\ pending[Client].write = [key |-> HandshakeKey(t), seq |-> 0]
            BY <1>5, VerifiesFacts
        <2>2. Stays(Server)
            BY <1>5 DEF Step, Stays, Verifies
        <2>3. Prefix(t, hash'[Server])
            BY <2>1, <2>2 DEF Stays, KeepsTalk
        <2>4. Says(pending[Client].write, t, answer)
              /\ at'[Client] \in {"send_cert", "send_finished"}
            BY <1>5 DEF Verifies
        <2> HIDE DEF t
        <2>5. /\ IsSeq(hash'[Client]) /\ Len(hash'[Client]) = Len(t) + 1
              /\ \A i \in 1..Len(t) : hash'[Client][i] = t[i]
              /\ hash'[Client][Len(t) + 1] = Seen(answer)
            BY <2>1, <2>4, AppendFacts DEF Says
        <2>6. writeState'[Client] = [key |-> HandshakeKey(t), seq |-> 1]
            <3>1. IsState(pending[Client].write)
                  /\ pending[Client].write.key # NoKey
                BY <2>1 DEF IsState, HandshakeKey, NoKey
            <3>2. writeState'[Client].seq = 1
                  /\ writeState'[Client].key = HandshakeKey(t)
                  /\ IsState(writeState'[Client])
                BY <2>1, <2>4, <3>1, AdvancedFacts DEF Says
            <3> QED
                BY <3>2 DEF IsState
        <2>7. Answers(Client)' = {Len(t) + 1}
            BY <1>1, <2>1, <2>5 DEF Answers, t
        <2>8. Prefix(t, hash'[Client])
            BY <1>1, <2>1, <2>5 DEF Prefix
        <2>9. t # <<>>
            BY <1>1, <2>1, EmptyFacts
        <2>10. at'[Client] = "send_cert" => answer.type # "finished"
            BY <2>4 DEF Says
        <2>11. at'[Client] = "send_finished" =>
                  ForApplication(pending'[Client].write)
            BY <2>4 DEF Says
        <2>12. hash'[Client][Len(t) + 1].msg.type = answer.type
            BY <2>5 DEF Seen
        <2>13. Len(hash'[Client]) - Len(t) = 1
            BY <1>1, <2>1, <2>5
        <2> QED
            BY <2>1, <2>3, <2>4, <2>5, <2>6, <2>7, <2>8, <2>9, <2>10, <2>11,
               <2>12, <2>13
            DEF ClientAnswering, t
    <1>6. ASSUME NEW answer, GoesOn(answer)
          PROVE  ClientAnswering'
        <2> DEFINE t == hash[Client]
        <2>1. /\ at[Client] \in {"send_cert", "send_verify"}
              /\ at'[Client] \in {"send_verify", "send_finished"}
              /\ master'[Client] = master[Client]
              /\ choice'[Client] = choice[Client]
              /\ Says(writeState[Client], t, answer)
            BY <1>6 DEF GoesOn
        <2>2. /\ master[Client] # <<>>
              /\ ChosenFrom(Client, master[Client])
              /\ Prefix(master[Client], t)
              /\ writeState[Client] = [key |-> HandshakeKey(master[Client]),
                                       seq |-> Len(t) - Len(master[Client])]
              /\ \A i \in Answers(Client) : t[i].msg.type # "finished"
            BY <1>0, <2>1 DEF ClientAnswering, Answering
        <2> HIDE DEF t
        <2>3. /\ IsSeq(hash'[Client]) /\ Len(hash'[Client]) = Len(t) + 1
              /\ \A i \in 1..Len(t) : hash'[Client][i] = t[i]
              /\ hash'[Client][Len(t) + 1] = Seen(answer)
            BY <1>1, <2>1, AppendFacts DEF Says, t
        <2>4. writeState'[Client] =
                 [key |-> HandshakeKey(master[Client]),
                  seq |-> Len(hash'[Client]) - Len(master[Client])]
            <3>1. IsState(writeState[Client]) /\ writeState[Client].key # NoKey
                BY <2>2 DEF Inv, Shape, HandshakeKey, NoKey
            <3>2. /\ writeState'[Client].seq = writeState[Client].seq + 1
                  /\ writeState'[Client].key = HandshakeKey(master[Client])
                  /\ IsState(writeState'[Client])
                BY <2>1, <2>2, <3>1, AdvancedFacts DEF Says
            <3>3. writeState'[Client].seq =
                     Len(hash'[Client]) - Len(master[Client])
                BY <1>1, <2>2, <2>3, <3>2 DEF t
            <3> QED
                BY <3>2, <3>3 DEF IsState
        <2>5. \A i \in Answers(Client)' :
                 \/ i = Len(hash'[Client])
                 \/ i \in Answers(Client) /\ i \in 1..Len(t)
            BY <1>1, <2>1, <2>3 DEF Answers, t
        <2>6. hash'[Client][Len(hash'[Client])].msg.type = answer.type
            BY <2>3 DEF Seen
        <2>7. \A i \in Answers(Client)' :
                 i # Len(hash'[Client]) =>
                    hash'[Client][i].msg.type # "finished"
            BY <2>2, <2>3, <2>5
        <2>8. Prefix(master[Client], hash'[Client])
            BY <1>1, <2>2, <2>3 DEF Prefix, t
        <2>9. at'[Client] = "send_finished" =>
                 ForApplication(pending'[Client].write)
            BY <2>1 DEF Says
        <2>10. at'[Client] = "send_verify" => answer.type # "finished"
            BY <2>1 DEF Says
        <2>11. ChosenFrom(Client, master[Client])'
            BY <2>1, <2>2 DEF ChosenFrom, Chosen
        <2> QED
            BY <1>3, <2>1, <2>2, <2>4, <2>6, <2>7, <2>8, <2>9, <2>10, <2>11
            DEF ClientAnswering
    <1>7. CASE ClientConcludes \/ Stops(Client) \/ Uses(Client)
        <2>1. KeepsTalk(Client) /\ at'[Client] \notin Answering
            BY <1>7 DEF ClientConcludes, Stops, Uses, Answering, Concluded
        <2>2. Answers(Client)' = Answers(Client)
            BY <2>1 DEF Answers, KeepsTalk
        <2> QED
            BY <1>0, <1>3, <2>1, <2>2
            DEF ClientAnswering, KeepsTalk, Answering, ChosenFrom, Chosen
    <1>8. CASE Stays(Client)
        <2>1. Answers(Client)' = Answers(Client)
            BY <1>8 DEF Answers, Stays, KeepsTalk
        <2> QED
            BY <1>0, <1>3, <1>8, <2>1
            DEF ClientAnswering, Stays, KeepsTalk, ChosenFrom, Chosen
    <1> QED
        BY <1>4, <1>5, <1>6, <1>7, <1>8 DEF Step, ClientDoes

LEMMA ClientRecordsStep ==
    ASSUME Inv, Step
    PROVE  ClientRecords'
    <1>0. ClientRecords
        BY DEF Inv
    <1>1. /\ IsSeq(hash[Client]) /\ Len(hash[Client]) \in Nat
          /\ IsSeq(master[Client]) /\ Len(master[Client]) \in Nat
        BY TranscriptFacts
    <1>2. \A r \in ToSet(wire'[Client]) : Handshaking(r) =>
             \/ r \in ToSet(wire[Client])
             \/ r \in ToSet(out[Client])
                /\ (at[Client] = "send_finished" =>
                      session'[Client] # NoSession)
        BY DEF Step, Wires, Carries
    <1> DEFINE Said(r) ==
                  /\ master[Client] # <<>>
                  /\ r.key = HandshakeKey(master[Client])
                  /\ r.seq \in Nat
                  /\ Len(master[Client]) + r.seq + 1 \in Answers(Client)
                  /\ hash[Client][Len(master[Client]) + r.seq + 1] =
                        Seen(r.msg)
                  /\ r.msg.type = "certificate" => r.msg.cert = client.cert
    <1>3. \A r \in UnderWay(Client) : Handshaking(r) => Said(r)
        BY <1>0 DEF ClientRecords
    <1>4. client' = client
        BY DEF Step, client
    <1>5. ClientRecords' <=>
            /\ \A r \in UnderWay(Client)' : Handshaking(r) => Said(r)'
            /\ \A r \in ToSet(wire'[Client]) :
                 Handshaking(r) /\ r.msg.type = "finished" =>
                    session'[Client] # NoSession
            /\ at'[Client] \notin Answering =>
                  \A r \in ToSet(out'[Client]) : ~Handshaking(r)
        BY DEF ClientRecords
    <1>6. \A r \in UnderWay(Client)' : Handshaking(r) =>
             r \in UnderWay(Client) \/ r \in ToSet(out'[Client])
        BY <1>2 DEF UnderWay
    <1>7. session'[Client] = NoSession => session[Client] = NoSession
        \* no step takes a session back
        <2>1. session[Client] # NoSession =>
                 [session[Client] EXCEPT !.resumable = FALSE] # NoSession
            <3>1. SUFFICES ASSUME session[Client] # NoSession
                  PROVE  [session[Client] EXCEPT !.resumable = FALSE]
                            # NoSession
                OBVIOUS
            <3>2. "group" \in DOMAIN session[Client]
                BY <3>1 DEF Inv, Sessions, IsSession, SessionOf
            <3>3. "group" \in
                     DOMAIN [session[Client] EXCEPT !.resumable = FALSE]
                BY <3>2
            <3>4. "group" \notin DOMAIN NoSession
                BY DEF NoSession
            <3> QED
                BY <3>3, <3>4
        <2> QED
            BY <2>1, NewSessionFacts
            DEF Step, ClientDoes, Greets, HearsServer, Verifies,
               GoesOn, Says, ClientConcludes, Concludes, Stops, Uses, Stays
    <1> HIDE DEF Said
    <1>8. ASSUME NEW r \in ToSet(wire'[Client]), Handshaking(r),
                 r.msg.type = "finished"
          PROVE  session'[Client] # NoSession
        <2>1. CASE r \in ToSet(wire[Client])
            BY <1>0, <1>7, <1>8, <2>1 DEF ClientRecords
        <2>2. CASE at[Client] = "send_finished" => session'[Client] # NoSession
            <3>1. SUFFICES ASSUME at[Client] # "send_finished",
                                  r \notin ToSet(wire[Client])
                  PROVE  FALSE
                BY <2>1, <2>2
            <3>2. r \in ToSet(out[Client])
                BY <1>2, <1>8, <3>1
            <3>3. at[Client] \in {"send_cert", "send_verify"}
                BY <1>0, <1>8, <3>1, <3>2 DEF ClientRecords, Answering
            <3>4. Said(r)
                BY <1>3, <1>8, <3>2 DEF UnderWay
            <3> DEFINE i == Len(master[Client]) + r.seq + 1
            <3>5. i \in Answers(Client)
                  /\ hash[Client][i].msg.type = "finished"
                BY <1>8, <3>4 DEF Said, Seen
            <3> QED
                BY <3>3, <3>5 DEF Inv, ClientAnswering
        <2> QED
            BY <1>2, <1>8, <2>1, <2>2
    \* What was said before stays a part of what the client said.
    <1>9. ASSUME master'[Client] = master[Client],
                 IsSeq(hash'[Client]), Prefix(hash[Client], hash'[Client]),
                 NEW r \in UnderWay(Client), Handshaking(r)
          PROVE  Said(r)'
        <2>1. Said(r)
            BY <1>3, <1>9
        <2>2. Len(hash'[Client]) \in Nat
            BY <1>9, SeqFacts
        <2> DEFINE i == Len(master[Client]) + r.seq + 1
        <2>3. i \in Answers(Client) /\ i \in 1..Len(hash[Client])
            BY <1>1, <2>1 DEF Said, Answers
        <2>4. i \in Answers(Client)' /\ hash'[Client][i] = hash[Client][i]
            BY <1>1, <1>9, <2>2, <2>3 DEF Answers, Prefix
        <2> QED
            BY <1>4, <1>9, <2>1, <2>4 DEF Said
    <1>10. ASSUME at[Client] \in Opening
           PROVE  \A r \in UnderWay(Client) : ~Handshaking(r)
        BY <1>3, <1>10 DEF Said, Inv, ClientOpening
    <1>11. CASE Greets \/ HearsServer
        <2>1. \A r \in ToSet(out'[Client]) : ~Handshaking(r)
            BY <1>11, EmptyFacts DEF Greets, HearsServer, NoHandshakeRecord
        <2>2. \A r \in UnderWay(Client) : ~Handshaking(r)
            BY <1>10, <1>11 DEF Greets, HearsServer, Opening
        <2> QED
            BY <1>5, <1>6, <1>8, <2>1, <2>2
    <1>12. ASSUME NEW answer, Verifies(answer)
           PROVE  ClientRecords'
        <2> DEFINE t == master'[Client]
        <2>1. /\ IsSeq(t) /\ Len(t) = Len(hash[Client]) + 1
              /\ pending[Client].write = [key |-> HandshakeKey(t), seq |-> 0]
            BY <1>12, VerifiesFacts
        <2>2. Says(pending[Client].write, t, answer)
              /\ at'[Client] \in {"send_cert", "send_finished"}
              /\ at[Client] \in Opening
            BY <1>12 DEF Verifies, Opening
        <2>3. /\ Len(hash'[Client]) = Len(t) + 1
              /\ hash'[Client][Len(t) + 1] = Seen(answer)
            BY <2>1, <2>2, AppendFacts DEF Says
        <2>4. t # <<>>
            BY <1>1, <2>1, EmptyFacts
        <2> HIDE DEF t
        <2>5. ASSUME NEW r \in ToSet(out'[Client]), Handshaking(r)
              PROVE  Said(r)'
            <3>1. r.msg = answer /\ r.key = HandshakeKey(t) /\ r.seq = 0
                BY <2>1, <2>2, <2>5 DEF Says
            <3>2. r.msg.type = "certificate" => r.msg.cert = client.cert
                BY <2>2, <3>1 DEF Says
            <3>3. Len(t) + 0 + 1 \in Answers(Client)'
                BY <1>1, <2>1, <2>3 DEF Answers, t
            <3>4. Len(t) + 0 + 1 = Len(t) + 1
                BY <1>1, <2>1
            <3> QED
                BY <1>4, <2>3, <2>4, <3>1, <3>2, <3>3, <3>4 DEF Said, t
        <2>6. at'[Client] \in Answering
            BY <2>2 DEF Answering
        <2>7. \A r \in UnderWay(Client) : ~Handshaking(r)
            BY <1>10, <2>2
        <2> QED
            BY <1>5, <1>6, <1>8, <2>5, <2>6, <2>7
    <1>13. ASSUME NEW answer, GoesOn(answer)
           PROVE  ClientRecords'
        <2> DEFINE t == hash[Client]
        <2>1. /\ at[Client] \in Answering /\ at'[Client] \in Answering
              /\ master'[Client] = master[Client]
              /\ Says(writeState[Client], t, answer)
            BY <1>13 DEF GoesOn, Answering
        <2>2. /\ master[Client] # <<>>
              /\ Prefix(master[Client], t)
              /\ writeState[Client] = [key |-> HandshakeKey(master[Client]),
                                       seq |-> Len(t) - Len(master[Client])]
            BY <2>1 DEF Inv, ClientAnswering
        <2>3. /\ IsSeq(hash'[Client]) /\ Len(hash'[Client]) = Len(t) + 1
              /\ hash'[Client][Len(t) + 1] = Seen(answer)
              /\ Prefix(t, hash'[Client])
            BY <1>1, <2>1, AppendFacts, PrefixFacts DEF Says
        <2> HIDE DEF t
        <2>4. ASSUME NEW r \in ToSet(out'[Client]), Handshaking(r)
              PROVE  Said(r)'
            <3>1. r.msg = answer /\ r.key = HandshakeKey(master[Client])
                  /\ r.seq = Len(t) - Len(master[Client])
                BY <2>1, <2>2, <2>4 DEF Says
            <3>2. r.msg.type = "certificate" => r.msg.cert = client.cert
                BY <2>1, <3>1 DEF Says
            <3>3. r.seq \in Nat /\ Len(master[Client]) + r.seq + 1 = Len(t) + 1
                BY <1>1, <2>2, <3>1 DEF Prefix, t
            <3>4. Len(t) + 1 \in Answers(Client)'
                BY <1>1, <2>1, <2>2, <2>3 DEF Answers, Prefix, t
            <3> QED
                BY <1>4, <2>1, <2>2, <2>3, <3>1, <3>2, <3>3, <3>4 DEF Said
        <2>5. \A r \in UnderWay(Client) : Handshaking(r) => Said(r)'
            BY <1>9, <2>1, <2>3 DEF t
        <2> QED
            BY <1>5, <1>6, <1>8, <2>1, <2>4, <2>5
    <1>14. CASE ClientConcludes \/ Stops(Client) \/ Uses(Client)
                \/ Stays(Client)
        <2>1. KeepsTalk(Client)
            BY <1>14 DEF ClientConcludes, Stops, Uses, Stays
        <2>2. \A r \in UnderWay(Client) : Handshaking(r) => Said(r)'
            <3>1. Prefix(hash[Client], hash'[Client]) /\ IsSeq(hash'[Client])
                  /\ master'[Client] = master[Client]
                BY <1>1, <2>1, PrefixFacts DEF KeepsTalk
            <3> QED
                BY <1>9, <3>1
        <2>3. \A r \in ToSet(out'[Client]) : Handshaking(r) =>
                 r \in UnderWay(Client) /\ at'[Client] \in Answering
            <3>1. CASE ClientConcludes \/ Stops(Client)
                BY <3>1 DEF ClientConcludes, Stops, NoHandshakeRecord
            <3>2. CASE Uses(Client) \/ Stays(Client)
                BY <1>0, <3>2 DEF Uses, Stays, ClientRecords, UnderWay
            <3> QED
                BY <1>14, <3>1, <3>2
        <2> QED
            BY <1>5, <1>6, <1>8, <2>2, <2>3
    <1> QED
        BY <1>11, <1>12, <1>13, <1>14 DEF Step, ClientDoes

LEMMA ServerOpeningStep ==
    ASSUME Inv, Step
    PROVE  ServerOpening'
    <1>0. ServerOpening
        BY DEF Inv
    <1>1. CASE Chooses
        BY <1>0, <1>1 DEF Chooses, ServerOpening, Choosing
    <1>2. ASSUME NEW m, Proves(m)
          PROVE  ServerOpening'
        <2> DEFINE t == hash[Server]
                   u == hash'[Server]
        <2>1. /\ at[Server] = "send_answer" /\ at'[Server] = "send_flight"
              /\ choice'[Server] = choice[Server]
              /\ pending'[Server].read = KeyedBy("hs", t)
              /\ u = Append(t, Seen(m)) /\ m.scheme = choice[Server].scheme
            BY <1>2 DEF Proves
        <2>2. /\ t # <<>> /\ IsSeq(t) /\ Len(t) \in Nat /\ Len(t) > 0
              /\ choice[Server].group = t[Len(t)].msg.group
              /\ choice[Server].psk = t[Len(t)].msg.psk
            BY <1>0, <2>1, TranscriptFacts DEF ServerOpening
        <2> HIDE DEF t, u
        <2>3. /\ Len(u) = Len(t) + 1
              /\ \A i \in 1..Len(t) : u[i] = t[i]
              /\ u[Len(t) + 1] = Seen(m)
              /\ WithoutLast(u) = t
            BY <2>1, <2>2, AppendFacts, WithoutLastAppend
        <2>4. Seen(m).msg = m
            BY DEF Seen
        <2>5. Len(u) >= 2 /\ u[Len(u) - 1] = t[Len(t)] /\ u[Len(u)] = Seen(m)
            BY <2>2, <2>3
        <2>6. ChosenFrom(Server, hash[Server])'
            BY <2>1, <2>2, <2>4, <2>5 DEF ChosenFrom, Chosen, u
        <2>7. pending'[Server].read = [key |-> HandshakeKey(u), seq |-> 0]
            BY <2>1, <2>3 DEF KeyedBy, HandshakeKey
        <2> QED
            BY <2>1, <2>6, <2>7 DEF ServerOpening, Choosing, u
    <1>3. CASE Settles \/ Checks \/ ServerConcludes
        BY <1>3 DEF Settles, Checks, ServerConcludes, ServerOpening, Choosing
    <1>4. CASE Stops(Server) \/ Uses(Server)
        BY <1>4 DEF Stops, Uses, ServerOpening, Choosing, Concluded
    <1>5. CASE Stays(Server)
        BY <1>0, <1>5 DEF Stays, KeepsTalk, ServerOpening, ChosenFrom, Chosen
    <1> QED
        BY <1>1, <1>2, <1>3, <1>4, <1>5 DEF Step, ServerDoes

\* What the client does while the server reads its answer leaves the agreement
\* on what was read so far.
LEMMA ClientKeepsAnswer ==
    ASSUME Inv, Step, master[Client] # <<>>, NEW t, IsSeq(t),
           Prefix(t, hash[Client])
    PROVE  /\ master'[Client] = master[Client]
           /\ Prefix(t, hash'[Client])
    <1>1. IsSeq(hash[Client]) /\ Len(hash[Client]) \in Nat /\ Len(t) \in Nat
        BY TranscriptFacts, SeqFacts
    <1>2. at[Client] \notin Opening
        BY DEF Inv, ClientOpening
    <1>3. ASSUME NEW answer, GoesOn(answer)
          PROVE  master'[Client] = master[Client] /\ Prefix(t, hash'[Client])
        <2>1. /\ Prefix(hash[Client], hash'[Client])
              /\ IsSeq(hash'[Client])
            BY <1>1, <1>3, PrefixFacts, AppendFacts DEF GoesOn, Says
        <2>2. Len(hash'[Client]) \in Nat
            BY <2>1, SeqFacts
        <2> QED
            BY <1>1, <1>3, <2>1, <2>2, PrefixExtends DEF GoesOn
    <1> QED
        BY <1>2, <1>3
        DEF Step, ClientDoes, Greets, HearsServer, Verifies, Opening,
           ClientConcludes, Stops, Uses, Stays, KeepsTalk

LEMMA ServerCheckingStep ==
    ASSUME Inv, Step
    PROVE  ServerChecking'
    <1>0. ServerChecking
        BY DEF Inv
    <1>1. /\ IsSeq(hash[Server]) /\ Len(hash[Server]) \in Nat
          /\ IsSeq(master[Server]) /\ Len(master[Server]) \in Nat
        BY TranscriptFacts
    <1>2. CASE Settles
        <2>1. /\ ChosenFrom(Server, hash[Server])
              /\ pending[Server].read = [key |-> HandshakeKey(hash[Server]),
                                         seq |-> 0]
            BY <1>2 DEF Settles, Inv, ServerOpening
        <2>2. /\ hash'[Server] = hash[Server] /\ master'[Server] = hash[Server]
              /\ choice'[Server] = choice[Server]
              /\ readState'[Server] = pending[Server].read
              /\ ForApplication(pending'[Server].read)
            BY <1>2 DEF Settles
        <2>3. Prefix(hash[Server], hash[Server])
              /\ Len(hash[Server]) - Len(hash[Server]) = 0
            BY <1>1, PrefixFacts
        <2> QED
            BY <2>1, <2>2, <2>3 DEF ServerChecking, ChosenFrom, Chosen
    <1>3. CASE Checks
        <2>1. Hears /\ at[Server] \in Checking
            BY <1>3 DEF Checks, Checking
        <2>2. /\ master[Client] = master[Server]
              /\ Prefix(hash'[Server], hash[Client])
              /\ Len(hash'[Server]) = Len(hash[Server]) + 1
              /\ Prefix(master[Server], hash'[Server])
              /\ readState[Server].key # NoKey
            BY <2>1, HearsFacts
        <2>3. /\ ChosenFrom(Server, master[Server])
              /\ readState[Server] =
                    [key |-> HandshakeKey(master[Server]),
                     seq |-> Len(hash[Server]) - Len(master[Server])]
              /\ ForApplication(pending[Server].read)
            BY <1>0, <2>1 DEF ServerChecking
        <2>4. /\ master'[Server] = master[Server]
              /\ choice'[Server] = choice[Server]
              /\ readState'[Server] = Advanced(readState[Server])
              /\ pending'[Server] = pending[Server]
            BY <1>3 DEF Checks, Hears, Counted
        <2>5. IsState(readState[Server])
            BY DEF Inv, Shape
        <2>6. /\ IsState(readState'[Server])
              /\ readState'[Server].key = HandshakeKey(master[Server])
              /\ readState'[Server].seq = readState[Server].seq + 1
            <3> DEFINE a == Advanced(readState[Server])
            <3>1. /\ IsState(a) /\ a.key = readState[Server].key
                  /\ a.seq = readState[Server].seq + 1
                BY <2>2, <2>5, AdvancedFacts
            <3> HIDE DEF a
            <3>2. readState'[Server] = a
                  /\ readState[Server].key = HandshakeKey(master[Server])
                BY <2>3, <2>4 DEF a
            <3> QED
                BY <3>1, <3>2
        <2>7. readState'[Server].seq = Len(hash'[Server]) - Len(master[Server])
            BY <1>1, <2>2, <2>3, <2>6
        <2>8. readState'[Server] =
                 [key |-> HandshakeKey(master[Server]),
                  seq |-> Len(hash'[Server]) - Len(master[Server])]
            BY <2>6, <2>7 DEF IsState
        <2>9. Stays(Client)
            BY <1>3 DEF Step, Checks, Stays, Checking
        <2>10. master'[Client] = master'[Server]
               /\ Prefix(hash'[Server], hash'[Client])
            BY <2>2, <2>4, <2>9 DEF Stays, KeepsTalk
        <2> QED
            BY <2>2, <2>3, <2>4, <2>8, <2>10
            DEF ServerChecking, ChosenFrom, Chosen
    <1>4. CASE Stays(Server)
        <2>1. SUFFICES ASSUME at[Server] \in Checking,
                              hash[Server] # master[Server]
              PROVE  master'[Client] = master[Server]
                     /\ Prefix(hash[Server], hash'[Client])
            BY <1>0, <1>4
            DEF Stays, KeepsTalk, ServerChecking, ChosenFrom, Chosen
        <2>2. /\ master[Client] = master[Server]
              /\ Prefix(hash[Server], hash[Client])
              /\ ChosenFrom(Server, master[Server])
            BY <1>0, <2>1 DEF ServerChecking
        <2>3. master[Client] # <<>>
            BY <2>2, EmptyFacts DEF ChosenFrom
        <2> QED
            BY <1>1, <2>2, <2>3, ClientKeepsAnswer
    <1>5. CASE Chooses \/ (\E m : Proves(m)) \/ ServerConcludes
               \/ Stops(Server) \/ Uses(Server)
        BY <1>5
        DEF Chooses, Proves, ServerConcludes, Stops, Uses, ServerChecking,
           Checking, Choosing, Concluded
    <1> QED
        BY <1>2, <1>3, <1>4, <1>5 DEF Step, ServerDoes

LEMMA ServerRecordsStep ==
    ASSUME Inv, Step
    PROVE  ServerRecords'
    <1> DEFINE Told(r, t) ==
                  /\ r.seq = 0
                  /\ IsSeq(r.key.hash) /\ Len(r.key.hash) < Len(t)
                  /\ Prefix(r.key.hash, t)
                  /\ t[Len(r.key.hash) + 1] = Seen(r.msg)
    <1>1. \A r \in UnderWay(Server) : Handshaking(r) => Told(r, hash[Server])
        BY DEF Inv, ServerRecords
    <1>2. /\ IsSeq(hash[Server]) /\ Len(hash[Server]) \in Nat
          /\ IsSeq(hash'[Server]) /\ Len(hash'[Server]) \in Nat
          /\ Prefix(hash[Server], hash'[Server])
        BY TranscriptFacts, ServerExtends DEF Step
    <1>3. ASSUME NEW r, Told(r, hash[Server])
          PROVE  Told(r, hash'[Server])
        <2>1. Len(r.key.hash) \in Nat
            BY <1>3, SeqFacts
        <2>2. /\ Len(r.key.hash) + 1 \in 1..Len(hash[Server])
              /\ Len(hash[Server]) <= Len(hash'[Server])
            BY <1>2, <1>3, <2>1 DEF Prefix
        <2>3. hash'[Server][Len(r.key.hash) + 1] =
                 hash[Server][Len(r.key.hash) + 1]
            BY <1>2, <2>2 DEF Prefix
        <2>4. Prefix(r.key.hash, hash'[Server])
            BY <1>2, <1>3, <2>1, PrefixExtends
        <2> QED
            BY <1>2, <1>3, <2>1, <2>2, <2>3, <2>4
    <1> HIDE DEF Told
    <1>4. \A r \in ToSet(wire'[Server]) : Handshaking(r) =>
             r \in UnderWay(Server)
        BY DEF Step, Wires, Carries, UnderWay
    <1>5. SUFFICES ASSUME NEW r \in ToSet(out'[Server]), Handshaking(r)
          PROVE  Told(r, hash'[Server])
        BY <1>1, <1>3, <1>4 DEF ServerRecords, UnderWay, Told
    <1>6. ASSUME NEW m, Proves(m)
          PROVE  Told(r, hash'[Server])
        <2>1. /\ r.msg = m /\ r.key = KeyedBy("hs", hash[Server]).key
              /\ r.seq = 0
              /\ hash'[Server] = Append(hash[Server], Seen(m))
            BY <1>5, <1>6 DEF Proves
        <2>2. r.key.hash = hash[Server]
            BY <2>1 DEF KeyedBy
        <2> QED
            BY <1>2, <2>1, <2>2, AppendFacts DEF Told
    <1>7. CASE Chooses \/ Settles \/ Checks \/ ServerConcludes \/ Stops(Server)
        BY <1>5, <1>7, EmptyFacts
        DEF Chooses, Settles, Checks, ServerConcludes,
           Stops, NoHandshakeRecord
    <1>8. CASE Uses(Server) \/ Stays(Server)
        BY <1>1, <1>3, <1>5, <1>8 DEF Uses, Stays, UnderWay
    <1> QED
        BY <1>6, <1>7, <1>8 DEF Step, ServerDoes

LEMMA SpeaksStep ==
    ASSUME Inv, Step
    PROVE  Speaks'
    <1>0. \A e \in Ends : at[e] \in Waiting \cup {"done", "send_tickets"} =>
             writeState[e].key.epoch # "hs"
        BY DEF Inv, Speaks
    <1>1. at'[Client] \in Waiting \cup {"done", "send_tickets"} =>
             writeState'[Client].key.epoch # "hs"
        <2>1. CASE Greets \/ HearsServer
            BY <2>1, NoStateFacts
            DEF Greets, HearsServer, Inv, ClientOpening, Opening
        <2>2. CASE \E answer : Verifies(answer) \/ GoesOn(answer)
            BY <2>2 DEF Verifies, GoesOn, Waiting
        <2>3. CASE ClientConcludes
            BY <2>3 DEF ClientConcludes
        <2>4. CASE Stops(Client)
            BY <2>4 DEF Stops, Waiting, Concluded
        <2>5. CASE Uses(Client) \/ Stays(Client)
            BY <1>0, <2>5 DEF Uses, Stays
        <2> QED
            BY <2>1, <2>2, <2>3, <2>4, <2>5 DEF Step, ClientDoes
    <1>2. at'[Server] \in Waiting \cup {"done", "send_tickets"} =>
             writeState'[Server].key.epoch # "hs"
        <2>1. CASE Chooses
            BY <2>1, NoStateFacts DEF Chooses, Inv, ServerOpening, Choosing
        <2>2. CASE \E m : Proves(m)
            BY <2>2 DEF Proves, Waiting
        <2>3. CASE Settles \/ ServerConcludes
            BY <2>3 DEF Settles, ServerConcludes
        <2>4. CASE Checks
            BY <1>0, <2>4 DEF Checks, Waiting
        <2>5. CASE Stops(Server)
            BY <2>5 DEF Stops, Waiting, Concluded
        <2>6. CASE Uses(Server) \/ Stays(Server)
            BY <1>0, <2>6 DEF Uses, Stays
        <2> QED
            BY <2>1, <2>2, <2>3, <2>4, <2>5, <2>6 DEF Step, ServerDoes
    <1> QED
        BY <1>1, <1>2 DEF Speaks

\* Only an end that concluded has a session.
LEMMA SessionFacts ==
    ASSUME Inv, NEW e \in Ends
    PROVE  /\ at[e] \notin Concluded => session[e] = NoSession
           /\ session[e] # NoSession =>
                 at[e] \in Concluded /\ session[e] = SessionOf(e)
    BY DEF Inv, Sessions, IsSession

\* What a session that can no longer be resumed still says.
LEMMA DroppedFacts ==
    ASSUME Inv, NEW e \in Ends, NEW s,
           s = [session[e] EXCEPT !.resumable = FALSE]
    PROVE  /\ session[e] = NoSession => s = NoSession
           /\ session[e] # NoSession =>
                 /\ s # NoSession
                 /\ s = [group |-> session[e].group, psk |-> session[e].psk,
                         scheme |-> session[e].scheme,
                         clientCert |-> session[e].clientCert,
                         master |-> session[e].master,
                         exporter |-> session[e].exporter,
                         resumption |-> session[e].resumption,
                         resumable |-> FALSE]
    <1>1. session[e] = NoSession => s = NoSession
        BY DEF NoSession
    <1>2. ASSUME session[e] # NoSession
          PROVE  s = [group |-> session[e].group, psk |-> session[e].psk,
                      scheme |-> session[e].scheme,
                      clientCert |-> session[e].clientCert,
                      master |-> session[e].master,
                      exporter |-> session[e].exporter,
                      resumption |-> session[e].resumption,
                      resumable |-> FALSE]
        <2>1. ASSUME NEW a, NEW b, NEW c, NEW d, NEW f, NEW g, NEW h, NEW i,
                     NEW r, r = [group |-> a, psk |-> b, scheme |-> c,
                                 clientCert |-> d, master |-> f,
                                 exporter |-> g,
                                 resumption |-> h, resumable |-> i],
                     s = [r EXCEPT !.resumable = FALSE]
              PROVE  s = [group |-> r.group, psk |-> r.psk,
                          scheme |-> r.scheme,
                          clientCert |-> r.clientCert, master |-> r.master,
                          exporter |-> r.exporter, resumption |-> r.resumption,
                          resumable |-> FALSE]
            BY <2>1
        <2> QED
            BY <1>2, <2>1, SessionFacts DEF SessionOf
    <1>3. ASSUME NEW a, NEW b, NEW c, NEW d, NEW f, NEW g, NEW h,
                 s = [group |-> a, psk |-> b, scheme |-> c,
                      clientCert |-> d, master |-> f, exporter |-> g,
                      resumption |-> h, resumable |-> FALSE]
          PROVE  s # NoSession
        <2>1. "group" \in DOMAIN s /\ "group" \notin DOMAIN NoSession
            BY <1>3 DEF NoSession
        <2> QED
            BY <2>1
    <1> QED
        BY <1>1, <1>2, <1>3

LEMMA ConcludedFacts ==
    ASSUME NEW c, NEW s, s = Concludes(Client, c)
    PROVE  s = [group |-> choice[Client].group, psk |-> choice[Client].psk,
                scheme |-> choice[Client].scheme, clientCert |-> s.clientCert,
                master |-> master[Client],
                exporter |-> WithoutLast(hash[Client]),
                resumption |-> hash[Client], resumable |-> s.resumable]
    BY DEF Concludes, NewSession

LEMMA SessionsStep ==
    ASSUME Inv, Step
    PROVE  Sessions'
    <1>1. ASSUME NEW e \in Ends, KeepsTalk(e), session'[e] = session[e],
                 at[e] \in Concluded => at'[e] \in Concluded
          PROVE  IsSession(e)'
        BY <1>1, SessionFacts DEF IsSession, SessionOf, KeepsTalk
    <1>2. ASSUME NEW e \in Ends, at[e] \notin Concluded,
                 session'[e] = session[e]
          PROVE  IsSession(e)'
        BY <1>2, SessionFacts DEF IsSession
    <1>3. ASSUME NEW e \in Ends, Stops(e)
          PROVE  IsSession(e)'
        <2>1. CASE session'[e] = session[e]
            BY <1>1, <1>3, <2>1 DEF Stops
        <2>2. CASE session'[e] = [session[e] EXCEPT !.resumable = FALSE]
            <3>1. CASE session[e] = NoSession
                BY <2>2, <3>1, DroppedFacts DEF IsSession
            <3>2. CASE session[e] # NoSession
                <4>1. at'[e] \in Concluded /\ session[e] = SessionOf(e)
                      /\ KeepsTalk(e)
                    BY <1>3, <3>2, SessionFacts DEF Stops
                <4>2. session'[e] = [group |-> session[e].group,
                                     psk |-> session[e].psk,
                                     scheme |-> session[e].scheme,
                                     clientCert |-> session[e].clientCert,
                                     master |-> session[e].master,
                                     exporter |-> session[e].exporter,
                                     resumption |-> session[e].resumption,
                                     resumable |-> FALSE]
                    BY <2>2, <3>2, DroppedFacts
                <4>3. session'[e] = SessionOf(e)'
                    <5>1. /\ session[e].group = choice[e].group
                          /\ session[e].psk = choice[e].psk
                          /\ session[e].scheme = choice[e].scheme
                          /\ session[e].master = master[e]
                          /\ session[e].exporter = WithoutLast(hash[e])
                          /\ session[e].resumption = hash[e]
                        BY <4>1 DEF SessionOf
                    <5>2. /\ session'[e].clientCert = session[e].clientCert
                          /\ session'[e].resumable = FALSE
                        BY <4>2
                    <5> QED
                        BY <4>1, <4>2, <5>1, <5>2 DEF SessionOf, KeepsTalk
                <4> QED
                    BY <4>1, <4>3 DEF IsSession
            <3> QED
                BY <3>1, <3>2
        <2> QED
            BY <1>3, <2>1, <2>2 DEF Stops
    <1>4. IsSession(Client)'
        <2>1. CASE Greets \/ HearsServer \/ \E answer : Verifies(answer)
                   \/ GoesOn(answer)
            BY <1>2, <2>1
            DEF Greets, HearsServer, Verifies, GoesOn, Says, Greeting,
                Concluded
        <2>2. CASE ClientConcludes
            BY <2>2, ConcludedFacts
            DEF ClientConcludes, IsSession, SessionOf, KeepsTalk,
               Concluded
        <2>3. CASE Uses(Client) \/ Stays(Client)
            BY <1>1, <2>3 DEF Uses, Stays
        <2> QED
            BY <1>3, <2>1, <2>2, <2>3 DEF Step, ClientDoes
    <1>5. IsSession(Server)'
        <2>1. CASE Chooses \/ (\E m : Proves(m)) \/ Settles \/ Checks
            BY <1>2, <2>1 DEF Chooses, Proves, Settles, Checks, Concluded
        <2>2. CASE ServerConcludes
            <3>1. WithoutLast(hash'[Server]) = hash[Server]
                BY <2>2, WithoutLastAppend, TranscriptFacts
                DEF ServerConcludes, Hears
            <3>2. session'[Server] = NewSession(Server, SessionCert,
                                                hash[Server], hash'[Server])
                  /\ choice'[Server] = choice[Server]
                  /\ master'[Server] = master[Server]
                  /\ at'[Server] \in Concluded
                BY <2>2 DEF ServerConcludes, Hears, Concluded
            <3>3. ASSUME NEW c, NEW s, NEW h, NEW t,
                         s = NewSession(Server, c, t, h)
                  PROVE  s = [group |-> choice[Server].group,
                              psk |-> choice[Server].psk,
                              scheme |-> choice[Server].scheme,
                              clientCert |-> s.clientCert,
                              master |-> master[Server], exporter |-> t,
                              resumption |-> h, resumable |-> s.resumable]
                BY <3>3 DEF NewSession
            <3>4. session'[Server] = SessionOf(Server)'
                BY <3>1, <3>2, <3>3 DEF SessionOf
            <3> QED
                BY <3>2, <3>4 DEF IsSession
        <2>3. CASE Uses(Server) \/ Stays(Server)
            BY <1>1, <2>3 DEF Uses, Stays
        <2> QED
            BY <1>3, <2>1, <2>2, <2>3 DEF Step, ServerDoes
    <1> QED
        BY <1>4, <1>5 DEF Sessions

LEMMA CertificateSeenStep ==
    ASSUME Inv, Step
    PROVE  CertificateSeen'
    <1>0. CertificateSeen
        BY DEF Inv
    <1>1. client' = client /\ server' = server
        BY DEF Step, client, server
    <1>2. CASE Checks
        <2>1. Hears /\ at[Server] \in Checking
            BY <1>2 DEF Checks, Checking
        <2>2. /\ Upcoming(Server) \in ToSet(wire[Client])
              /\ Handshaking(Upcoming(Server))
            BY <2>1, HearsFacts
        <2>3. Upcoming(Server).msg.type = "certificate" =>
                 Upcoming(Server).msg.cert = client.cert
            BY <2>2 DEF Inv, ClientRecords, UnderWay
        <2>4. choice'[Server] = choice[Server]
            BY <2>1 DEF Hears
        <2> QED
            BY <1>0, <1>1, <1>2, <2>3, <2>4
            DEF Checks, CertificateSeen, Checking, Choosing
    <1>3. ASSUME clientCert' = clientCert, Chooses
          PROVE  CertificateSeen'
        BY <1>0, <1>1, <1>3 DEF Chooses, CertificateSeen, Checking, Choosing
    <1>4. ASSUME clientCert' = clientCert, NEW m, Proves(m)
          PROVE  CertificateSeen'
        BY <1>0, <1>1, <1>4 DEF Proves, CertificateSeen, Checking, Choosing
    <1>5. ASSUME clientCert' = clientCert, Settles
          PROVE  CertificateSeen'
        BY <1>0, <1>1, <1>5 DEF Settles, CertificateSeen, Checking, Choosing
    <1>6. ASSUME clientCert' = clientCert,
                 ServerConcludes \/ Stops(Server) \/ Uses(Server)
          PROVE  CertificateSeen'
        BY <1>0, <1>1, <1>6 DEF ServerConcludes, Hears, Stops, Uses, KeepsTalk,
           CertificateSeen, Checking, Choosing, Concluded
    <1>7. ASSUME clientCert' = clientCert, Stays(Server)
          PROVE  CertificateSeen'
        BY <1>0, <1>1, <1>7 DEF Stays, KeepsTalk, CertificateSeen
    <1> QED
        BY <1>2, <1>3, <1>4, <1>5, <1>6, <1>7 DEF Step, ServerDoes

\* Dropping a session leaves what it was concluded on.
LEMMA ViewStays ==
    ASSUME Inv, NEW e \in Ends,
           session'[e] \in {session[e],
                            [session[e] EXCEPT !.resumable = FALSE]}
    PROVE  /\ View(e)' = View(e)
           /\ session'[e] = NoSession <=> session[e] = NoSession
    <1>1. CASE session'[e] = session[e]
        BY <1>1 DEF View
    <1>2. CASE session'[e] = [session[e] EXCEPT !.resumable = FALSE]
        <2>1. CASE session[e] = NoSession
            BY <1>2, <2>1, DroppedFacts DEF View
        <2>2. CASE session[e] # NoSession
            <3>1. /\ session'[e] # NoSession
                  /\ session'[e] = [group |-> session[e].group,
                                    psk |-> session[e].psk,
                                    scheme |-> session[e].scheme,
                                    clientCert |-> session[e].clientCert,
                                    master |-> session[e].master,
                                    exporter |-> session[e].exporter,
                                    resumption |-> session[e].resumption,
                                    resumable |-> FALSE]
                BY <1>2, <2>2, DroppedFacts
            <3>2. /\ session'[e].group = session[e].group
                  /\ session'[e].psk = session[e].psk
                  /\ session'[e].scheme = session[e].scheme
                  /\ session'[e].master = session[e].master
                  /\ session'[e].exporter = session[e].exporter
                  /\ session'[e].resumption = session[e].resumption
                BY <3>1
            <3> QED
                BY <2>2, <3>1, <3>2 DEF View
        <2> QED
            BY <2>1, <2>2
    <1> QED
        BY <1>1, <1>2

\* An end without a session, and only that, has no view.
LEMMA ViewFacts ==
    ASSUME NEW e
    PROVE  View(e) = NoView <=> session[e] = NoSession
    <1>1. ASSUME session[e] # NoSession
          PROVE  View(e) # NoView
        <2>1. "psk" \in DOMAIN View(e) /\ "psk" \notin DOMAIN NoView
            BY <1>1 DEF View, NoView
        <2> QED
            BY <2>1
    <1> QED
        BY <1>1 DEF View

\* The client concludes once.
LEMMA ClientViews ==
    ASSUME Inv, Step
    PROVE  \/ View(Client)' = View(Client)
           \/ /\ at[Client] = "send_finished"
              /\ session[Client] = NoSession /\ View(Client) = NoView
              /\ View(Client)' # NoView
              /\ Stays(Server)
    <1>1. CASE Stops(Client) \/ session'[Client] = session[Client]
        BY <1>1, ViewStays DEF Stops
    <1>2. CASE ClientConcludes
        <2>1. session[Client] = NoSession
            BY <1>2, SessionFacts DEF ClientConcludes, Concluded
        <2>2. session'[Client] # NoSession
            BY <1>2, NewSessionFacts DEF ClientConcludes, Concludes
        <2>3. Stays(Server)
            BY <1>2 DEF Step, Stays, ClientConcludes
        <2>4. View(Client)' # NoView
            <3>1. "psk" \in DOMAIN View(Client)' /\ "psk" \notin DOMAIN NoView
                BY <2>2 DEF View, NoView
            <3> QED
                BY <3>1
        <2> QED
            BY <1>2, <2>1, <2>3, <2>4, ViewFacts DEF ClientConcludes
    <1> QED
        BY <1>1, <1>2
        DEF Step, ClientDoes, Greets, HearsServer, Verifies, GoesOn,
           Says, Uses, Stays

\* The server concludes on what the client concluded on.
LEMMA ServerAgrees ==
    ASSUME Inv, Step, ServerConcludes
    PROVE  /\ View(Server)' = View(Client) /\ View(Client) # NoView
           /\ View(Server) = NoView
           /\ session'[Server] # NoSession
           /\ session'[Server].psk = choice[Server].psk
           /\ session'[Server].clientCert = SessionCert
           /\ Stays(Client)
    <1> DEFINE r == Upcoming(Server)
               n == Len(hash[Server])
    <1>0. /\ IsSeq(hash[Server]) /\ n \in Nat
          /\ IsSeq(hash[Client]) /\ Len(hash[Client]) \in Nat
          /\ Client \in Ends /\ Server \in Ends
        BY TranscriptFacts
    <1>1. /\ Hears /\ at[Server] = "wait_finished" /\ r.msg.type = "finished"
          /\ session'[Server] = NewSession(Server, SessionCert, hash[Server],
                                           hash'[Server])
        BY DEF ServerConcludes
    <1>2. /\ r \in ToSet(wire[Client]) /\ Handshaking(r)
          /\ master[Client] = master[Server]
          /\ n + 1 \in Answers(Client)
          /\ hash[Client][n + 1] = Seen(r.msg)
          /\ Prefix(hash'[Server], hash[Client])
          /\ Len(hash'[Server]) = n + 1 /\ IsSeq(hash'[Server])
        BY <1>1, HearsFacts DEF Checking
    <1>3. session[Client] # NoSession
        BY <1>1, <1>2 DEF Inv, ClientRecords
    <1>4. ChosenFrom(Server, master[Server])
        BY <1>1 DEF Inv, ServerChecking, Checking
    <1>5. ChosenFrom(Client, master[Client])
          /\ \A i \in Answers(Client) :
                hash[Client][i].msg.type = "finished" => i = Len(hash[Client])
        <2>1. master[Client] # <<>>
            BY <1>2, <1>4, EmptyFacts DEF ChosenFrom
        <2> QED
            BY <2>1 DEF Inv, ClientAnswering
    <1>6. /\ choice[Server].group = choice[Client].group
          /\ choice[Server].psk = choice[Client].psk
          /\ choice[Server].scheme = choice[Client].scheme
        BY <1>2, <1>4, <1>5 DEF ChosenFrom, Chosen
    <1>7. hash'[Server] = hash[Client]
        <2>1. Seen(r.msg).msg.type = "finished"
            BY <1>1 DEF Seen
        <2>2. n + 1 = Len(hash[Client])
            BY <1>2, <1>5, <2>1
        <2> QED
            BY <1>0, <1>2, <2>2, SameSeq DEF Prefix
    <1>8. WithoutLast(hash[Client]) = hash[Server]
        <2>1. PICK x : hash'[Server] = Append(hash[Server], x)
            BY <1>1 DEF Hears
        <2> QED
            BY <1>0, <1>7, <2>1, WithoutLastAppend
    <1>9. session[Client] = SessionOf(Client)
        BY <1>3, SessionFacts
    <1> DEFINE s == session'[Server]
    <1>10. /\ s.group = choice[Server].group /\ s.psk = choice[Server].psk
           /\ s.scheme = choice[Server].scheme /\ s.clientCert = SessionCert
           /\ s.master = master[Server] /\ s.exporter = hash[Server]
           /\ s.resumption = hash'[Server] /\ s # NoSession
        BY <1>1, NewSessionFacts DEF NewSession
    <1>11. View(Server)' = [group |-> choice[Server].group,
                            psk |-> choice[Server].psk,
                            scheme |-> choice[Server].scheme,
                            master |-> master[Server],
                            exporter |-> hash[Server],
                            resumption |-> hash'[Server]]
        BY <1>10 DEF View
    <1>12. View(Client) = [group |-> choice[Client].group,
                           psk |-> choice[Client].psk,
                           scheme |-> choice[Client].scheme,
                           master |-> master[Client],
                           exporter |-> WithoutLast(hash[Client]),
                           resumption |-> hash[Client]]
        <2>1. /\ session[Client].group = choice[Client].group
              /\ session[Client].psk = choice[Client].psk
              /\ session[Client].scheme = choice[Client].scheme
              /\ session[Client].master = master[Client]
              /\ session[Client].exporter = WithoutLast(hash[Client])
              /\ session[Client].resumption = hash[Client]
            BY <1>9 DEF SessionOf
        <2> QED
            BY <1>3, <2>1 DEF View
    <1>13. View(Server)' = View(Client)
        BY <1>2, <1>6, <1>7, <1>8, <1>11, <1>12
    <1>14. View(Client) # NoView /\ View(Server) = NoView
        BY <1>1, <1>3, SessionFacts, ViewFacts DEF Concluded
    <1>15. Stays(Client)
        BY DEF Step, Stays, ServerConcludes
    <1> QED
        BY <1>10, <1>13, <1>14, <1>15

\* The server concludes once.
LEMMA ServerViews ==
    ASSUME Inv, Step
    PROVE  \/ /\ session'[Server] \in
                    {session[Server],
                     [session[Server] EXCEPT !.resumable = FALSE]}
              /\ View(Server)' = View(Server)
              /\ session'[Server] = NoSession <=> session[Server] = NoSession
           \/ ServerConcludes
    BY ViewStays
    DEF Step, ServerDoes, Chooses, Proves, Settles, Checks, Stops, Uses, Stays

LEMMA AgreeingStep ==
    ASSUME Inv, Step
    PROVE  Agreeing'
    <1>1. CASE ServerConcludes
        <2>1. View(Server)' = View(Client) /\ Stays(Client)
            BY <1>1, ServerAgrees
        <2>2. View(Client)' = View(Client)
            BY <2>1, ViewStays DEF Stays
        <2> QED
            BY <2>1, <2>2 DEF Agreeing
    <1>2. CASE ~ServerConcludes
        <2>1. SUFFICES ASSUME session'[Server] # NoSession
              PROVE  View(Server)' = View(Client)'
            BY DEF Agreeing
        <2>2. View(Server)' = View(Server) /\ session[Server] # NoSession
            BY <1>2, <2>1, ServerViews
        <2>3. View(Server) = View(Client) /\ View(Server) # NoView
            BY <2>2, ViewFacts DEF Inv, Agreeing
        <2> QED
            BY <2>2, <2>3, ClientViews
    <1> QED
        BY <1>1, <1>2

\* The server names a certificate it asked for, or the one of the ticket.
LEMMA ClientIdentityStep ==
    ASSUME Inv, Step
    PROVE  ClientIdentity'
    <1>1. client' = client /\ server' = server
        BY DEF Step, client, server
    <1>2. server.reqCert \in BOOLEAN
        <2>1. setup \in [client : ClientSetups, server : ServerSetups]
            BY SetupsAssumption DEF Inv, Shape, Maps
        <2>2. server \in ServerSetups
            BY <2>1 DEF server
        <2> QED
            BY <2>2 DEF ServerSetups
    <1>3. CASE ServerConcludes
        <2>1. /\ session'[Server].psk = choice[Server].psk
              /\ session'[Server].clientCert = SessionCert
            BY <1>3, ServerAgrees
        <2>2. /\ choice[Server].psk \in BOOLEAN
              /\ choice[Server].request =
                    (server.reqCert /\ ~choice[Server].psk)
              /\ clientCert =
                    (IF choice[Server].request THEN client.cert ELSE "none")
            BY <1>3 DEF ServerConcludes, Inv, CertificateSeen, Checking
        <2> DEFINE s == session'[Server]
        <2>3. s.psk => s.clientCert = client.ticketCert
            BY <2>1 DEF SessionCert
        <2>4. ~s.psk /\ server.reqCert => s.clientCert = client.cert
            BY <1>2, <2>1, <2>2 DEF SessionCert
        <2>5. ~s.psk /\ ~server.reqCert => s.clientCert = "none"
            BY <1>2, <2>1, <2>2 DEF SessionCert
        <2>6. s.psk \in BOOLEAN
            BY <2>1, <2>2
        <2> HIDE DEF s
        <2> QED
            BY <1>1, <1>2, <2>3, <2>4, <2>5, <2>6 DEF ClientIdentity, s
    <1>4. CASE ~ServerConcludes
        <2>0. session'[Server] \in
                 {session[Server], [session[Server] EXCEPT !.resumable = FALSE]}
            BY <1>4, ServerViews
        <2>1. SUFFICES ASSUME session'[Server] # NoSession
              PROVE  ClientIdentity'
            BY DEF ClientIdentity
        <2>2. /\ session[Server] # NoSession
              /\ session'[Server].psk = session[Server].psk
              /\ session'[Server].clientCert = session[Server].clientCert
            BY <2>0, <2>1, DroppedFacts
        <2> QED
            BY <1>1, <2>2 DEF Inv, ClientIdentity
    <1> QED
        BY <1>3, <1>4

\* An end that failed dropped its session in the same step.
LEMMA FailedStep ==
    ASSUME Inv, Step
    PROVE  FailedNotResumable'
    <1>0. FailedNotResumable
        BY DEF Inv
    <1>1. ASSUME NEW e \in Ends, Stops(e) \/ Uses(e) \/ Stays(e)
          PROVE  at'[e] = "failed" => ~session'[e].resumable
        BY <1>0, <1>1 DEF Stops, Uses, Stays, FailedNotResumable
    <1>2. at'[Client] = "failed" => ~session'[Client].resumable
        BY <1>1 DEF Step, ClientDoes, Greets, Greeting, HearsServer, Verifies,
           GoesOn, ClientConcludes
    <1>3. at'[Server] = "failed" => ~session'[Server].resumable
        BY <1>1
        DEF Step, ServerDoes, Chooses, Choosing, Proves, Settles, Checks,
           ServerConcludes
    <1> QED
        BY <1>2, <1>3 DEF FailedNotResumable

-----------------------------------------------------------------------------
(***************************************************************************)
(* Theorems.                                                               *)
(***************************************************************************)
\* Two fresh connections satisfy the invariant.
LEMMA InitInv ==
    ASSUME Init
    PROVE  Inv
    <1>1. /\ at[Client] = "start" /\ at[Server] = "wait_hello"
          /\ clientCert = "none" /\ setup \in Setups
          /\ \A e \in Ends : /\ writeState[e] = NoState
             /\ readState[e] = NoState
                             /\ hash[e] = <<>> /\ master[e] = <<>>
                             /\ out[e] = <<>> /\ wire[e] = <<>>
                             /\ choice[e] = NoChoice /\ session[e] = NoSession
        BY DEF Init
    <1>2. Maps
        BY DEF Init, Maps, Places
    <1>3. \A e \in Ends : UnderWay(e) = {}
        BY <1>1, EmptyFacts DEF UnderWay
    <1>4. Shape
        BY <1>1, <1>2, <1>3, EmptyFacts, NoStateFacts
        DEF Shape, IsChoice, NoChoice
    <1>5. ClientOpening /\ ClientAnswering
        BY <1>1, NoStateFacts
        DEF ClientOpening, ClientAnswering, Opening, Greeting, Answering
    <1>6. ClientRecords /\ ServerRecords
        BY <1>1, <1>3, EmptyFacts DEF ClientRecords, ServerRecords
    <1>7. ServerOpening /\ ServerChecking
        BY <1>1, NoStateFacts
        DEF ServerOpening, ServerChecking, Checking, Choosing
    <1>8. Speaks
        BY <1>1, NoStateFacts DEF Speaks
    <1>9. Sessions /\ ClientIdentity /\ FailedNotResumable /\ Agreeing
        BY <1>1
        DEF Sessions, IsSession, ClientIdentity, FailedNotResumable, Agreeing
    <1>10. CertificateSeen
        <2>1. choice[Server].psk \in BOOLEAN
            <3>1. NoChoice.psk \in BOOLEAN
                BY DEF NoChoice
            <3> QED
                BY <1>1, <3>1
        <2> QED
            BY <1>1, <2>1 DEF CertificateSeen, Checking
    <1> QED
        BY <1>4, <1>5, <1>6, <1>7, <1>8, <1>9, <1>10 DEF Inv

\* Every step preserves it.
LEMMA InvStep ==
    ASSUME Inv, [Next]_vars
    PROVE  Inv'
    <1>1. Step
        BY NextStep
    <1>2. Shape'
        BY ShapeStep
    <1>3. ClientOpening' /\ ClientAnswering' /\ ClientRecords'
        BY <1>1, ClientOpeningStep, ClientAnsweringStep, ClientRecordsStep
    <1>4. ServerOpening' /\ ServerChecking' /\ ServerRecords'
        BY <1>1, ServerOpeningStep, ServerCheckingStep, ServerRecordsStep
    <1>5. Speaks' /\ Sessions' /\ CertificateSeen'
        BY <1>1, SpeaksStep, SessionsStep, CertificateSeenStep
    <1>6. ClientIdentity' /\ FailedNotResumable' /\ Agreeing'
        BY <1>1, ClientIdentityStep, FailedStep, AgreeingStep
    <1> QED
        BY <1>2, <1>3, <1>4, <1>5, <1>6 DEF Inv

\* The invariant holds of every reachable state: two transcripts that were
\* derived to the same handshake key are the same up to the flight, and each
\* end's records are its transcript after that.
THEOREM Invariance == Spec => []Inv
    <1>1. Init => Inv
        BY InitInv
    <1>2. Inv /\ [Next]_vars => Inv'
        BY InvStep
    <1> QED
        BY <1>1, <1>2, PTL DEF Spec

\* A handshake that failed, on either end and at whatever point, leaves no
\* session that can be resumed: _shutdown(False) on every path that raises.
THEOREM FailedHandshakes == Spec => []FailedNotResumable
    BY Invariance, PTL DEF Inv

\* The certificate the server's session names is the client's own, asked for in
\* this handshake or taken from the ticket; without a request there is none.
THEOREM ClientIdentified == Spec => []ClientIdentity
    BY Invariance, PTL DEF Inv

\* The server only concludes on the group, the way of authentication, the
\* application keys and the exporter and resumption secrets that the client
\* concluded on: the two handshakes implement Agreement, whatever is lost or
\* damaged on the way.
THEOREM AgreementRefined == Spec => ImplementsAgreement
    <1> DEFINE view == [e \in Ends |-> View(e)]
    <1>1. Init => Agreed!Init
        BY DEF Init, Agreed!Init, Agreed!Ends, View
    <1>2. Inv /\ [Next]_vars => [Agreed!Next]_view
        <2>1. SUFFICES ASSUME Inv, Step
              PROVE  [Agreed!Next]_view
            BY NextStep
        <2>2. /\ view[Client] = View(Client) /\ view'[Client] = View(Client)'
              /\ view[Server] = View(Server) /\ view'[Server] = View(Server)'
            OBVIOUS
        <2>3. CASE ServerConcludes
            <3>1. /\ View(Server)' = View(Client) /\ View(Client) # NoView
                  /\ View(Server) = NoView /\ Stays(Client)
                BY <2>1, <2>3, ServerAgrees
            <3>2. View(Client)' = View(Client)
                BY <2>1, <3>1, ViewStays DEF Stays
            <3> QED
                BY <3>1, <3>2 DEF Agreed!Next, Agreed!ServerConcludes
        <2>4. CASE ~ServerConcludes /\ View(Client)' = View(Client)
            BY <2>1, <2>4, ServerViews
        <2>5. CASE ~ServerConcludes /\ View(Client)' # View(Client)
            <3>1. /\ View(Client) = NoView /\ View(Client)' # NoView
                  /\ View(Server)' = View(Server)
                BY <2>1, <2>5, ClientViews, ServerViews
            <3> QED
                BY <3>1 DEF Agreed!Next, Agreed!ClientConcludes
        <2> QED
            BY <2>3, <2>4, <2>5
    <1> QED
        BY <1>1, <1>2, Invariance, PTL
        DEF Spec, ImplementsAgreement, Agreed!Spec

-----------------------------------------------------------------------------
(***************************************************************************)
(* The course of a handshake without faults.                               *)
(***************************************************************************)
\* Without a fault the settings decide every message, but for the outcome of
\* a proof.  These are the messages and the transcripts they make.
Retries == SharedGroup(client) = "none"
Retry == [type |-> "retry", group |-> RetryGroup(client)]
Greeted == <<Seen(FirstHello)>>
Retried == Append(Greeted, Seen(Retry))
Second == SecondHello(Retry.group, "good", Retried)
GreetedAgain == Append(Retried, Seen(Second))

Requests == server.reqCert /\ ~Resumes
Certified == client.cert # "none"
Scheme == IF Resumes THEN "none" ELSE ServerScheme(client)
Settled == [type |-> "server_hello", group |-> Group(server.groups),
            psk |-> Resumes]
Met == Append(IF Retries THEN GreetedAgain ELSE Greeted, Seen(Settled))
FlightOf == [right \in BOOLEAN |->
    [type |-> "flight", request |-> Requests,
     schemes |-> IF Requests THEN server.schemes ELSE <<>>,
     scheme |-> Scheme, right |-> right]]
Proven == Append(Met, Seen(FlightOf[TRUE]))
Verification ==
    [type |-> "certificate_verify",
     scheme |-> FirstMatch(client.schemes,
                           ToSet(server.schemes) \cap SchemesOf(client.cert))]

\* The keys, and the records sealed with them.
HsKey == [epoch |-> "hs", hash |-> Met]
AppKey == [epoch |-> "app", hash |-> Proven]
Under(key, n, m) == [msg |-> m, key |-> key, seq |-> n, intact |-> TRUE]
Numbered(key, n) == [key |-> key, seq |-> n]
Plain(m) == Under(NoKey, 0, m)
Ccs == Plain(Simple("ccs"))
Alert == Plain(Simple("alert"))
Greeting1 == Plain(FirstHello)
RetryR == Plain(Retry)
Greeting2 == Plain(Second)
Answer1 == Plain(Settled)
FlightR == [right \in BOOLEAN |-> Under(HsKey, 0, FlightOf[right])]
CertR == Under(HsKey, 0, [type |-> "certificate", cert |-> client.cert])
VerifyR == Under(HsKey, 1, Verification)
Answered == IF ~Requests THEN 0 ELSE IF Certified THEN 2 ELSE 1
FinR == Under(HsKey, Answered, Simple("finished"))
AlertR == Under(AppKey, 0, Simple("alert"))

\* A reason for a handshake to fail.
Blame == ~Compatible \/ client.rejects \/ server.rejects

\* w is x and records that the reader of x opens one after the other with its
\* application key, from number n on.
Runs(w, x, n) ==
    /\ IsSeq(w) /\ Len(x) <= Len(w)
    /\ \A i \in 1..Len(w) :
          IF i <= Len(x) THEN w[i] = x[i]
          ELSE /\ w[i].key = AppKey /\ w[i].intact
               /\ w[i].seq = n + i - Len(x) - 1

\* The situations the two ends can be in.
Starting ==
    /\ at[Client] = "start" /\ at[Server] = "wait_hello"
    /\ wire[Client] = <<>> /\ wire[Server] = <<>>
HelloOut ==
    /\ at[Client] = "send_hello" /\ at[Server] = "wait_hello"
    /\ wire[Client] = <<>> /\ wire[Server] = <<>>
    /\ out[Client] = <<Greeting1>>
HelloSent ==
    /\ at[Client] = "wait_hello" /\ at[Server] = "wait_hello"
    /\ wire[Client] = <<Greeting1>> /\ wire[Server] = <<>>

RetryOut ==
    /\ at[Client] = "wait_hello" /\ at[Server] = "send_retry"
    /\ wire[Client] = <<>> /\ wire[Server] = <<>>
    /\ out[Server] = <<RetryR, Ccs>>
    /\ Retries /\ Retry.group # "none"
    /\ hash[Server] = Retried /\ choice[Server].group = Retry.group
RetryUnread ==
    /\ at[Client] = "wait_hello" /\ at[Server] = "wait_second"
    /\ wire[Client] = <<>> /\ wire[Server] = <<RetryR, Ccs>>
    /\ Retries /\ Retry.group # "none"
    /\ hash[Server] = Retried /\ choice[Server].group = Retry.group
SecondOut ==
    /\ at[Client] = "send_second" /\ at[Server] = "wait_second"
    /\ wire[Client] = <<>> /\ wire[Server] = <<Ccs>>
    /\ out[Client] = <<Ccs, Greeting2>>
    /\ Retries /\ Retry.group # "none"
    /\ hash[Server] = Retried /\ choice[Server].group = Retry.group
SecondUnread ==
    /\ at[Client] = "wait_retry" /\ at[Server] = "wait_second"
    /\ wire[Client] \in {<<Ccs, Greeting2>>, <<Greeting2>>}
    /\ wire[Server] \in {<<Ccs>>, <<>>}
    /\ Retries /\ Retry.group # "none"
    /\ hash[Server] = Retried /\ choice[Server].group = Retry.group

RefusalOut ==
    /\ at[Client] = "wait_hello" /\ at[Server] = "send_alert"
    /\ wire[Client] = <<>> /\ wire[Server] = <<>>
    /\ out[Server] = <<Alert>>
RefusalUnread ==
    /\ at[Client] = "wait_hello" /\ at[Server] = "failed"
    /\ wire[Client] = <<>> /\ wire[Server] = <<Alert>>

\* The server has all it needs; what the client has not read of its hello.
Hellos ==
    IF at[Client] = "wait_hello" THEN {<<Answer1>>, <<Answer1, Ccs>>}
    ELSE IF at[Client] = "wait_retry"
    THEN {<<Answer1>>, <<Answer1, Ccs>>, <<Ccs, Answer1>>,
          <<Ccs, Answer1, Ccs>>}
    ELSE {<<>>, <<Ccs>>}
Listening ==
    /\ wire[Client] = <<>>
    /\ \/ at[Client] = "wait_hello" /\ ~Retries
       \/ at[Client] = "wait_retry" /\ Retries
       \/ at[Client] = "wait_flight"

AnswerOut ==
    /\ at[Server] = "send_answer"
    /\ Listening
    /\ \/ at[Client] = "wait_hello" /\ wire[Server] = <<>>
       \/ at[Client] = "wait_retry" /\ wire[Server] \in {<<>>, <<Ccs>>}
    /\ out[Server] \in {<<Answer1>>, <<Answer1, Ccs>>}
    /\ hash[Server] = Met
    /\ choice[Server].scheme = Scheme /\ choice[Server].request = Requests
    /\ Outcomes # {"right"} => Blame
Unproven ==
    /\ at[Server] = "failed"
    /\ Listening /\ wire[Server] \in Hellos
FlightOut(right) ==
    /\ at[Server] = "send_flight"
    /\ Listening /\ wire[Server] \in Hellos
    /\ out[Server] = <<FlightR[right]>>
    /\ right \/ Blame
    /\ hash[Server] = Append(Met, Seen(FlightOf[right]))
    /\ choice[Server].request = Requests
    /\ pending[Server].read = Numbered(HsKey, 0)

Checks0 ==
    /\ at[Server] = IF Requests THEN "wait_cert" ELSE "wait_finished"
    /\ readState[Server] = Numbered(HsKey, 0)
Switches ==
    /\ writeState[Server] = Numbered(AppKey, 0)
    /\ pending[Server].read = Numbered(AppKey, 0)
FlightUnread(right) ==
    /\ Checks0
    /\ Listening /\ \E h \in Hellos : wire[Server] = Append(h, FlightR[right])
    /\ IF right THEN Switches ELSE Blame

DoubtOut ==
    /\ Checks0
    /\ at[Client] = "send_alert" /\ wire[Client] = <<>>
    /\ out[Client] = <<Alert>>
DoubtUnread ==
    /\ Checks0
    /\ at[Client] = "failed" /\ wire[Client] = <<Alert>>

\* The client answers the flight.
ServerReads ==
    /\ Switches
    /\ \/ /\ at[Server] = "wait_cert" /\ Requests
          /\ readState[Server] = Numbered(HsKey, 0)
       \/ /\ at[Server] = "wait_verify" /\ Requests /\ Certified
          /\ readState[Server] = Numbered(HsKey, 1)
       \/ /\ at[Server] = "wait_finished"
          /\ readState[Server] = Numbered(HsKey, Answered)
Unchecked ==
    IF at[Server] = "wait_cert"
    THEN IF Certified THEN <<CertR, VerifyR>> ELSE <<CertR>>
    ELSE IF at[Server] = "wait_verify" THEN <<VerifyR>> ELSE <<>>
CertificateGone ==
    /\ Requests /\ Certified
    /\ \/ at[Server] = "wait_cert" /\ wire[Client] = <<CertR>>
       \/ at[Server] = "wait_verify" /\ wire[Client] = <<>>

CertificateOut ==
    /\ at[Client] = "send_cert" /\ at[Server] = "wait_cert"
    /\ ServerReads
    /\ master[Client] = Proven /\ writeState[Client] = Numbered(HsKey, 1)
    /\ wire[Client] = <<>> /\ wire[Server] = <<>>
    /\ out[Client] = <<CertR>>
VerifyOut ==
    /\ at[Client] = "send_verify"
    /\ ServerReads /\ CertificateGone
    /\ master[Client] = Proven /\ writeState[Client] = Numbered(HsKey, 2)
    /\ wire[Server] = <<>>
    /\ out[Client] = <<VerifyR>>
Unsigned ==
    /\ at[Client] = "failed"
    /\ ServerReads /\ CertificateGone
FinishedOut ==
    /\ at[Client] = "send_finished"
    /\ ServerReads
    /\ wire[Client] = Unchecked /\ wire[Server] = <<>>
    /\ out[Client] \in {<<FinR>>, <<Ccs, FinR>>}
    /\ pending[Client].write = Numbered(AppKey, 0)
    /\ readState[Client] = Numbered(AppKey, 0)

\* The client is through with its handshake: what follows x on its wire.
ClientOver(x, n) ==
    /\ Runs(wire[Client], x, n)
    /\ \/ /\ at[Client] = "done"
          /\ writeState[Client] =
                Numbered(AppKey, n + Len(wire[Client]) - Len(x))
       \/ /\ at[Client] = "send_reject" /\ n = 0
          /\ Len(wire[Client]) = Len(x)
          /\ out[Client] = <<AlertR>>
       \/ /\ at[Client] = "failed" /\ n = 0
          /\ Len(wire[Client]) = Len(x) + 1
          /\ wire[Client][Len(x) + 1].msg.type = "alert"
Finishing(s) == {Append(s, FinR), Append(Append(s, Ccs), FinR)}
Unread == Finishing(Unchecked)
Ending ==
    /\ ServerReads
    /\ \E x \in Unread : ClientOver(x, 0)
    /\ at[Client] # "failed" =>
          wire[Server] = <<>> /\ readState[Client] = Numbered(AppKey, 0)

\* So is the server.
ServerOver(n) ==
    /\ Runs(wire[Server], <<>>, n)
    /\ at[Server] \in {"send_tickets", "send_reject"} =>
          \E m : out[Server] = <<Under(AppKey, n + Len(wire[Server]), m)>>
    /\ at[Server] = "send_tickets" =>
          writeState[Server] = Numbered(AppKey, n + Len(wire[Server]) + 1)
Ended ==
    /\ at[Client] \in {"done", "send_reject", "failed"}
    /\ at[Server] \in {"done", "send_reject", "failed", "send_tickets",
                       "salvage_tickets"}
    /\ at[Server] = "salvage_tickets" => at[Client] = "failed"
    /\ at[Server] # "failed" =>
          \E n \in Nat : /\ readState[Server] = Numbered(AppKey, n)
                         /\ ClientOver(<<>>, n)
    /\ at[Client] # "failed" =>
          \E n \in Nat : /\ readState[Client] = Numbered(AppKey, n)
                         /\ ServerOver(n)

Situation ==
    \/ Starting \/ HelloOut \/ HelloSent
    \/ RetryOut \/ RetryUnread \/ SecondOut \/ SecondUnread
    \/ RefusalOut \/ RefusalUnread
    \/ AnswerOut \/ Unproven
    \/ \E right \in BOOLEAN : FlightOut(right) \/ FlightUnread(right)
    \/ DoubtOut \/ DoubtUnread
    \/ CertificateOut \/ VerifyOut \/ Unsigned \/ FinishedOut
    \/ Ending \/ Ended

\* What an end has by then.
ClientBegun ==
    /\ at[Client] \in Greeting => readState[Client] = NoState
    /\ at[Client] = "start" => hash[Client] = <<>>
    /\ at[Client] \in {"send_hello", "wait_hello"} =>
          hash[Client] = Greeted /\ hello[Client] = FirstHello
    /\ at[Client] \in {"send_second", "wait_retry"} =>
          hash[Client] = GreetedAgain /\ hello[Client] = Second
    /\ at[Client] = "wait_flight" => hash[Client] = Met
ServerBegun ==
    /\ at[Server] \in Choosing => readState[Server] = NoState
    /\ at[Server] = "wait_hello" => hash[Server] = <<>>
Blamed(e) ==
    /\ at[e] \in {"failed", "send_alert", "send_reject"} => Blame
    /\ ~sockOpen[e] => at[e] = "failed"

Undisturbed ==
    /\ ~broken
    /\ DOMAIN hello = Ends /\ DOMAIN sockOpen = Ends
    /\ ClientBegun /\ ServerBegun
    /\ \A e \in Ends : Blamed(e)
    /\ Situation
Course == faults \in Nat /\ (faults = 0 => Undisturbed)

-----------------------------------------------------------------------------
Script ==
    <<FirstHello, Retries, Retry, Greeted, Retried, Second, GreetedAgain,
      Requests, Certified, Scheme, Settled, Met, FlightOf, Proven,
      Verification, HsKey, AppKey>>
Records ==
    <<Ccs, Alert, Greeting1, RetryR, Greeting2, Answer1, FlightR, CertR,
      VerifyR, Answered, FinR, AlertR, Blame>>

LEMMA ScriptStays ==
    ASSUME setup' = setup
    PROVE  Script' = Script /\ Records' = Records
    <1>1. client' = client /\ server' = server
        BY DEF client, server
    <1>2. FirstHello' = FirstHello
        BY <1>1 DEF FirstHello
    <1>3. Retries' = Retries
        BY <1>1 DEF Retries, SharedGroup
    <1>4. Retry' = Retry
        BY <1>1 DEF Retry, RetryGroup
    <1>5. Greeted' = Greeted /\ Retried' = Retried
        BY <1>2, <1>4 DEF Greeted, Retried
    <1>6. Second' = Second
        BY <1>1, <1>2, <1>4, <1>5 DEF Second, SecondHello, UpdatedBinder
    <1>7. GreetedAgain' = GreetedAgain
        BY <1>5, <1>6 DEF GreetedAgain
    <1>8. Requests' = Requests /\ Certified' = Certified /\ Resumes' = Resumes
        BY <1>1 DEF Requests, Certified, Resumes
    <1>9. Scheme' = Scheme
        BY <1>1, <1>8 DEF Scheme, ServerScheme
    <1>10. Settled' = Settled
        BY <1>1, <1>8 DEF Settled, Group
    <1>11. Met' = Met
        BY <1>3, <1>5, <1>7, <1>10 DEF Met
    <1>12. FlightOf' = FlightOf
        BY <1>1, <1>8, <1>9 DEF FlightOf
    <1>13. Proven' = Proven
        BY <1>11, <1>12 DEF Proven
    <1>14. Verification' = Verification
        BY <1>1 DEF Verification
    <1>15. HsKey' = HsKey /\ AppKey' = AppKey
        BY <1>11, <1>13 DEF HsKey, AppKey
    <1>16. Blame' = Blame
        BY <1>1, <1>8 DEF Blame, Compatible, ServerScheme, Group, FirstShare,
                     SharedGroup, ClientScheme
    <1>17. Records' = Records
        BY <1>1, <1>2, <1>4, <1>6, <1>8, <1>10, <1>12, <1>14, <1>15, <1>16
        DEF Records, Ccs, Alert, Greeting1, RetryR, Greeting2, Answer1,
            FlightR, CertR, VerifyR, Answered, FinR, AlertR, Plain, Under
    <1> QED
        BY <1>2, <1>3, <1>4, <1>5, <1>6, <1>7, <1>8, <1>9, <1>10, <1>11,
           <1>12, <1>13, <1>14, <1>15, <1>17 DEF Script

LEMMA HeadTail ==
    /\ \A x : Head(<<x>>) = x /\ Tail(<<x>>) = <<>> /\ <<x>> # <<>>
    /\ \A x, y : /\ Head(<<x, y>>) = x /\ Tail(<<x, y>>) = <<y>>
                 /\ <<x, y>> # <<>>
    /\ \A x, y, z : /\ Head(<<x, y, z>>) = x /\ Tail(<<x, y, z>>) = <<y, z>>
                    /\ <<x, y, z>> # <<>>
    OBVIOUS

LEMMA Appends ==
    /\ \A x : Append(<<>>, x) = <<x>>
    /\ \A x, y : Append(<<x>>, y) = <<x, y>>
    /\ \A x, y, z : Append(<<x, y>>, z) = <<x, y, z>>
    <1>1. ASSUME NEW x
          PROVE  Append(<<>>, x) = <<x>>
        <2>1. <<>> \in Seq({x}) /\ x \in {x}
            OBVIOUS
        <2> QED
            BY <2>1
    <1>2. ASSUME NEW x, NEW y
          PROVE  Append(<<x>>, y) = <<x, y>>
        <2>1. <<x>> \in Seq({x, y}) /\ y \in {x, y}
            OBVIOUS
        <2>2. Append(<<x>>, y) =
                 [i \in 1..2 |-> IF i = 2 THEN y ELSE <<x>>[i]]
            BY <2>1
        <2> DEFINE t == Append(<<x>>, y)
        <2>3. t = [i \in 1..2 |-> IF i = 1 THEN x ELSE y]
            BY <2>2
        <2> HIDE DEF t
        <2>4. t = <<x, y>>
            BY <2>3
        <2> QED
            BY <2>4 DEF t
    <1>3. ASSUME NEW x, NEW y, NEW z
          PROVE  Append(<<x, y>>, z) = <<x, y, z>>
        <2>1. <<x, y>> \in Seq({x, y, z}) /\ z \in {x, y, z}
            OBVIOUS
        <2>2. Append(<<x, y>>, z) =
                 [i \in 1..3 |-> IF i = 3 THEN z ELSE <<x, y>>[i]]
            BY <2>1
        <2> DEFINE t == Append(<<x, y>>, z)
        <2>3. t = [i \in 1..3 |-> IF i = 1 THEN x ELSE IF i = 2 THEN y ELSE z]
            BY <2>2
        <2> HIDE DEF t
        <2>4. t = <<x, y, z>>
            BY <2>3
        <2> QED
            BY <2>4 DEF t
    <1> QED
        BY <1>1, <1>2, <1>3

LEMMA HeadTailOfAppend ==
    ASSUME NEW s, IsSeq(s), NEW x, s # <<>>
    PROVE  Head(Append(s, x)) = Head(s) /\ Tail(Append(s, x)) = Append(Tail(s), x)
    BY DEF IsSeq

LEMMA Concats ==
    /\ \A s : IsSeq(s) => <<>> \o s = s /\ s \o <<>> = s
    /\ \A s, x : IsSeq(s) => s \o <<x>> = Append(s, x)
    /\ \A s, x, y : IsSeq(s) => s \o <<x, y>> = Append(Append(s, x), y)
    BY DEF IsSeq

LEMMA Located ==
    ASSUME Situation
    PROVE  /\ at[Client] = "start" => Starting
           /\ at[Client] = "send_hello" => HelloOut
           /\ at[Client] = "wait_hello" =>
                 \/ HelloSent \/ RetryOut \/ RetryUnread \/ RefusalOut
                 \/ RefusalUnread \/ AnswerOut \/ Unproven
                 \/ \E right \in BOOLEAN : FlightOut(right) \/ FlightUnread(right)
           /\ at[Client] = "send_second" => SecondOut
           /\ at[Client] = "wait_retry" =>
                 \/ SecondUnread \/ AnswerOut \/ Unproven
                 \/ \E right \in BOOLEAN : FlightOut(right) \/ FlightUnread(right)
           /\ at[Client] = "wait_flight" =>
                 \/ Unproven
                 \/ \E right \in BOOLEAN : FlightOut(right) \/ FlightUnread(right)
           /\ at[Client] = "send_alert" => DoubtOut
           /\ at[Client] = "send_cert" => CertificateOut
           /\ at[Client] = "send_verify" => VerifyOut
           /\ at[Client] = "send_finished" => FinishedOut
           /\ at[Client] \in {"done", "send_reject"} => Ending \/ Ended
           /\ at[Client] = "failed" =>
                 DoubtUnread \/ Unsigned \/ Ending \/ Ended
           /\ at[Client] \in Opening \cup Answering
                             \cup {"send_alert", "send_reject", "done", "failed"}
           /\ at[Server] = "wait_hello" => Starting \/ HelloOut \/ HelloSent
           /\ at[Server] = "send_retry" => RetryOut
           /\ at[Server] = "wait_second" =>
                 RetryUnread \/ SecondOut \/ SecondUnread
           /\ at[Server] = "send_alert" => RefusalOut
           /\ at[Server] = "send_answer" => AnswerOut
           /\ at[Server] = "send_flight" =>
                 \E right \in BOOLEAN : FlightOut(right)
           /\ at[Server] \in Checking =>
                 \/ \E right \in BOOLEAN : FlightUnread(right)
                 \/ DoubtOut \/ DoubtUnread \/ CertificateOut \/ VerifyOut
                 \/ Unsigned \/ FinishedOut \/ Ending
           /\ at[Server] \in {"done", "send_reject", "send_tickets",
                              "salvage_tickets"} => Ended
           /\ at[Server] = "failed" => RefusalUnread \/ Unproven \/ Ended
           /\ at[Server] \in Choosing \cup {"send_flight"} \cup Checking
                             \cup {"send_alert", "send_reject", "done", "failed",
                                   "send_tickets", "salvage_tickets"}
    <1>1. /\ Starting => at[Client] = "start" /\ at[Server] = "wait_hello"
          /\ HelloOut => at[Client] = "send_hello" /\ at[Server] = "wait_hello"
          /\ HelloSent =>
                at[Client] = "wait_hello" /\ at[Server] = "wait_hello"
          /\ RetryOut => at[Client] = "wait_hello" /\ at[Server] = "send_retry"
          /\ RetryUnread =>
                at[Client] = "wait_hello" /\ at[Server] = "wait_second"
          /\ SecondOut =>
                at[Client] = "send_second" /\ at[Server] = "wait_second"
          /\ SecondUnread =>
                at[Client] = "wait_retry" /\ at[Server] = "wait_second"
          /\ RefusalOut =>
                at[Client] = "wait_hello" /\ at[Server] = "send_alert"
          /\ RefusalUnread =>
                at[Client] = "wait_hello" /\ at[Server] = "failed"
        BY DEF Starting, HelloOut, HelloSent, RetryOut, RetryUnread, SecondOut,
               SecondUnread, RefusalOut, RefusalUnread
    <1>2. Listening => at[Client] \in {"wait_hello", "wait_retry", "wait_flight"}
        BY DEF Listening
    <1>3. /\ AnswerOut => /\ at[Client] \in {"wait_hello", "wait_retry"}
                          /\ at[Server] = "send_answer"
          /\ Unproven => Listening /\ at[Server] = "failed"
          /\ \A right : FlightOut(right) =>
                Listening /\ at[Server] = "send_flight"
        BY DEF AnswerOut, Unproven, FlightOut
    <1>4. Checks0 => at[Server] \in Checking
        BY DEF Checks0, Checking
    <1>5. /\ \A right : FlightUnread(right) => Listening /\ Checks0
          /\ DoubtOut => at[Client] = "send_alert" /\ Checks0
          /\ DoubtUnread => at[Client] = "failed" /\ Checks0
        BY DEF FlightUnread, DoubtOut, DoubtUnread
    <1>6. ServerReads => at[Server] \in Checking
        BY DEF ServerReads, Checking
    <1>7. /\ CertificateOut => at[Client] = "send_cert" /\ ServerReads
          /\ VerifyOut => at[Client] = "send_verify" /\ ServerReads
          /\ Unsigned => at[Client] = "failed" /\ ServerReads
          /\ FinishedOut => at[Client] = "send_finished" /\ ServerReads
          /\ Ending => /\ at[Client] \in {"done", "send_reject", "failed"}
                       /\ ServerReads
        BY DEF CertificateOut, VerifyOut, Unsigned, FinishedOut, Ending,
               ClientOver
    <1>8. Ended => /\ at[Client] \in {"done", "send_reject", "failed"}
                   /\ at[Server] \in {"done", "send_reject", "failed",
                                      "send_tickets", "salvage_tickets"}
        BY DEF Ended
    <1> QED
        BY <1>1, <1>2, <1>3, <1>4, <1>5, <1>6, <1>7, <1>8
        DEF Situation, Checking, Opening, Greeting, Answering, Choosing

LEMMA Primes ==
    ASSUME setup' = setup
    PROVE  /\ FirstHello' = FirstHello /\ Retries' = Retries /\ Retry' = Retry
           /\ Greeted' = Greeted /\ Retried' = Retried /\ Second' = Second
           /\ GreetedAgain' = GreetedAgain /\ Requests' = Requests
           /\ Certified' = Certified /\ Scheme' = Scheme /\ Settled' = Settled
           /\ Met' = Met /\ FlightOf' = FlightOf /\ Proven' = Proven
           /\ Verification' = Verification /\ HsKey' = HsKey
           /\ AppKey' = AppKey
           /\ Ccs' = Ccs /\ Alert' = Alert /\ Greeting1' = Greeting1
           /\ RetryR' = RetryR /\ Greeting2' = Greeting2
           /\ Answer1' = Answer1 /\ FlightR' = FlightR /\ CertR' = CertR
           /\ VerifyR' = VerifyR /\ Answered' = Answered /\ FinR' = FinR
           /\ AlertR' = AlertR /\ Blame' = Blame
    BY ScriptStays DEF Script, Records

\* One message sealed without a key, and with one.
SealedAs(state, m) ==
    [msg |-> m, key |-> IF Protected(state, m) THEN state.key ELSE NoKey,
     seq |-> IF Protected(state, m) THEN state.seq ELSE 0, intact |-> TRUE]

LEMMA SealedList ==
    ASSUME NEW state, NEW m, NEW l
    PROVE  /\ Sealed(state, <<m>>) = <<SealedAs(state, m)>>
           /\ Sealed(state, <<m, l>>) = <<SealedAs(state, m), SealedAs(state, l)>>
    <1>1. /\ DOMAIN <<m>> = 1..1 /\ <<m>>[1] = m
          /\ DOMAIN <<m, l>> = 1..2 /\ <<m, l>>[1] = m /\ <<m, l>>[2] = l
        OBVIOUS
    <1>2. \A msgs : Sealed(state, msgs) =
                       [i \in DOMAIN msgs |-> SealedAs(state, msgs[i])]
        BY DEF Sealed, SealedAs
    <1>3. Sealed(state, <<m>>) = [i \in 1..1 |-> SealedAs(state, m)]
        BY <1>1, <1>2
    <1>4. Sealed(state, <<m, l>>) =
             [i \in 1..2 |-> IF i = 1 THEN SealedAs(state, m)
                             ELSE SealedAs(state, l)]
        BY <1>1, <1>2
    <1> QED
        BY <1>3, <1>4

LEMMA SealedOnce ==
    /\ \A state, m, l : state.key = NoKey =>
          /\ Sealed(state, <<m>>) = <<Plain(m)>>
          /\ Sealed(state, <<m, l>>) = <<Plain(m), Plain(l)>>
    /\ \A key, n, m : key # NoKey /\ m.type # "ccs" =>
          /\ Sealed(Numbered(key, n), <<m>>) = <<Under(key, n, m)>>
          /\ Sealed(Numbered(key, n), <<Simple("ccs"), m>>) =
                <<Ccs, Under(key, n, m)>>
    <1>1. \A state, m : state.key = NoKey => SealedAs(state, m) = Plain(m)
        BY DEF SealedAs, Protected, Plain, Under
    <1>2. \A key, n, m : key # NoKey /\ m.type # "ccs" =>
             SealedAs(Numbered(key, n), m) = Under(key, n, m)
        BY DEF SealedAs, Protected, Numbered, Under
    <1>3. \A state : SealedAs(state, Simple("ccs")) = Ccs
        BY DEF SealedAs, Protected, Simple, Ccs, Plain, Under
    <1>4. \A state, m, l :
             /\ Sealed(state, <<m>>) = <<SealedAs(state, m)>>
             /\ Sealed(state, <<m, l>>) =
                   <<SealedAs(state, m), SealedAs(state, l)>>
        BY SealedList
    <1>5. \A state, m, l : state.key = NoKey =>
             /\ Sealed(state, <<m>>) = <<Plain(m)>>
             /\ Sealed(state, <<m, l>>) = <<Plain(m), Plain(l)>>
        BY <1>1, <1>4
    <1>6. \A key, n, m : key # NoKey /\ m.type # "ccs" =>
             /\ Sealed(Numbered(key, n), <<m>>) = <<Under(key, n, m)>>
             /\ Sealed(Numbered(key, n), <<Simple("ccs"), m>>) =
                   <<Ccs, Under(key, n, m)>>
        BY <1>2, <1>3, <1>4
    <1> QED
        BY <1>5, <1>6

LEMMA AdvancedNumbered ==
    ASSUME NEW key, key # NoKey, NEW n \in Nat
    PROVE  Advanced(Numbered(key, n)) = Numbered(key, n + 1)
    BY DEF Advanced, Numbered

LEMMA KeysApart ==
    /\ HsKey # NoKey /\ AppKey # NoKey /\ HsKey # AppKey
    /\ KeyedBy("hs", Met) = Numbered(HsKey, 0)
    /\ KeyedBy("app", Proven) = Numbered(AppKey, 0)
    /\ NoState.key = NoKey /\ NoState.seq = 0
    BY DEF HsKey, AppKey, NoKey, KeyedBy, Numbered, NoState

-----------------------------------------------------------------------------
(* Runs of records.                                                        *)
LEMMA TailOf ==
    ASSUME NEW w, IsSeq(w), w # <<>>
    PROVE  /\ IsSeq(Tail(w)) /\ Len(Tail(w)) = Len(w) - 1
           /\ Head(w) = w[1]
           /\ \A i \in 1..(Len(w) - 1) : Tail(w)[i] = w[i + 1]
           /\ Len(w) \in Nat \ {0}
    <1>1. IsSeq(Tail(w))
        BY TailFacts
    <1> QED
        BY <1>1, SeqFacts DEF IsSeq

LEMMA RunsEmpty ==
    ASSUME NEW x, IsSeq(x), NEW n \in Nat
    PROVE  Runs(x, x, n)
    BY SeqFacts DEF Runs

LEMMA RunsHead ==
    ASSUME NEW w, NEW n \in Nat, Runs(w, <<>>, n), w # <<>>
    PROVE  /\ Head(w).key = AppKey /\ Head(w).intact /\ Head(w).seq = n
           /\ Runs(Tail(w), <<>>, n + 1)
    <1>1. IsSeq(w) /\ Len(<<>>) = 0
        BY EmptyFacts DEF Runs
    <1>2. /\ IsSeq(Tail(w)) /\ Len(Tail(w)) = Len(w) - 1
          /\ Head(w) = w[1]
          /\ \A i \in 1..(Len(w) - 1) : Tail(w)[i] = w[i + 1]
          /\ Len(w) \in Nat \ {0}
        BY <1>1, TailOf
    <1>3. \A i \in 1..Len(w) :
             w[i].key = AppKey /\ w[i].intact /\ w[i].seq = n + i - 1
        BY <1>1 DEF Runs
    <1> QED
        BY <1>1, <1>2, <1>3 DEF Runs

LEMMA RunsTail ==
    ASSUME NEW w, NEW x, IsSeq(x), x # <<>>, NEW n \in Nat, Runs(w, x, n)
    PROVE  /\ w # <<>> /\ Head(w) = Head(x) /\ Runs(Tail(w), Tail(x), n)
           /\ Len(Tail(w)) - Len(Tail(x)) = Len(w) - Len(x)
    <1>1. IsSeq(w) /\ Len(x) <= Len(w)
        BY DEF Runs
    <1>2. /\ IsSeq(Tail(x)) /\ Len(Tail(x)) = Len(x) - 1
          /\ Head(x) = x[1]
          /\ \A i \in 1..(Len(x) - 1) : Tail(x)[i] = x[i + 1]
          /\ Len(x) \in Nat \ {0}
        BY TailOf
    <1>3. Len(w) \in Nat \ {0} /\ w # <<>>
        BY <1>1, <1>2, SeqFacts, EmptyFacts
    <1>4. /\ IsSeq(Tail(w)) /\ Len(Tail(w)) = Len(w) - 1
          /\ Head(w) = w[1]
          /\ \A i \in 1..(Len(w) - 1) : Tail(w)[i] = w[i + 1]
        BY <1>1, <1>3, TailOf
    <1>5. ASSUME NEW i \in 1..Len(Tail(w))
          PROVE  IF i <= Len(Tail(x)) THEN Tail(w)[i] = Tail(x)[i]
                 ELSE /\ Tail(w)[i].key = AppKey /\ Tail(w)[i].intact
                      /\ Tail(w)[i].seq = n + i - Len(Tail(x)) - 1
        <2>1. i + 1 \in 1..Len(w) /\ i \in Nat \ {0}
            BY <1>3, <1>4, <1>5
        <2>2. IF i + 1 <= Len(x) THEN w[i + 1] = x[i + 1]
              ELSE /\ w[i + 1].key = AppKey /\ w[i + 1].intact
                   /\ w[i + 1].seq = n + (i + 1) - Len(x) - 1
            BY <2>1 DEF Runs
        <2> QED
            BY <1>2, <1>3, <1>4, <1>5, <2>1, <2>2
    <1> QED
        BY <1>1, <1>2, <1>3, <1>4, <1>5 DEF Runs

LEMMA RunsAppend ==
    ASSUME NEW w, NEW x, IsSeq(x), NEW n \in Nat, Runs(w, x, n), NEW m
    PROVE  /\ Runs(Append(w, Under(AppKey, n + Len(w) - Len(x), m)), x, n)
           /\ Len(Append(w, Under(AppKey, n + Len(w) - Len(x), m))) = Len(w) + 1
    <1> DEFINE r == Under(AppKey, n + Len(w) - Len(x), m)
    <1>1. IsSeq(w) /\ Len(x) <= Len(w)
        BY DEF Runs
    <1>2. /\ IsSeq(Append(w, r)) /\ Len(Append(w, r)) = Len(w) + 1
          /\ \A i \in 1..Len(w) : Append(w, r)[i] = w[i]
          /\ Append(w, r)[Len(w) + 1] = r
        BY <1>1, AppendFacts
    <1>3. Len(w) \in Nat /\ Len(x) \in Nat
        BY <1>1, SeqFacts
    <1>4. r.key = AppKey /\ r.intact /\ r.seq = n + Len(w) - Len(x)
        BY DEF Under
    <1> HIDE DEF r
    <1>5. ASSUME NEW i \in 1..Len(Append(w, r))
          PROVE  IF i <= Len(x) THEN Append(w, r)[i] = x[i]
                 ELSE /\ Append(w, r)[i].key = AppKey /\ Append(w, r)[i].intact
                      /\ Append(w, r)[i].seq = n + i - Len(x) - 1
        <2>1. CASE i = Len(w) + 1
            BY <1>1, <1>2, <1>3, <1>4, <2>1
        <2>2. CASE i # Len(w) + 1
            <3>1. i \in 1..Len(w)
                BY <1>2, <1>3, <1>5, <2>2
            <3> QED
                BY <1>2, <3>1 DEF Runs
        <2> QED
            BY <2>1, <2>2
    <1>6. Len(x) <= Len(Append(w, r))
        BY <1>1, <1>2, <1>3
    <1>7. Runs(Append(w, r), x, n)
        BY <1>2, <1>5, <1>6, Zenon DEF Runs
    <1> QED
        BY <1>2, <1>7 DEF r

-----------------------------------------------------------------------------
(* Choices.                                                                *)
LEMMA Matched ==
    ASSUME NEW T, NEW s \in Seq(T), NEW offered
    PROVE  \/ /\ FirstMatch(s, offered) = "none"
              /\ \A i \in DOMAIN s : s[i] \notin offered
           \/ /\ FirstMatch(s, offered) \in offered
              /\ \E i \in DOMAIN s : s[i] = FirstMatch(s, offered)
    <1> DEFINE both == {i \in DOMAIN s : s[i] \in offered}
    <1>1. CASE both = {}
        BY <1>1 DEF FirstMatch
    <1>2. CASE both # {}
        <2>1. both \in SUBSET Nat
            BY LenProperties
        <2>2. \E m \in both : \A k \in both : m <= k
            BY <1>2, <2>1, Least
        <2>3. (CHOOSE i \in both : \A j \in both : i <= j) \in both
            BY <2>2
        <2>4. FirstMatch(s, offered) =
                 s[CHOOSE i \in both : \A j \in both : i <= j]
            BY <1>2 DEF FirstMatch
        <2> QED
            BY <2>3, <2>4
    <1> QED
        BY <1>1, <1>2

LEMMA Typed ==
    ASSUME Maps
    PROVE  /\ client.shares \in Seq(Groups) /\ server.groups \in Seq(Groups)
           /\ "none" \notin Groups
           /\ FirstHello.shares = client.shares
           /\ FirstHello.groups = client.groups
           /\ FirstHello.schemes = client.schemes
           /\ FirstHello.psk = client.ticket
           /\ FirstHello.type = "client_hello"
    <1>1. setup \in [client : ClientSetups, server : ServerSetups]
        BY SetupsAssumption DEF Maps
    <1> QED
        BY <1>1 DEF client, server, ClientSetups, ServerSetups, Groups, FirstHello

\* What the server finds in the hellos is what it finds in the settings.
LEMMA FirstHelloRead ==
    ASSUME Maps
    PROVE  /\ ServerScheme(FirstHello) = ServerScheme(client)
           /\ SharedGroup(FirstHello) = SharedGroup(client)
           /\ RetryGroup(FirstHello) = RetryGroup(client)
    BY Typed DEF ServerScheme, SharedGroup, RetryGroup

\* The group asked for is not among the shares, and is the one agreed on.
LEMMA RetryRight ==
    ASSUME Maps, Retries, Retry.group # "none"
    PROVE  /\ Retriable(Retry.group)
           /\ Group(server.groups) = Retry.group
           /\ FirstShare = Retry.group
           /\ Second.shares = <<Retry.group>> /\ ToSet(Second.shares) = {Retry.group}
           /\ Second.cookie = "good" /\ Second.psk = client.ticket
           /\ Second.type = "client_hello"
           /\ client.ticket = "good" => Second.binder = Retried
           /\ ServerScheme(Second) = ServerScheme(client)
           /\ SharedGroup(Second) = Retry.group
    <1>1. Retry.group = FirstMatch(server.groups, client.groups)
        BY DEF Retry, RetryGroup
    <1>2. FirstMatch(server.groups, ToSet(client.shares)) = "none"
        BY DEF Retries, SharedGroup
    <1>3. \A i \in DOMAIN server.groups : server.groups[i] \in Groups
        BY Typed, LenProperties
    <1>4. ToSet(client.shares) \subseteq Groups
        BY Typed, LenProperties DEF ToSet
    <1>5. \A i \in DOMAIN server.groups :
             server.groups[i] \notin ToSet(client.shares)
        BY <1>2, <1>4, Typed, Matched
    <1>6. /\ Retry.group \in client.groups
          /\ \E i \in DOMAIN server.groups : server.groups[i] = Retry.group
        BY <1>1, Typed, Matched
    <1>7. Retriable(Retry.group)
        BY <1>5, <1>6 DEF Retriable
    <1>8. Group(server.groups) = Retry.group
        BY <1>1, <1>2 DEF Group
    <1>9. FirstShare = Retry.group
        BY <1>8 DEF FirstShare, Retries
    <1>10. /\ Second.shares = <<Retry.group>>
           /\ Second.cookie = "good" /\ Second.psk = client.ticket
           /\ Second.schemes = client.schemes
           /\ Second.type = "client_hello"
           /\ client.ticket = "good" => Second.binder = Retried
        BY DEF Second, SecondHello, FirstHello, UpdatedBinder
    <1>11. ToSet(Second.shares) = {Retry.group}
        BY <1>10, OneMessage
    <1>12. ServerScheme(Second) = ServerScheme(client)
        BY <1>10 DEF ServerScheme
    <1>13. SharedGroup(Second) = Retry.group
        <2>1. \/ FirstMatch(server.groups, {Retry.group}) = "none" /\
                 \A i \in DOMAIN server.groups :
                    server.groups[i] \notin {Retry.group}
              \/ FirstMatch(server.groups, {Retry.group}) \in {Retry.group}
            BY Typed, Matched
        <2> QED
            BY <1>6, <1>11, <2>1 DEF SharedGroup
    <1> QED
        BY <1>7, <1>8, <1>9, <1>10, <1>11, <1>12, <1>13

LEMMA ShareRight ==
    ASSUME Maps, ~Retries
    PROVE  /\ Group(server.groups) = SharedGroup(client)
           /\ SharedGroup(client) \in ToSet(client.shares)
           /\ FirstShare = client.shares[1]
           /\ SharedGroup(client) # "none"
    <1>1. FirstMatch(server.groups, ToSet(client.shares)) # "none"
        BY DEF Retries, SharedGroup
    <1>2. SharedGroup(client) \in ToSet(client.shares)
        BY <1>1, Typed, Matched DEF SharedGroup
    <1> QED
        BY <1>1, <1>2 DEF Group, SharedGroup, FirstShare

-----------------------------------------------------------------------------
(* What comes next on each wire.                                           *)
PlainRecord(r, type) ==
    r.msg.type = type /\ r.key = NoKey /\ r.seq = 0 /\ r.intact
KeyedRecord(r, n, type) ==
    r.msg.type = type /\ r.key = HsKey /\ r.seq = n /\ r.intact

LEMMA RecordFacts ==
    /\ PlainRecord(Ccs, "ccs") /\ PlainRecord(Alert, "alert")
    /\ PlainRecord(Greeting1, "client_hello") /\ Greeting1.msg = FirstHello
    /\ PlainRecord(RetryR, "retry") /\ RetryR.msg = Retry
    /\ PlainRecord(Greeting2, "client_hello") /\ Greeting2.msg = Second
    /\ PlainRecord(Answer1, "server_hello") /\ Answer1.msg = Settled
    /\ \A right \in BOOLEAN :
          /\ KeyedRecord(FlightR[right], 0, "flight")
          /\ FlightR[right].msg = FlightOf[right]
    /\ KeyedRecord(CertR, 0, "certificate") /\ CertR.msg.cert = client.cert
    /\ KeyedRecord(VerifyR, 1, "certificate_verify")
    /\ KeyedRecord(FinR, Answered, "finished")
    /\ AlertR.msg.type = "alert" /\ AlertR = Under(AppKey, 0, AlertR.msg)
    <1>1. PlainRecord(Ccs, "ccs") /\ PlainRecord(Alert, "alert")
        BY DEF PlainRecord, Ccs, Alert, Plain, Under, Simple
    <1>2. /\ PlainRecord(Greeting1, "client_hello") /\ Greeting1.msg = FirstHello
          /\ PlainRecord(RetryR, "retry") /\ RetryR.msg = Retry
        BY DEF PlainRecord, Greeting1, RetryR, Plain, Under, FirstHello, Retry
    <1>3. /\ PlainRecord(Greeting2, "client_hello") /\ Greeting2.msg = Second
          /\ PlainRecord(Answer1, "server_hello") /\ Answer1.msg = Settled
        BY DEF PlainRecord, Greeting2, Answer1, Plain, Under, FirstHello,
               Second, SecondHello, Settled
    <1>4. ASSUME NEW right \in BOOLEAN
          PROVE  /\ KeyedRecord(FlightR[right], 0, "flight")
                 /\ FlightR[right].msg = FlightOf[right]
        BY DEF KeyedRecord, FlightR, FlightOf, Under
    <1>5. /\ KeyedRecord(CertR, 0, "certificate") /\ CertR.msg.cert = client.cert
          /\ KeyedRecord(VerifyR, 1, "certificate_verify")
          /\ KeyedRecord(FinR, Answered, "finished")
        BY DEF KeyedRecord, CertR, VerifyR, FinR, Under, Verification, Simple
    <1>6. AlertR.msg.type = "alert" /\ AlertR = Under(AppKey, 0, AlertR.msg)
        BY DEF AlertR, Under, Simple
    <1> QED
        BY <1>1, <1>2, <1>3, <1>4, <1>5, <1>6

LEMMA HelloNext ==
    ASSUME NEW h \in Hellos, NEW f
    PROVE  /\ IsSeq(h) /\ IsSeq(Append(h, f)) /\ Append(h, f) # <<>>
           /\ at[Client] = "wait_hello" =>
                 /\ h # <<>> /\ Head(h) = Answer1
                 /\ Tail(h) \in {<<>>, <<Ccs>>}
           /\ at[Client] = "wait_retry" =>
                 /\ h # <<>>
                 /\ \/ Head(h) = Answer1 /\ Tail(h) \in {<<>>, <<Ccs>>}
                    \/ Head(h) = Ccs /\ Tail(h) \in {<<Answer1>>, <<Answer1, Ccs>>}
           /\ at[Client] \notin {"wait_hello", "wait_retry"} =>
                 h = <<>> \/ (h # <<>> /\ Head(h) = Ccs /\ Tail(h) = <<>>)
           /\ h # <<>> => /\ Head(Append(h, f)) = Head(h)
                          /\ Tail(Append(h, f)) = Append(Tail(h), f)
           /\ h = <<>> => Append(h, f) = <<f>>
           /\ Head(<<f>>) = f /\ Tail(<<f>>) = <<>>
    <1>1. h \in {<<>>, <<Ccs>>, <<Answer1>>, <<Answer1, Ccs>>, <<Ccs, Answer1>>,
                 <<Ccs, Answer1, Ccs>>}
        BY DEF Hellos
    <1>2. IsSeq(h)
        <2>1. IsSeq(<<Ccs, Answer1, Ccs>>)
            BY DEF IsSeq, ToSet
        <2> QED
            BY <1>1, <2>1, EmptyFacts, OneMessage, TwoMessages
    <1>3. IsSeq(Append(h, f)) /\ Append(h, f) # <<>>
        BY <1>2, AppendFacts
    <1>4. at[Client] = "wait_hello" =>
             h # <<>> /\ Head(h) = Answer1 /\ Tail(h) \in {<<>>, <<Ccs>>}
        BY HeadTail DEF Hellos
    <1>5. at[Client] = "wait_retry" =>
             /\ h # <<>>
             /\ \/ Head(h) = Answer1 /\ Tail(h) \in {<<>>, <<Ccs>>}
                \/ Head(h) = Ccs /\ Tail(h) \in {<<Answer1>>, <<Answer1, Ccs>>}
        <2>1. ASSUME at[Client] = "wait_retry"
              PROVE  \/ h = <<Answer1>> \/ h = <<Answer1, Ccs>>
                     \/ h = <<Ccs, Answer1>> \/ h = <<Ccs, Answer1, Ccs>>
            BY <2>1 DEF Hellos
        <2>2. /\ Head(<<Answer1>>) = Answer1 /\ Tail(<<Answer1>>) = <<>>
              /\ Head(<<Answer1, Ccs>>) = Answer1
              /\ Tail(<<Answer1, Ccs>>) = <<Ccs>>
              /\ Head(<<Ccs, Answer1>>) = Ccs
              /\ Tail(<<Ccs, Answer1>>) = <<Answer1>>
              /\ Head(<<Ccs, Answer1, Ccs>>) = Ccs
              /\ Tail(<<Ccs, Answer1, Ccs>>) = <<Answer1, Ccs>>
              /\ <<Answer1>> # <<>> /\ <<Answer1, Ccs>> # <<>>
              /\ <<Ccs, Answer1>> # <<>> /\ <<Ccs, Answer1, Ccs>> # <<>>
            BY HeadTail
        <2> QED
            BY <2>1, <2>2
    <1>6. at[Client] \notin {"wait_hello", "wait_retry"} =>
             h = <<>> \/ (h # <<>> /\ Head(h) = Ccs /\ Tail(h) = <<>>)
        BY HeadTail DEF Hellos
    <1>7. h # <<>> => /\ Head(Append(h, f)) = Head(h)
                      /\ Tail(Append(h, f)) = Append(Tail(h), f)
        BY <1>2, HeadTailOfAppend
    <1>8. h = <<>> => Append(h, f) = <<f>>
        OBVIOUS
    <1> QED
        BY <1>2, <1>3, <1>4, <1>5, <1>6, <1>7, <1>8, HeadTail

\* The server is past its choice.
Decided ==
    \/ Unproven
    \/ \E right \in BOOLEAN : FlightOut(right) \/ FlightUnread(right)

LEMMA ClientNext ==
    ASSUME Undisturbed, Incoming(Client)
    PROVE  /\ at[Client] = "wait_hello" =>
                 \/ RetryUnread /\ Upcoming(Client) = RetryR
                 \/ RefusalUnread /\ Upcoming(Client) = Alert
                 \/ Decided /\ Upcoming(Client) = Answer1
           /\ at[Client] = "wait_retry" =>
                 \/ SecondUnread /\ Upcoming(Client) = Ccs
                 \/ AnswerOut /\ Upcoming(Client) = Ccs
                 \/ Decided /\ Upcoming(Client) \in {Ccs, Answer1}
           /\ at[Client] = "wait_flight" =>
                 \/ Decided /\ Upcoming(Client) = Ccs
                 \/ \E right \in BOOLEAN :
                       /\ FlightUnread(right) /\ wire[Server] = <<FlightR[right]>>
                       /\ Upcoming(Client) = FlightR[right]
    <1> DEFINE w == wire[Server]
    <1>0. Situation /\ w # <<>> /\ Upcoming(Client) = Head(w)
        BY DEF Undisturbed, Incoming, Upcoming, Peer
    <1>1. ASSUME Unproven \/ \E right \in BOOLEAN : FlightOut(right)
          PROVE  Decided /\ w \in Hellos
        BY <1>1 DEF Decided, Unproven, FlightOut
    <1>2. ASSUME NEW right \in BOOLEAN, FlightUnread(right)
          PROVE  Decided /\ \E h \in Hellos : w = Append(h, FlightR[right])
        BY <1>2 DEF Decided, FlightUnread
    <1>3. CASE at[Client] = "wait_hello"
        <2>1. ASSUME w \in Hellos
              PROVE  Upcoming(Client) = Answer1
            BY <1>0, <1>3, <2>1, HelloNext
        <2>2. ASSUME NEW right \in BOOLEAN, FlightUnread(right)
              PROVE  Upcoming(Client) = Answer1
            BY <1>0, <1>2, <1>3, <2>2, HelloNext
        <2>3. RetryUnread => Upcoming(Client) = RetryR
            BY <1>0, HeadTail DEF RetryUnread
        <2>4. RefusalUnread => Upcoming(Client) = Alert
            BY <1>0, HeadTail DEF RefusalUnread
        <2>5. ~HelloSent /\ ~RetryOut /\ ~RefusalOut /\ ~AnswerOut
            BY <1>0, <1>3 DEF HelloSent, RetryOut, RefusalOut, AnswerOut
        <2> QED
            BY <1>0, <1>1, <1>2, <1>3, <2>1, <2>2, <2>3, <2>4, <2>5, Located
    <1>4. CASE at[Client] = "wait_retry"
        <2>1. ASSUME w \in Hellos
              PROVE  Upcoming(Client) \in {Ccs, Answer1}
            BY <1>0, <1>4, <2>1, HelloNext
        <2>2. ASSUME NEW right \in BOOLEAN, FlightUnread(right)
              PROVE  Upcoming(Client) \in {Ccs, Answer1}
            BY <1>0, <1>2, <1>4, <2>2, HelloNext
        <2>3. SecondUnread \/ AnswerOut => Upcoming(Client) = Ccs
            BY <1>0, <1>4, HeadTail DEF SecondUnread, AnswerOut
        <2> QED
            BY <1>0, <1>1, <1>2, <1>4, <2>1, <2>2, <2>3, Located
    <1>5. CASE at[Client] = "wait_flight"
        <2>1. ASSUME w \in Hellos
              PROVE  Upcoming(Client) = Ccs
            BY <1>0, <1>5, <2>1, HelloNext
        <2>2. ASSUME NEW right \in BOOLEAN, FlightUnread(right)
              PROVE  \/ Upcoming(Client) = Ccs
                     \/ w = <<FlightR[right]>> /\ Upcoming(Client) = FlightR[right]
            BY <1>0, <1>2, <1>5, <2>2, HelloNext
        <2> QED
            BY <1>0, <1>1, <1>2, <1>5, <2>1, <2>2, Located
    <1> QED
        BY <1>3, <1>4, <1>5

LEMMA UncheckedFacts ==
    /\ IsSeq(Unchecked)
    /\ at[Server] = "wait_cert" =>
          /\ Unchecked # <<>> /\ Head(Unchecked) = CertR
          /\ Tail(Unchecked) = IF Certified THEN <<VerifyR>> ELSE <<>>
    /\ at[Server] = "wait_verify" => Unchecked = <<VerifyR>>
    /\ at[Server] = "wait_finished" => Unchecked = <<>>
    <1>1. Unchecked \in {<<>>, <<CertR>>, <<VerifyR>>, <<CertR, VerifyR>>}
        BY DEF Unchecked
    <1>2. IsSeq(Unchecked)
        BY <1>1, EmptyFacts, OneMessage, TwoMessages
    <1> QED
        BY <1>2, HeadTail DEF Unchecked

\* What the server has not read of the client's answer: its next record, and
\* what is left when that was read.
LEMMA UnreadFacts ==
    ASSUME NEW u, IsSeq(u), NEW x \in Finishing(u)
    PROVE  /\ IsSeq(x) /\ x # <<>>
           /\ u # <<>> => Head(x) = Head(u) /\ Tail(x) \in Finishing(Tail(u))
           /\ u = <<>> =>
                 \/ x = <<FinR>> /\ Head(x) = FinR /\ Tail(x) = <<>>
                 \/ /\ x = <<Ccs, FinR>> /\ Head(x) = Ccs
                    /\ Tail(x) = <<FinR>> /\ Tail(x) \in Finishing(<<>>)
    <1>1. IsSeq(Append(u, Ccs)) /\ Append(u, Ccs) # <<>>
        BY AppendFacts
    <1>2. IsSeq(x) /\ x # <<>>
        BY <1>1, AppendFacts DEF Finishing
    <1>3. ASSUME u # <<>>
          PROVE  Head(x) = Head(u) /\ Tail(x) \in Finishing(Tail(u))
        <2>1. CASE x = Append(u, FinR)
            BY <1>3, <2>1, HeadTailOfAppend DEF Finishing
        <2>2. CASE x = Append(Append(u, Ccs), FinR)
            <3>1. /\ Head(x) = Head(Append(u, Ccs))
                  /\ Tail(x) = Append(Tail(Append(u, Ccs)), FinR)
                BY <1>1, <2>2, HeadTailOfAppend
            <3>2. /\ Head(Append(u, Ccs)) = Head(u)
                  /\ Tail(Append(u, Ccs)) = Append(Tail(u), Ccs)
                BY <1>3, HeadTailOfAppend
            <3> QED
                BY <3>1, <3>2 DEF Finishing
        <2> QED
            BY <2>1, <2>2 DEF Finishing
    <1>4. ASSUME u = <<>>
          PROVE  \/ x = <<FinR>> /\ Head(x) = FinR /\ Tail(x) = <<>>
                 \/ /\ x = <<Ccs, FinR>> /\ Head(x) = Ccs
                    /\ Tail(x) = <<FinR>> /\ Tail(x) \in Finishing(<<>>)
        <2>1. /\ Append(<<>>, FinR) = <<FinR>>
              /\ Append(Append(<<>>, Ccs), FinR) = <<Ccs, FinR>>
            BY Appends
        <2>2. x = <<FinR>> \/ x = <<Ccs, FinR>>
            BY <1>4, <2>1 DEF Finishing
        <2> QED
            BY <2>1, <2>2, HeadTail DEF Finishing
    <1> QED
        BY <1>2, <1>3, <1>4

\* What the server reads, and when.
LEMMA ServerNext ==
    ASSUME Undisturbed, Incoming(Server)
    PROVE  /\ at[Server] = "wait_hello" =>
                 /\ HelloSent /\ wire[Client] = <<Greeting1>>
                 /\ Upcoming(Server) = Greeting1
           /\ at[Server] = "wait_second" =>
                 SecondUnread /\ Upcoming(Server) \in {Ccs, Greeting2}
           /\ at[Server] \in Checking =>
                 \/ DoubtUnread /\ Upcoming(Server) = Alert
                 \/ /\ VerifyOut \/ Unsigned \/ FinishedOut \/ Ending
                    /\ \/ at[Server] = "wait_cert" /\ Upcoming(Server) = CertR
                       \/ at[Server] = "wait_verify" /\ Upcoming(Server) = VerifyR
                 \/ /\ Ending /\ at[Server] = "wait_finished"
                    /\ Upcoming(Server) \in {Ccs, FinR}
    <1> DEFINE w == wire[Client]
    <1>0. Situation /\ w # <<>> /\ Upcoming(Server) = Head(w)
        BY DEF Undisturbed, Incoming, Upcoming, Peer
    <1>1. CASE at[Server] = "wait_hello"
        <2>1. ~Starting /\ ~HelloOut
            BY <1>0 DEF Starting, HelloOut
        <2> QED
            BY <1>0, <1>1, <2>1, Located, HeadTail DEF HelloSent, Checking
    <1>2. CASE at[Server] = "wait_second"
        <2>1. ~RetryUnread /\ ~SecondOut
            BY <1>0 DEF RetryUnread, SecondOut
        <2>2. SecondUnread => Upcoming(Server) \in {Ccs, Greeting2}
            BY <1>0, HeadTail DEF SecondUnread
        <2> QED
            BY <1>0, <1>2, <2>1, <2>2, Located DEF Checking
    <1>3. CASE at[Server] \in Checking
        <2>1. /\ ~DoubtOut /\ ~CertificateOut
              /\ \A right \in BOOLEAN : ~FlightUnread(right)
            BY <1>0 DEF DoubtOut, CertificateOut, FlightUnread, Listening
        <2>2. DoubtUnread => Upcoming(Server) = Alert
            BY <1>0, HeadTail DEF DoubtUnread
        <2>3. ASSUME VerifyOut \/ Unsigned
              PROVE  at[Server] = "wait_cert" /\ Upcoming(Server) = CertR
            BY <1>0, <2>3, HeadTail DEF VerifyOut, Unsigned, CertificateGone
        <2>4. ASSUME FinishedOut
              PROVE  \/ at[Server] = "wait_cert" /\ Upcoming(Server) = CertR
                     \/ at[Server] = "wait_verify" /\ Upcoming(Server) = VerifyR
            <3>1. w = Unchecked
                BY <2>4 DEF FinishedOut
            <3> QED
                BY <1>0, <1>3, <3>1, UncheckedFacts, HeadTail DEF Checking
        <2>5. ASSUME Ending
              PROVE  \/ at[Server] = "wait_cert" /\ Upcoming(Server) = CertR
                     \/ at[Server] = "wait_verify" /\ Upcoming(Server) = VerifyR
                     \/ /\ at[Server] = "wait_finished"
                        /\ Upcoming(Server) \in {Ccs, FinR}
            <3>1. PICK x \in Unread : Runs(w, x, 0)
                BY <2>5 DEF Ending, ClientOver
            <3>2. IsSeq(x) /\ x # <<>>
                BY UncheckedFacts, UnreadFacts DEF Unread
            <3>3. Head(w) = Head(x)
                BY <3>1, <3>2, RunsTail
            <3>4. Unchecked # <<>> => Head(x) = Head(Unchecked)
                BY UncheckedFacts, UnreadFacts DEF Unread
            <3>5. Unchecked = <<>> => Head(x) \in {FinR, Ccs}
                BY UncheckedFacts, UnreadFacts DEF Unread
            <3>6. at[Server] = "wait_verify" =>
                     Unchecked # <<>> /\ Head(Unchecked) = VerifyR
                BY UncheckedFacts, HeadTail
            <3> QED
                BY <1>0, <1>3, <3>3, <3>4, <3>5, <3>6, UncheckedFacts DEF Checking
        <2>6. \/ DoubtUnread \/ VerifyOut \/ Unsigned \/ FinishedOut \/ Ending
            BY <1>0, <1>3, <2>1, Located
        <2>7. at[Server] \notin {"wait_hello", "wait_second"}
            BY <1>3 DEF Checking
        <2> QED
            BY <1>3, <2>2, <2>3, <2>4, <2>5, <2>6, <2>7
    <1> QED
        BY <1>1, <1>2, <1>3

\* A record that an end can read.
Legible(e) ==
    Upcoming(e).intact /\ (Opens(e) \/ PlainAlert(e) \/ SkipsCcs(e))

LEMMA PlainLegible ==
    ASSUME NEW e \in Ends, readState[e] = NoState, NEW type,
           PlainRecord(Upcoming(e), type)
    PROVE  Opens(e) /\ Legible(e)
    BY KeysApart DEF PlainRecord, Opens, Legible

LEMMA KeyedLegible ==
    ASSUME NEW e \in Ends, NEW n, readState[e] = Numbered(HsKey, n), NEW type,
           KeyedRecord(Upcoming(e), n, type)
    PROVE  Opens(e) /\ Legible(e)
    BY KeysApart DEF KeyedRecord, Opens, Legible, Numbered

LEMMA ClientLegible ==
    ASSUME Inv, Undisturbed, Incoming(Client),
           at[Client] \in Waiting \cup Salvaging \cup {"done"}
    PROVE  Legible(Client)
    <1>0. Situation /\ ClientBegun /\ ClientOpening /\ Client \in Ends
        BY DEF Undisturbed, Inv
    <1>1. CASE at[Client] \in {"wait_hello", "wait_retry"}
        <2>1. readState[Client] = NoState
            BY <1>0, <1>1 DEF ClientBegun, Greeting
        <2>2. Upcoming(Client) \in {RetryR, Alert, Answer1, Ccs}
            BY <1>1, ClientNext
        <2> QED
            BY <1>0, <2>1, <2>2, PlainLegible, RecordFacts
    <1>2. CASE at[Client] = "wait_flight"
        <2>1. readState[Client] = Numbered(HsKey, 0)
            BY <1>0, <1>2, KeysApart DEF ClientBegun, ClientOpening
        <2>2. Upcoming(Client) = Ccs \/ \E right \in BOOLEAN :
                 Upcoming(Client) = FlightR[right]
            BY <1>2, ClientNext
        <2>3. CASE Upcoming(Client) = Ccs
            BY <1>2, <2>3, RecordFacts DEF Legible, SkipsCcs, Waiting, PlainRecord
        <2> QED
            BY <1>0, <2>1, <2>2, <2>3, KeyedLegible, RecordFacts
    <1>3. CASE at[Client] = "done"
        <2>1. ~Ending
            BY <1>3 DEF Ending, Incoming, Peer
        <2>2. Ended
            BY <1>0, <1>3, <2>1, Located
        <2>3. PICK n \in Nat : /\ readState[Client] = Numbered(AppKey, n)
                               /\ Runs(wire[Server], <<>>, n)
            BY <1>3, <2>2 DEF Ended, ServerOver
        <2>4. /\ Upcoming(Client).key = AppKey /\ Upcoming(Client).intact
              /\ Upcoming(Client).seq = n
            BY <2>3, RunsHead DEF Incoming, Upcoming, Peer
        <2> QED
            BY <2>3, <2>4 DEF Legible, Opens, Numbered
    <1>4. at[Client] \in Opening \cup Answering
                         \cup {"send_alert", "send_reject", "done", "failed"}
        BY <1>0, Located
    <1> QED
        BY <1>1, <1>2, <1>3, <1>4
        DEF Opening, Greeting, Answering, Waiting, Salvaging

LEMMA ServerLegible ==
    ASSUME Inv, Undisturbed, Incoming(Server),
           at[Server] \in Waiting \cup Salvaging \cup {"done"}
    PROVE  Legible(Server)
    <1>0. Situation /\ ServerBegun /\ Server \in Ends
        BY DEF Undisturbed, Inv
    <1>1. CASE at[Server] \in {"wait_hello", "wait_second"}
        <2>1. readState[Server] = NoState
            BY <1>0, <1>1 DEF ServerBegun, Choosing
        <2>2. Upcoming(Server) \in {Greeting1, Ccs, Greeting2}
            BY <1>1, ServerNext
        <2> QED
            BY <1>0, <2>1, <2>2, PlainLegible, RecordFacts
    <1>2. CASE at[Server] \in Checking
        <2>1. CASE DoubtUnread /\ Upcoming(Server) = Alert
            <3>1. readState[Server] = Numbered(HsKey, 0)
                BY <2>1 DEF DoubtUnread, Checks0
            <3> QED
                BY <2>1, <3>1, RecordFacts, KeysApart
                DEF Legible, PlainAlert, PlainRecord, Numbered
        <2>2. CASE /\ VerifyOut \/ Unsigned \/ FinishedOut \/ Ending
                   /\ \/ at[Server] = "wait_cert" /\ Upcoming(Server) = CertR
                      \/ at[Server] = "wait_verify" /\ Upcoming(Server) = VerifyR
            <3>1. ServerReads
                BY <2>2 DEF VerifyOut, Unsigned, FinishedOut, Ending
            <3>2. CASE at[Server] = "wait_cert" /\ Upcoming(Server) = CertR
                BY <1>0, <3>1, <3>2, KeyedLegible, RecordFacts DEF ServerReads
            <3>3. CASE at[Server] = "wait_verify" /\ Upcoming(Server) = VerifyR
                BY <1>0, <3>1, <3>3, KeyedLegible, RecordFacts DEF ServerReads
            <3> QED
                BY <2>2, <3>2, <3>3
        <2>3. CASE /\ Ending /\ at[Server] = "wait_finished"
                   /\ Upcoming(Server) \in {Ccs, FinR}
            <3>1. readState[Server] = Numbered(HsKey, Answered)
                BY <2>3 DEF Ending, ServerReads
            <3>2. CASE Upcoming(Server) = Ccs
                BY <2>3, <3>2, RecordFacts
                DEF Legible, SkipsCcs, Waiting, PlainRecord
            <3> QED
                BY <1>0, <2>3, <3>1, <3>2, KeyedLegible, RecordFacts
        <2> QED
            BY <1>2, <2>1, <2>2, <2>3, ServerNext
    <1>3. CASE at[Server] \in {"done", "salvage_tickets"}
        <2>1. Ended
            BY <1>0, <1>3, Located
        <2>2. PICK n \in Nat : /\ readState[Server] = Numbered(AppKey, n)
                               /\ Runs(wire[Client], <<>>, n)
            BY <1>3, <2>1 DEF Ended, ClientOver
        <2>3. /\ Upcoming(Server).key = AppKey /\ Upcoming(Server).intact
              /\ Upcoming(Server).seq = n
            BY <2>2, RunsHead DEF Incoming, Upcoming, Peer
        <2> QED
            BY <2>2, <2>3 DEF Legible, Opens, Numbered
    <1>4. at[Server] \in Choosing \cup {"send_flight"} \cup Checking
                         \cup {"send_alert", "send_reject", "done", "failed",
                               "send_tickets", "salvage_tickets"}
        BY <1>0, Located
    <1> QED
        BY <1>1, <1>2, <1>3, <1>4 DEF Choosing, Waiting, Salvaging

LEMMA LegibleNext ==
    ASSUME Inv, Undisturbed, NEW e \in Ends, Incoming(e),
           at[e] \in Waiting \cup Salvaging \cup {"done"}
    PROVE  Legible(e)
    BY ClientLegible, ServerLegible

-----------------------------------------------------------------------------
(***************************************************************************)
(* What is left of the course to show once an end took a step.             *)
(***************************************************************************)
Aborting == {"failed", "send_alert", "send_reject"}

LEMMA ClientGoes ==
    ASSUME Undisturbed, Stays(Server), setup' = setup, broken' = broken,
           sockOpen' = sockOpen, DOMAIN hello' = Ends, at[Client] # "failed",
           at'[Client] \notin Aborting \/ Blame, ClientBegun', Situation'
    PROVE  Undisturbed'
    <1>1. Blame' = Blame
        BY Primes
    <1>2. ServerBegun'
        BY DEF Undisturbed, ServerBegun, Stays, KeepsTalk
    <1>3. Blamed(Server)'
        BY <1>1 DEF Undisturbed, Blamed, Stays
    <1>4. Blamed(Client)'
        BY <1>1 DEF Undisturbed, Blamed, Aborting
    <1> QED
        BY <1>2, <1>3, <1>4 DEF Undisturbed

LEMMA ClientKept ==
    ASSUME Undisturbed, Stays(Client), setup' = setup,
           hello'[Client] = hello[Client]
    PROVE  ClientBegun'
    BY Primes DEF Undisturbed, ClientBegun, Stays, KeepsTalk

LEMMA ServerGoes ==
    ASSUME Undisturbed, Stays(Client), setup' = setup, broken' = broken,
           sockOpen' = sockOpen, DOMAIN hello' = Ends,
           hello'[Client] = hello[Client], at[Server] # "failed",
           at'[Server] \notin Aborting \/ Blame, ServerBegun', Situation'
    PROVE  Undisturbed'
    <1>1. Blame' = Blame
        BY Primes
    <1>2. ClientBegun'
        BY ClientKept
    <1>3. Blamed(Client)'
        BY <1>1 DEF Undisturbed, Blamed, Stays
    <1>4. Blamed(Server)'
        BY <1>1 DEF Undisturbed, Blamed, Aborting
    <1> QED
        BY <1>2, <1>3, <1>4 DEF Undisturbed

\* An end gives up with a reason.
LEMMA EndFails ==
    ASSUME Inv, Undisturbed, NEW e \in Ends, Fail(e), Blame, broken' = broken,
           Situation'
    PROVE  Undisturbed'
    <1>1. setup' = setup /\ hello' = hello
        BY DEF Fail, talkVars
    <1>2. Blame' = Blame
        BY <1>1, Primes
    <1>3. at'[e] = "failed" /\ \A p \in Ends \ {e} : Stays(p)
        <2>1. at'[e] = "failed"
            BY GotoStep DEF Fail, Inv, Shape
        <2> QED
            BY <2>1, FailStep DEF Inv
    <1>4. DOMAIN sockOpen' = Ends
          /\ \A p \in Ends \ {e} : sockOpen'[p] = sockOpen[p]
        BY DEF Fail, CloseSocket, Undisturbed
    <1>5. \A p \in Ends : Blamed(p)'
        BY <1>2, <1>3, <1>4 DEF Undisturbed, Blamed, Stays
    <1>6. CASE e = Client
        <2>1. ClientBegun'
            BY <1>3, <1>6 DEF ClientBegun, Greeting
        <2>2. ServerBegun'
            BY <1>3, <1>6 DEF Undisturbed, ServerBegun, Stays, KeepsTalk
        <2> QED
            BY <1>1, <1>4, <1>5, <2>1, <2>2 DEF Undisturbed
    <1>7. CASE e = Server
        <2>1. ServerBegun'
            BY <1>3, <1>7 DEF ServerBegun, Choosing
        <2>2. ClientBegun'
            BY <1>1, <1>3, <1>7, ClientKept
        <2> QED
            BY <1>1, <1>4, <1>5, <2>1, <2>2 DEF Undisturbed
    <1> QED
        BY <1>6, <1>7

\* An end gives up after its peer did.
LEMMA BothFail ==
    ASSUME Inv, Undisturbed, NEW e \in Ends, Fail(e), at[Peer(e)] = "failed",
           broken' = broken
    PROVE  Undisturbed'
    <1>1. Peer(e) \in Ends \ {e}
        BY DEF Peer
    <1>2. Blame
        BY <1>1 DEF Undisturbed, Blamed
    <1>3. at'[e] = "failed" /\ at'[Peer(e)] = at[Peer(e)]
        BY <1>1, GotoStep DEF Fail, Inv, Shape
    <1>4. Ended'
        BY <1>1, <1>3 DEF Ended
    <1> QED
        BY <1>2, <1>4, EndFails DEF Situation

\* The writes and reads.
LEMMA SendFacts ==
    ASSUME Maps, NEW e \in Ends, NEW state, NEW msgs, NEW where,
           Send(e, state, msgs, where)
    PROVE  /\ at'[e] = where
           /\ writeState'[e] = Advanced(state)
           /\ out'[e] = Sealed(state, msgs)
    BY DEF Send, Maps

LEMMA SentFacts ==
    ASSUME Maps, NEW e \in Ends, NEW where, Sent(e, where)
    PROVE  /\ at[e] = where /\ broken' = broken
           /\ wire'[Peer(e)] = wire[Peer(e)]
           /\ Undisturbed /\ at[Peer(e)] # "failed" =>
                 wire'[e] = wire[e] \o out[e]
    BY DEF Sent, Maps, Peer, Undisturbed, Blamed

LEMMA TakeFacts ==
    ASSUME Maps, NEW e \in Ends, Take(e)
    PROVE  /\ wire'[Peer(e)] = Tail(wire[Peer(e)]) /\ wire'[e] = wire[e]
           /\ broken' = broken
    BY DEF Take, Maps, Peer

-----------------------------------------------------------------------------
(***************************************************************************)
(* The client's steps.                                                     *)
(***************************************************************************)
LEMMA ClientFrame ==
    ASSUME Inv, ClientSteps
    PROVE  /\ Stays(Server) /\ setup' = setup /\ Maps
           /\ at'[Server] = at[Server] /\ out'[Server] = out[Server]
           /\ hash'[Server] = hash[Server] /\ choice'[Server] = choice[Server]
           /\ readState'[Server] = readState[Server]
           /\ writeState'[Server] = writeState[Server]
           /\ pending'[Server] = pending[Server]
    <1>1. ClientStep
        BY ClientStepsStep
    <1>2. setup' = setup
        BY SetupStays DEF Next
    <1> QED
        BY <1>1, <1>2 DEF ClientStep, Stays, KeepsTalk, Inv, Shape

\* A client without a key.
LEMMA ClientPlain ==
    ASSUME Inv, at[Client] \in Opening
    PROVE  /\ Advanced(writeState[Client]) = writeState[Client]
           /\ \A m : Sealed(writeState[Client], <<m>>) = <<Plain(m)>>
           /\ \A m, l : Sealed(writeState[Client], <<m, l>>) =
                           <<Plain(m), Plain(l)>>
    <1>1. writeState[Client].key = NoKey
        BY DEF Inv, ClientOpening
    <1>2. Advanced(writeState[Client]) = writeState[Client]
        BY <1>1 DEF Advanced
    <1>3. ASSUME NEW m, NEW l
          PROVE  /\ Sealed(writeState[Client], <<m>>) = <<Plain(m)>>
                 /\ Sealed(writeState[Client], <<m, l>>) =
                       <<Plain(m), Plain(l)>>
        <2>1. \A state, x, y : state.key = NoKey =>
                 /\ Sealed(state, <<x>>) = <<Plain(x)>>
                 /\ Sealed(state, <<x, y>>) = <<Plain(x), Plain(y)>>
            BY SealedOnce
        <2> QED
            BY <1>1, <2>1
    <1> QED
        BY <1>2, <1>3

LEMMA SendClientHelloGoes ==
    ASSUME Inv, Undisturbed, SendClientHello
    PROVE  Undisturbed'
    <1>1. ClientSteps
        BY DEF ClientSteps
    <1>2. at[Client] = "start"
        BY DEF SendClientHello
    <1>3. Starting /\ ClientBegun
        BY <1>2, Located DEF Undisturbed
    <1>4. Send(Client, writeState[Client], <<FirstHello>>, "send_hello")
        BY DEF SendClientHello
    <1>5. at'[Client] = "send_hello" /\ out'[Client] = <<Greeting1>>
        BY <1>1, <1>2, <1>4, ClientFrame, ClientPlain, SendFacts
        DEF Opening, Greeting, Greeting1
    <1>6. hash'[Client] = Greeted
        BY <1>1, ClientFrame DEF SendClientHello, Maps, Greeted
    <1>7. hello'[Client] = FirstHello /\ DOMAIN hello' = Ends
        BY DEF SendClientHello, Undisturbed
    <1>8. /\ wire' = wire /\ broken' = broken /\ sockOpen' = sockOpen
          /\ readState' = readState
        BY DEF SendClientHello, netVars, endVars
    <1>9. ClientBegun'
        BY <1>1, <1>2, <1>3, <1>5, <1>6, <1>7, <1>8, Primes, ClientFrame
        DEF ClientBegun, Greeting
    <1>10. HelloOut'
        BY <1>1, <1>3, <1>5, <1>8, Primes, ClientFrame DEF HelloOut, Starting
    <1> QED
        BY <1>1, <1>2, <1>5, <1>7, <1>8, <1>9, <1>10, ClientFrame, ClientGoes
        DEF Situation, Aborting

LEMMA ClientHelloSentGoes ==
    ASSUME Inv, Undisturbed, ClientHelloSent
    PROVE  Undisturbed'
    <1>1. ClientSteps /\ Maps
        BY DEF ClientSteps, Inv, Shape
    <1>2. Sent(Client, "send_hello") /\ Goto(Client, "wait_hello")
        BY DEF ClientHelloSent
    <1>3. at[Client] = "send_hello" /\ at'[Client] = "wait_hello"
          /\ broken' = broken
        BY <1>1, <1>2, SentFacts, GotoStep
    <1>4. HelloOut /\ ClientBegun
        BY <1>3, Located DEF Undisturbed
    <1>5. wire'[Client] = <<Greeting1>> /\ wire'[Server] = <<>>
        <2>1. wire'[Server] = wire[Server] /\ wire'[Client] = <<>> \o <<Greeting1>>
            BY <1>1, <1>2, <1>4, SentFacts DEF HelloOut, Peer
        <2> QED
            BY <1>4, <2>1, OneMessage, Concats DEF HelloOut
    <1>6. UNCHANGED <<hash, hello, readState, sockOpen>>
        BY DEF ClientHelloSent, keyVars, talkVars, endVars
    <1>7. ClientBegun'
        BY <1>1, <1>3, <1>4, <1>6, Primes, ClientFrame DEF ClientBegun, Greeting
    <1>8. HelloSent'
        BY <1>1, <1>3, <1>4, <1>5, Primes, ClientFrame DEF HelloSent, HelloOut
    <1> QED
        BY <1>1, <1>3, <1>6, <1>7, <1>8, ClientFrame, ClientGoes
        DEF Situation, Aborting, Undisturbed

\* The client got the HelloRetryRequest.
LEMMA RetryArrives ==
    ASSUME Inv, Undisturbed, Receives(Client, "wait_hello", "retry")
    PROVE  /\ RetryUnread /\ Upcoming(Client) = RetryR
           /\ Readings(Upcoming(Client)) = {Retry} /\ Upcoming(Client).intact
    <1>1. at[Client] = "wait_hello" /\ Incoming(Client)
          /\ Upcoming(Client).msg.type = "retry"
        BY DEF Receives
    <1>2. Upcoming(Client) # Alert /\ Upcoming(Client) # Answer1
        BY <1>1, RecordFacts DEF PlainRecord
    <1>3. RetryUnread /\ Upcoming(Client) = RetryR
        BY <1>1, <1>2, ClientNext
    <1> QED
        BY <1>3, RecordFacts DEF Readings, PlainRecord

LEMMA ReadRetryGoes ==
    ASSUME Inv, Undisturbed, ReadRetry
    PROVE  Undisturbed'
    <1>1. ClientSteps /\ Maps
        BY DEF ClientSteps, Inv, Shape
    <1>2. Receives(Client, "wait_hello", "retry")
        BY DEF ReadRetry
    <1>3. /\ RetryUnread /\ Upcoming(Client) = RetryR
          /\ Readings(Upcoming(Client)) = {Retry} /\ Upcoming(Client).intact
        BY <1>2, RetryArrives
    <1>4. at[Client] = "wait_hello" /\ Take(Client)
        BY <1>2 DEF Receives
    <1>5. hash[Client] = Greeted /\ readState[Client] = NoState
        BY <1>4 DEF Undisturbed, ClientBegun, Greeting
    <1>6. Hashed(Client, Retry) = Retried
        BY <1>3, <1>5 DEF Hashed, Retried, Seen
    <1>7. /\ Send(Client, writeState[Client], <<Simple("ccs"), Second>>,
                  "send_second")
          /\ hash' = [hash EXCEPT ![Client] = Append(Retried, Seen(Second))]
          /\ hello' = [hello EXCEPT ![Client] = Second]
        BY <1>3, <1>6 DEF ReadRetry, Second
    <1>8. at'[Client] = "send_second" /\ out'[Client] = <<Ccs, Greeting2>>
        BY <1>1, <1>4, <1>7, ClientPlain, SendFacts
        DEF Opening, Greeting, Ccs, Greeting2
    <1>9. hash'[Client] = GreetedAgain
        BY <1>1, <1>7 DEF Maps, GreetedAgain
    <1>10. hello'[Client] = Second /\ DOMAIN hello' = Ends
        BY <1>7 DEF Undisturbed
    <1>11. wire'[Client] = <<>> /\ wire'[Server] = <<Ccs>> /\ broken' = broken
        BY <1>1, <1>3, <1>4, TakeFacts, HeadTail DEF RetryUnread, Peer
    <1>12. readState' = readState /\ sockOpen' = sockOpen
        BY DEF ReadRetry, endVars
    <1>13. ClientBegun'
        BY <1>1, <1>5, <1>8, <1>9, <1>10, <1>12, Primes, ClientFrame
        DEF ClientBegun, Greeting
    <1>14. SecondOut'
        BY <1>1, <1>3, <1>8, <1>11, Primes, ClientFrame
        DEF SecondOut, RetryUnread
    <1> QED
        BY <1>1, <1>4, <1>8, <1>10, <1>11, <1>12, <1>13, <1>14, ClientFrame,
           ClientGoes DEF Situation, Aborting

\* The group asked for is one that the client did not send a share of.
LEMMA RefuseRetryNot ==
    ASSUME Inv, Undisturbed
    PROVE  ~RefuseRetry
    <1>1. SUFFICES ASSUME RefuseRetry PROVE FALSE
        OBVIOUS
    <1>2. RetryUnread /\ Readings(Upcoming(Client)) = {Retry}
        BY <1>1, RetryArrives DEF RefuseRetry
    <1>3. ~Retriable(Retry.group)
        BY <1>1, <1>2 DEF RefuseRetry
    <1> QED
        BY <1>2, <1>3, RetryRight DEF RetryUnread, Inv, Shape

LEMMA SecondHelloSentGoes ==
    ASSUME Inv, Undisturbed, SecondHelloSent
    PROVE  Undisturbed'
    <1>1. ClientSteps /\ Maps
        BY DEF ClientSteps, Inv, Shape
    <1>2. Sent(Client, "send_second") /\ Goto(Client, "wait_retry")
        BY DEF SecondHelloSent
    <1>3. at[Client] = "send_second" /\ at'[Client] = "wait_retry"
          /\ broken' = broken
        BY <1>1, <1>2, SentFacts, GotoStep
    <1>4. SecondOut /\ ClientBegun
        BY <1>3, Located DEF Undisturbed
    <1>5. wire'[Client] = <<Ccs, Greeting2>> /\ wire'[Server] = <<Ccs>>
        <2>1. /\ wire'[Server] = wire[Server]
              /\ wire'[Client] = <<>> \o <<Ccs, Greeting2>>
            BY <1>1, <1>2, <1>4, SentFacts DEF SecondOut, Peer
        <2> QED
            BY <1>4, <2>1, TwoMessages, Concats DEF SecondOut
    <1>6. UNCHANGED <<hash, hello, readState, sockOpen>>
        BY DEF SecondHelloSent, keyVars, endVars
    <1>7. ClientBegun'
        BY <1>1, <1>3, <1>4, <1>6, Primes, ClientFrame DEF ClientBegun, Greeting
    <1>8. SecondUnread'
        BY <1>1, <1>3, <1>4, <1>5, Primes, ClientFrame
        DEF SecondUnread, SecondOut
    <1> QED
        BY <1>1, <1>3, <1>6, <1>7, <1>8, ClientFrame, ClientGoes
        DEF Situation, Aborting, Undisturbed

\* The client got the ServerHello: it names a group that the client sent a
\* share of, and completes the transcript that the server has.
LEMMA HelloArrives ==
    ASSUME Inv, Undisturbed, NEW where \in {"wait_hello", "wait_retry"},
           Receives(Client, where, "server_hello")
    PROVE  /\ Decided /\ Upcoming(Client) = Answer1 /\ Upcoming(Client).intact
           /\ at[Client] \in {"wait_hello", "wait_retry"}
           /\ Readings(Upcoming(Client)) = {Settled}
           /\ Hashed(Client, Settled) = Met
           /\ Settled.group \in ToSet(hello[Client].shares)
    <1>0. Maps /\ ClientBegun
        BY DEF Inv, Shape, Undisturbed
    <1>1. at[Client] = where /\ Incoming(Client)
          /\ Upcoming(Client).msg.type = "server_hello"
        BY DEF Receives
    <1>2. Upcoming(Client) \notin {RetryR, Alert, Ccs}
        BY <1>1, RecordFacts DEF PlainRecord
    <1>3. Decided /\ Upcoming(Client) = Answer1
        BY <1>1, <1>2, ClientNext
    <1>4. Upcoming(Client).intact /\ Readings(Upcoming(Client)) = {Settled}
        BY <1>3, RecordFacts DEF Readings, PlainRecord
    <1>5. Listening
        BY <1>3 DEF Decided, Unproven, FlightOut, FlightUnread
    <1>6. CASE at[Client] = "wait_hello"
        <2>1. ~Retries
            BY <1>5, <1>6 DEF Listening
        <2>2. hash[Client] = Greeted /\ hello[Client] = FirstHello
            BY <1>0, <1>6 DEF ClientBegun
        <2>3. Hashed(Client, Settled) = Met
            BY <1>4, <2>1, <2>2 DEF Hashed, Met, Seen
        <2>4. Settled.group \in ToSet(hello[Client].shares)
            BY <1>0, <2>1, <2>2, ShareRight, Typed DEF Settled
        <2> QED
            BY <1>3, <1>4, <1>6, <2>3, <2>4
    <1>7. CASE at[Client] = "wait_retry"
        <2>1. Retries
            BY <1>5, <1>7 DEF Listening
        <2>2. hash[Client] = GreetedAgain /\ hello[Client] = Second
            BY <1>0, <1>7 DEF ClientBegun
        <2>3. Hashed(Client, Settled) = Met
            BY <1>4, <2>1, <2>2 DEF Hashed, Met, Seen
        <2>4. Settled.group = Retry.group
            BY <2>1 DEF Settled, Group, Retries, Retry, RetryGroup, SharedGroup
        <2>5. hello[Client].shares = <<Retry.group>>
            BY <2>2 DEF Second, SecondHello, FirstHello
        <2> QED
            BY <1>3, <1>4, <1>7, <2>3, <2>4, <2>5, OneMessage
    <1> QED
        BY <1>1, <1>6, <1>7

LEMMA RejectServerHelloNot ==
    ASSUME Inv, Undisturbed
    PROVE  ~RejectServerHello
    BY HelloArrives DEF RejectServerHello

\* Whatever the server is at, the client now waits for the flight.
LEMMA FlightAwaited ==
    ASSUME Inv, Undisturbed, ClientSteps, Decided, Incoming(Client),
           at[Client] \in {"wait_hello", "wait_retry"},
           Upcoming(Client) = Answer1, Take(Client),
           at'[Client] = "wait_flight"
    PROVE  Situation'
    <1>0. Maps /\ wire[Server] # <<>> /\ Head(wire[Server]) = Answer1
          /\ Answer1 # Ccs
        BY RecordFacts DEF Inv, Shape, Incoming, Upcoming, Peer, PlainRecord
    <1>1. wire'[Server] = Tail(wire[Server]) /\ wire'[Client] = wire[Client]
        BY <1>0, TakeFacts DEF Peer
    <1>2. Listening
        BY DEF Decided, Unproven, FlightOut, FlightUnread
    <1>3. Listening'
        BY <1>1, <1>2 DEF Listening
    <1>4. Hellos' = {<<>>, <<Ccs>>}
        BY ClientFrame, Primes DEF Hellos
    <1>5. ASSUME wire[Server] \in Hellos
          PROVE  wire'[Server] \in Hellos'
        BY <1>0, <1>1, <1>4, <1>5, HelloNext
    <1>6. ASSUME NEW f, NEW h \in Hellos, wire[Server] = Append(h, f)
          PROVE  \E g \in Hellos' : wire'[Server] = Append(g, f)
        <2>1. h # <<>>
            BY HelloNext
        <2>2. Head(h) = Answer1 /\ Tail(wire[Server]) = Append(Tail(h), f)
            BY <1>0, <1>6, <2>1, HelloNext
        <2>3. Tail(h) \in {<<>>, <<Ccs>>}
            BY <1>0, <2>2, HelloNext
        <2> QED
            BY <1>1, <1>4, <2>2, <2>3
    <1>7. CASE Unproven
        <2>1. Unproven'
            BY <1>3, <1>5, <1>7, ClientFrame DEF Unproven
        <2> QED
            BY <2>1 DEF Situation
    <1>8. ASSUME NEW right \in BOOLEAN, FlightOut(right)
          PROVE  Situation'
        <2>1. FlightOut(right)'
            BY <1>3, <1>5, <1>8, ClientFrame, Primes DEF FlightOut
        <2> QED
            BY <2>1 DEF Situation
    <1>9. ASSUME NEW right \in BOOLEAN, FlightUnread(right)
          PROVE  Situation'
        <2>1. Checks0'
            BY <1>9, ClientFrame, Primes DEF FlightUnread, Checks0
        <2>2. Switches => Switches'
            BY ClientFrame, Primes DEF Switches
        <2>3. \E h \in Hellos : wire[Server] = Append(h, FlightR[right])
            BY <1>9 DEF FlightUnread
        <2>4. FlightR' = FlightR /\ Blame' = Blame
            BY ClientFrame, Primes
        <2>5. \E h \in Hellos' : wire'[Server] = Append(h, FlightR[right])
            BY <1>6, <2>3
        <2>6. (\E h \in Hellos : wire[Server] = Append(h, FlightR[right]))'
            BY <2>4, <2>5
        <2>7. (IF right THEN Switches ELSE Blame)'
            BY <1>9, <2>2, <2>4 DEF FlightUnread
        <2>8. FlightUnread(right)'
            BY <1>3, <2>1, <2>6, <2>7 DEF FlightUnread
        <2> QED
            BY <2>8 DEF Situation
    <1> QED
        BY <1>7, <1>8, <1>9 DEF Decided

LEMMA ReadServerHelloGoes ==
    ASSUME Inv, Undisturbed, ReadServerHello
    PROVE  Undisturbed'
    <1>1. ClientSteps /\ Maps
        BY DEF ClientSteps, Inv, Shape
    <1>2. PICK where \in {"wait_hello", "wait_retry"} :
             Receives(Client, where, "server_hello")
        BY DEF ReadServerHello
    <1>3. /\ Decided /\ Upcoming(Client) = Answer1
          /\ at[Client] \in {"wait_hello", "wait_retry"}
          /\ Readings(Upcoming(Client)) = {Settled}
          /\ Hashed(Client, Settled) = Met
        BY <1>2, HelloArrives
    <1>4. Take(Client) /\ Incoming(Client)
        BY <1>2 DEF Receives
    <1>5. hash'[Client] = Met
        BY <1>1, <1>3 DEF ReadServerHello, Maps
    <1>6. at'[Client] = "wait_flight"
        BY <1>1, GotoStep DEF ReadServerHello
    <1>7. hello' = hello /\ sockOpen' = sockOpen /\ broken' = broken
        BY <1>1, <1>4, TakeFacts DEF ReadServerHello, endVars
    <1>8. ClientBegun'
        BY <1>1, <1>5, <1>6, Primes, ClientFrame DEF ClientBegun, Greeting
    <1>9. Situation'
        BY <1>1, <1>3, <1>4, <1>6, FlightAwaited
    <1> QED
        BY <1>1, <1>3, <1>6, <1>7, <1>8, <1>9, ClientFrame, ClientGoes
        DEF Aborting, Undisturbed

\* The client got the flight, under the key of the transcript it has.
LEMMA FlightArrives ==
    ASSUME Inv, Undisturbed, Receives(Client, "wait_flight", "flight")
    PROVE  \E right \in BOOLEAN :
              /\ FlightUnread(right) /\ wire[Server] = <<FlightR[right]>>
              /\ Upcoming(Client).msg = FlightOf[right]
              /\ FlightOf[right].right = right
              /\ FlightOf[right].request = Requests
              /\ Hashed(Client, FlightOf[right]) =
                    Append(Met, Seen(FlightOf[right]))
              /\ pending[Client].write = Numbered(HsKey, 0)
              /\ readState[Client] = Numbered(HsKey, 0)
    <1>1. /\ at[Client] = "wait_flight" /\ Incoming(Client)
          /\ Upcoming(Client).msg.type = "flight"
        BY DEF Receives
    <1>2. Upcoming(Client) # Ccs
        BY <1>1, RecordFacts DEF PlainRecord
    <1>3. PICK right \in BOOLEAN :
             /\ FlightUnread(right) /\ wire[Server] = <<FlightR[right]>>
             /\ Upcoming(Client) = FlightR[right]
        BY <1>1, <1>2, ClientNext
    <1>4. hash[Client] = Met /\ ClientOpening
        BY <1>1 DEF Undisturbed, ClientBegun, Inv
    <1>5. Upcoming(Client).msg = FlightOf[right] /\ Upcoming(Client).intact
        BY <1>3, RecordFacts DEF KeyedRecord
    <1>6. Hashed(Client, FlightOf[right]) = Append(Met, Seen(FlightOf[right]))
        BY <1>4, <1>5 DEF Hashed, Seen
    <1>7. pending[Client].write = Numbered(HsKey, 0)
          /\ readState[Client] = Numbered(HsKey, 0)
        BY <1>1, <1>4, KeysApart DEF ClientOpening
    <1> QED
        BY <1>3, <1>5, <1>6, <1>7 DEF FlightOf

LEMMA FinishesFacts ==
    ASSUME Maps, NEW h,
           ClientFinishes(Numbered(HsKey, Answered), h, Proven)
    PROVE  /\ at'[Client] = "send_finished"
           /\ out'[Client] \in {<<FinR>>, <<Ccs, FinR>>}
           /\ pending'[Client].write = Numbered(AppKey, 0)
           /\ readState'[Client] = Numbered(AppKey, 0)
    <1> DEFINE finished == Simple("finished")
               msgs == IF ccsSent[Client] THEN <<finished>>
                       ELSE <<Simple("ccs"), finished>>
    <1>1. Send(Client, Numbered(HsKey, Answered), msgs, "send_finished")
        BY DEF ClientFinishes
    <1>2. finished.type # "ccs"
        BY DEF Simple
    <1>3. Sealed(Numbered(HsKey, Answered), <<finished>>) = <<FinR>>
        BY <1>2, SealedOnce, KeysApart DEF FinR
    <1>4. Sealed(Numbered(HsKey, Answered), <<Simple("ccs"), finished>>) =
             <<Ccs, FinR>>
        BY <1>2, SealedOnce, KeysApart DEF FinR
    <1>5. /\ at'[Client] = "send_finished"
          /\ out'[Client] \in {<<FinR>>, <<Ccs, FinR>>}
        BY <1>1, <1>3, <1>4, SendFacts
    <1>6. /\ readState'[Client] = KeyedBy("app", Proven)
          /\ pending'[Client].write = KeyedBy("app", Proven)
        BY DEF ClientFinishes, CalcPending, Maps
    <1> QED
        BY <1>5, <1>6, KeysApart

LEMMA ReadFlightGoes ==
    ASSUME Inv, Undisturbed, ReadFlight
    PROVE  Undisturbed'
    <1>1. ClientSteps /\ Maps
        BY DEF ClientSteps, Inv, Shape
    <1>2. Receives(Client, "wait_flight", "flight")
        BY DEF ReadFlight
    <1>3. at[Client] = "wait_flight" /\ Take(Client)
        BY <1>2 DEF Receives
    <1>4. PICK right \in BOOLEAN :
              /\ FlightUnread(right) /\ wire[Server] = <<FlightR[right]>>
              /\ Upcoming(Client).msg = FlightOf[right]
              /\ FlightOf[right].right = right
              /\ FlightOf[right].request = Requests
              /\ Hashed(Client, FlightOf[right]) =
                    Append(Met, Seen(FlightOf[right]))
              /\ pending[Client].write = Numbered(HsKey, 0)
        BY <1>2, FlightArrives
    <1>5. right /\ ~Requests /\ Answered = 0
        BY <1>4 DEF ReadFlight, Answered
    <1>6. Hashed(Client, Upcoming(Client).msg) = Proven
        BY <1>4, <1>5 DEF Proven
    <1>7. ClientFinishes(Numbered(HsKey, Answered), Proven, Proven)
        BY <1>4, <1>5, <1>6 DEF ReadFlight
    <1>8. /\ at'[Client] = "send_finished"
          /\ out'[Client] \in {<<FinR>>, <<Ccs, FinR>>}
          /\ pending'[Client].write = Numbered(AppKey, 0)
          /\ readState'[Client] = Numbered(AppKey, 0)
        BY <1>1, <1>7, FinishesFacts
    <1>9. wire'[Server] = <<>> /\ wire'[Client] = wire[Client]
          /\ broken' = broken
        BY <1>1, <1>3, <1>4, TakeFacts, HeadTail DEF Peer
    <1>10. hello' = hello /\ sockOpen' = sockOpen
        BY DEF ReadFlight, endVars
    <1>11. /\ at[Server] = "wait_finished"
           /\ readState[Server] = Numbered(HsKey, Answered)
           /\ Switches /\ wire[Client] = <<>>
        BY <1>4, <1>5 DEF FlightUnread, Checks0, Listening
    <1>12. ServerReads' /\ Unchecked' = <<>>
        BY <1>1, <1>11, ClientFrame, Primes
        DEF ServerReads, Switches, Unchecked
    <1>13. FinishedOut'
        BY <1>1, <1>8, <1>9, <1>11, <1>12, ClientFrame, Primes DEF FinishedOut
    <1>14. ClientBegun'
        BY <1>8 DEF ClientBegun, Greeting
    <1> QED
        BY <1>1, <1>3, <1>8, <1>9, <1>10, <1>13, <1>14, ClientFrame, ClientGoes
        DEF Situation, Aborting, Undisturbed

LEMMA ReadFlightRequestingGoes ==
    ASSUME Inv, Undisturbed, ReadFlightRequesting
    PROVE  Undisturbed'
    <1> DEFINE answer == [type |-> "certificate", cert |-> client.cert]
    <1>1. ClientSteps /\ Maps
        BY DEF ClientSteps, Inv, Shape
    <1>2. Receives(Client, "wait_flight", "flight")
        BY DEF ReadFlightRequesting
    <1>3. at[Client] = "wait_flight" /\ Take(Client)
        BY <1>2 DEF Receives
    <1>4. PICK right \in BOOLEAN :
              /\ FlightUnread(right) /\ wire[Server] = <<FlightR[right]>>
              /\ Upcoming(Client).msg = FlightOf[right]
              /\ FlightOf[right].right = right
              /\ FlightOf[right].request = Requests
              /\ Hashed(Client, FlightOf[right]) =
                    Append(Met, Seen(FlightOf[right]))
              /\ pending[Client].write = Numbered(HsKey, 0)
        BY <1>2, FlightArrives
    <1>5. right /\ Requests
        BY <1>4 DEF ReadFlightRequesting
    <1>6. Hashed(Client, Upcoming(Client).msg) = Proven
        BY <1>4, <1>5 DEF Proven
    <1>7. Send(Client, Numbered(HsKey, 0), <<answer>>, "send_cert")
        BY <1>4 DEF ReadFlightRequesting
    <1>8. Sealed(Numbered(HsKey, 0), <<answer>>) = <<CertR>>
        <2>1. answer.type # "ccs"
            OBVIOUS
        <2> QED
            BY <2>1, SealedOnce, KeysApart DEF CertR
    <1>9. /\ at'[Client] = "send_cert" /\ out'[Client] = <<CertR>>
          /\ writeState'[Client] = Numbered(HsKey, 1)
        <2>1. Advanced(Numbered(HsKey, 0)) = Numbered(HsKey, 1)
            BY AdvancedNumbered, KeysApart
        <2> QED
            BY <1>1, <1>7, <1>8, <2>1, SendFacts
    <1>10. master'[Client] = Proven
        BY <1>1, <1>6 DEF ReadFlightRequesting, Maps
    <1>11. wire'[Server] = <<>> /\ wire'[Client] = wire[Client]
           /\ broken' = broken
        BY <1>1, <1>3, <1>4, TakeFacts, HeadTail DEF Peer
    <1>12. hello' = hello /\ sockOpen' = sockOpen
        BY DEF ReadFlightRequesting, endVars
    <1>13. /\ at[Server] = "wait_cert"
           /\ readState[Server] = Numbered(HsKey, 0)
           /\ Switches /\ wire[Client] = <<>>
        BY <1>4, <1>5 DEF FlightUnread, Checks0, Listening
    <1>14. ServerReads'
        BY <1>1, <1>5, <1>13, ClientFrame, Primes DEF ServerReads, Switches
    <1>15. CertificateOut'
        BY <1>1, <1>9, <1>10, <1>11, <1>13, <1>14, ClientFrame, Primes
        DEF CertificateOut
    <1>16. ClientBegun'
        BY <1>9 DEF ClientBegun, Greeting
    <1> QED
        BY <1>1, <1>3, <1>9, <1>11, <1>12, <1>15, <1>16, ClientFrame, ClientGoes
        DEF Situation, Aborting, Undisturbed

\* The client only refuses a proof that is wrong: the ends do not fit.
LEMMA RefuseProofGoes ==
    ASSUME Inv, Undisturbed, RefuseProof
    PROVE  Undisturbed'
    <1>1. ClientSteps /\ Maps
        BY DEF ClientSteps, Inv, Shape
    <1>2. Receives(Client, "wait_flight", "flight")
        BY DEF RefuseProof
    <1>3. at[Client] = "wait_flight" /\ Take(Client)
        BY <1>2 DEF Receives
    <1>4. PICK right \in BOOLEAN :
              /\ FlightUnread(right)
              /\ Upcoming(Client).msg = FlightOf[right]
              /\ FlightOf[right].right = right
        BY <1>2, FlightArrives
    <1>5. ~right
        BY <1>4 DEF RefuseProof
    <1>6. Blame /\ Checks0 /\ wire[Client] = <<>>
        BY <1>4, <1>5 DEF FlightUnread, Listening
    <1>7. at'[Client] = "send_alert" /\ out'[Client] = <<Alert>>
        BY <1>1, <1>3, ClientPlain, SendFacts
        DEF RefuseProof, SendError, Opening, Alert
    <1>8. wire'[Client] = wire[Client] /\ broken' = broken
        BY <1>1, <1>3, TakeFacts
    <1>9. hello' = hello /\ sockOpen' = sockOpen
        BY DEF RefuseProof, talkVars, endVars
    <1>10. Checks0'
        BY <1>1, <1>6, ClientFrame, Primes DEF Checks0
    <1>11. DoubtOut'
        BY <1>1, <1>6, <1>7, <1>8, <1>10, ClientFrame, Primes DEF DoubtOut
    <1>12. ClientBegun'
        BY <1>7 DEF ClientBegun, Greeting
    <1> QED
        BY <1>1, <1>3, <1>6, <1>7, <1>8, <1>9, <1>11, <1>12, ClientFrame,
           ClientGoes DEF Situation, Undisturbed

\* The server stays where it is while the client answers.
LEMMA ServerReadsOn ==
    ASSUME Inv, ClientSteps, ServerReads
    PROVE  ServerReads'
    BY ClientFrame, Primes DEF ServerReads, Switches

\* The client's certificate went out.
LEMMA CertificateLeaves ==
    ASSUME Inv, Undisturbed, Sent(Client, "send_cert")
    PROVE  /\ CertificateOut /\ ServerReads /\ at[Server] = "wait_cert"
           /\ Requests /\ wire'[Client] = <<CertR>> /\ wire'[Server] = <<>>
           /\ broken' = broken /\ at[Client] = "send_cert"
    <1>0. Maps /\ Situation
        BY DEF Inv, Shape, Undisturbed
    <1>1. at[Client] = "send_cert" /\ broken' = broken
          /\ wire'[Server] = wire[Server]
        BY <1>0, SentFacts DEF Peer
    <1>2. CertificateOut
        BY <1>0, <1>1, Located
    <1>3. ServerReads /\ at[Server] = "wait_cert" /\ wire[Client] = <<>>
          /\ out[Client] = <<CertR>> /\ wire[Server] = <<>>
        BY <1>2 DEF CertificateOut
    <1>4. Requests
        BY <1>3 DEF ServerReads
    <1>5. wire'[Client] = <<>> \o <<CertR>>
        BY <1>0, <1>3, SentFacts DEF Peer
    <1> QED
        BY <1>1, <1>2, <1>3, <1>4, <1>5, OneMessage, Concats

LEMMA EmptyCertificateSentGoes ==
    ASSUME Inv, Undisturbed, EmptyCertificateSent
    PROVE  Undisturbed'
    <1>1. ClientSteps /\ Maps
        BY DEF ClientSteps, Inv, Shape
    <1>2. Sent(Client, "send_cert") /\ ~Certified
        BY DEF EmptyCertificateSent, Certified
    <1>3. /\ CertificateOut /\ ServerReads /\ at[Server] = "wait_cert"
          /\ Requests /\ wire'[Client] = <<CertR>> /\ wire'[Server] = <<>>
          /\ broken' = broken /\ at[Client] = "send_cert"
        BY <1>2, CertificateLeaves
    <1>4. writeState[Client] = Numbered(HsKey, Answered)
          /\ master[Client] = Proven
        BY <1>2, <1>3 DEF CertificateOut, Answered
    <1>5. /\ at'[Client] = "send_finished"
          /\ out'[Client] \in {<<FinR>>, <<Ccs, FinR>>}
          /\ pending'[Client].write = Numbered(AppKey, 0)
          /\ readState'[Client] = Numbered(AppKey, 0)
        BY <1>1, <1>4, FinishesFacts DEF EmptyCertificateSent
    <1>6. hello' = hello /\ sockOpen' = sockOpen
        BY DEF EmptyCertificateSent, endVars
    <1>7. ServerReads' /\ Unchecked' = <<CertR>>
        BY <1>1, <1>2, <1>3, ServerReadsOn, ClientFrame, Primes DEF Unchecked
    <1>8. FinishedOut'
        BY <1>1, <1>3, <1>5, <1>7, ClientFrame, Primes DEF FinishedOut
    <1>9. ClientBegun'
        BY <1>5 DEF ClientBegun, Greeting
    <1> QED
        BY <1>1, <1>3, <1>5, <1>6, <1>8, <1>9, ClientFrame, ClientGoes
        DEF Situation, Aborting, Undisturbed

\* The request that the client finds in its transcript is the server's.
LEMMA RequestFound ==
    ASSUME master[Client] = Proven, Maps, Requests
    PROVE  /\ ClientScheme(Request) = Verification.scheme
           /\ ClientScheme(Request) = ClientScheme(server)
    <1>1. IsSeq(Met)
        <2>1. IsSeq(Greeted)
            BY OneMessage DEF Greeted
        <2>2. IsSeq(Retried)
            BY <2>1, AppendFacts DEF Retried
        <2>3. IsSeq(GreetedAgain)
            BY <2>2, AppendFacts DEF GreetedAgain
        <2> QED
            BY <2>1, <2>3, AppendFacts DEF Met
    <1>2. Proven[Len(Proven)] = Seen(FlightOf[TRUE])
        BY <1>1, AppendFacts DEF Proven
    <1>3. Request = FlightOf[TRUE]
        BY <1>2 DEF Request, Seen
    <1>4. Request.schemes = server.schemes
        BY <1>3 DEF FlightOf
    <1> QED
        BY <1>4 DEF ClientScheme, Verification

LEMMA CertificateSentGoes ==
    ASSUME Inv, Undisturbed, CertificateSent
    PROVE  Undisturbed'
    <1>1. ClientSteps /\ Maps
        BY DEF ClientSteps, Inv, Shape
    <1>2. Sent(Client, "send_cert") /\ Certified
        BY DEF CertificateSent, Certified
    <1>3. /\ CertificateOut /\ ServerReads /\ at[Server] = "wait_cert"
          /\ Requests /\ wire'[Client] = <<CertR>> /\ wire'[Server] = <<>>
          /\ broken' = broken /\ at[Client] = "send_cert"
        BY <1>2, CertificateLeaves
    <1>4. /\ writeState[Client] = Numbered(HsKey, 1)
          /\ master[Client] = Proven
        BY <1>3 DEF CertificateOut
    <1>5. [type |-> "certificate_verify", scheme |-> ClientScheme(Request)]
             = Verification
        BY <1>1, <1>3, <1>4, RequestFound DEF Verification
    <1>6. Send(Client, Numbered(HsKey, 1), <<Verification>>, "send_verify")
        BY <1>4, <1>5 DEF CertificateSent
    <1>7. /\ at'[Client] = "send_verify" /\ out'[Client] = <<VerifyR>>
          /\ writeState'[Client] = Numbered(HsKey, 2)
        <2>1. Advanced(Numbered(HsKey, 1)) = Numbered(HsKey, 2)
            BY AdvancedNumbered, KeysApart
        <2>2. Verification.type # "ccs"
            BY DEF Verification
        <2>3. Sealed(Numbered(HsKey, 1), <<Verification>>) = <<VerifyR>>
            BY <2>2, SealedOnce, KeysApart DEF VerifyR
        <2> QED
            BY <1>1, <1>6, <2>1, <2>3, SendFacts
    <1>8. /\ hello' = hello /\ sockOpen' = sockOpen /\ master' = master
        BY DEF CertificateSent, endVars
    <1>9. ServerReads'
        BY <1>1, <1>3, ServerReadsOn
    <1>10. VerifyOut'
        BY <1>1, <1>2, <1>3, <1>4, <1>7, <1>8, <1>9, ClientFrame, Primes
        DEF VerifyOut, CertificateGone
    <1>11. ClientBegun'
        BY <1>7 DEF ClientBegun, Greeting
    <1> QED
        BY <1>1, <1>3, <1>7, <1>8, <1>10, <1>11, ClientFrame, ClientGoes
        DEF Situation, Aborting, Undisturbed

\* The client has no way to sign: the ends do not fit.
LEMMA CannotSignGoes ==
    ASSUME Inv, Undisturbed, CannotSign
    PROVE  Undisturbed'
    <1>1. ClientSteps /\ Maps
        BY DEF ClientSteps, Inv, Shape
    <1>2. Sent(Client, "send_cert") /\ Certified /\ Fail(Client)
        BY DEF CannotSign, Certified
    <1>3. /\ CertificateOut /\ ServerReads /\ at[Server] = "wait_cert"
          /\ Requests /\ wire'[Client] = <<CertR>>
          /\ broken' = broken
        BY <1>2, CertificateLeaves
    <1>4. ClientScheme(server) \in {"none", "dvnizk_ed25519"}
        BY <1>1, <1>3, RequestFound DEF CannotSign, CertificateOut
    <1>5. Blame
        BY <1>2, <1>3, <1>4 DEF Blame, Compatible, Requests, Certified
    <1>6. ServerReads' /\ at'[Client] = "failed"
        BY <1>1, <1>2, <1>3, ServerReadsOn, GotoStep DEF Fail
    <1>7. Unsigned'
        BY <1>1, <1>2, <1>3, <1>6, ClientFrame, Primes
        DEF Unsigned, CertificateGone
    <1> QED
        BY <1>2, <1>3, <1>5, <1>7, EndFails DEF Situation

LEMMA VerifySentGoes ==
    ASSUME Inv, Undisturbed, VerifySent
    PROVE  Undisturbed'
    <1>1. ClientSteps /\ Maps
        BY DEF ClientSteps, Inv, Shape
    <1>2. Sent(Client, "send_verify")
        BY DEF VerifySent
    <1>3. at[Client] = "send_verify" /\ broken' = broken
          /\ wire'[Server] = wire[Server]
        BY <1>1, <1>2, SentFacts DEF Peer
    <1>4. VerifyOut
        BY <1>3, Located DEF Undisturbed
    <1>5. /\ ServerReads /\ CertificateGone /\ master[Client] = Proven
          /\ out[Client] = <<VerifyR>> /\ wire[Server] = <<>>
        BY <1>4 DEF VerifyOut
    <1>6. Requests /\ Certified /\ Answered = 2
        BY <1>5 DEF CertificateGone, Answered
    <1>7. writeState[Client] = Numbered(HsKey, Answered)
        BY <1>4, <1>6 DEF VerifyOut
    <1>8. wire'[Client] = wire[Client] \o <<VerifyR>>
        <2>1. at[Server] # "failed"
            BY <1>5 DEF CertificateGone
        <2> QED
            BY <1>1, <1>2, <1>5, <2>1, SentFacts DEF Peer
    <1>9. wire'[Client] = Unchecked
        <2>1. CASE at[Server] = "wait_cert" /\ wire[Client] = <<CertR>>
            <3>a. IsSeq(<<CertR>>)
                BY OneMessage
            <3>b. <<CertR>> \o <<VerifyR>> = Append(<<CertR>>, VerifyR)
                BY <3>a, Concats
            <3>c. Append(<<CertR>>, VerifyR) = <<CertR, VerifyR>>
                BY Appends
            <3>1. wire'[Client] = <<CertR, VerifyR>>
                BY <1>8, <2>1, <3>b, <3>c
            <3> QED
                BY <1>6, <2>1, <3>1 DEF Unchecked
        <2>2. CASE at[Server] = "wait_verify" /\ wire[Client] = <<>>
            <3>1. wire'[Client] = <<VerifyR>>
                BY <1>8, <2>2, OneMessage, Concats
            <3> QED
                BY <2>2, <3>1 DEF Unchecked
        <2> QED
            BY <1>5, <2>1, <2>2 DEF CertificateGone
    <1>10. /\ at'[Client] = "send_finished"
           /\ out'[Client] \in {<<FinR>>, <<Ccs, FinR>>}
           /\ pending'[Client].write = Numbered(AppKey, 0)
           /\ readState'[Client] = Numbered(AppKey, 0)
        BY <1>1, <1>5, <1>7, FinishesFacts DEF VerifySent
    <1>11. hello' = hello /\ sockOpen' = sockOpen
        BY DEF VerifySent, endVars
    <1>12. ServerReads' /\ Unchecked' = Unchecked
        BY <1>1, <1>5, ServerReadsOn, ClientFrame, Primes DEF Unchecked
    <1>13. FinishedOut'
        BY <1>1, <1>3, <1>5, <1>9, <1>10, <1>12, ClientFrame, Primes
        DEF FinishedOut
    <1>14. ClientBegun'
        BY <1>10 DEF ClientBegun, Greeting
    <1> QED
        BY <1>1, <1>3, <1>10, <1>11, <1>13, <1>14, ClientFrame, ClientGoes
        DEF Situation, Aborting, Undisturbed

LEMMA ClientFinishedSentGoes ==
    ASSUME Inv, Undisturbed, ClientFinishedSent
    PROVE  Undisturbed'
    <1>1. ClientSteps /\ Maps
        BY DEF ClientSteps, Inv, Shape
    <1>2. Sent(Client, "send_finished")
        BY DEF ClientFinishedSent
    <1>3. at[Client] = "send_finished" /\ broken' = broken
          /\ wire'[Server] = wire[Server]
        BY <1>1, <1>2, SentFacts DEF Peer
    <1>4. FinishedOut
        BY <1>3, Located DEF Undisturbed
    <1>5. /\ ServerReads /\ wire[Client] = Unchecked /\ wire[Server] = <<>>
          /\ out[Client] \in {<<FinR>>, <<Ccs, FinR>>}
          /\ pending[Client].write = Numbered(AppKey, 0)
          /\ readState[Client] = Numbered(AppKey, 0)
        BY <1>4 DEF FinishedOut
    <1>6. wire'[Client] = Unchecked \o out[Client]
        <2>1. at[Server] # "failed"
            BY <1>5 DEF ServerReads
        <2> QED
            BY <1>1, <1>2, <1>5, <2>1, SentFacts DEF Peer
    <1>7. wire'[Client] \in Unread
        <2>1. CASE out[Client] = <<FinR>>
            BY <1>6, <2>1, UncheckedFacts, Concats DEF Unread, Finishing
        <2>2. CASE out[Client] = <<Ccs, FinR>>
            BY <1>6, <2>2, UncheckedFacts, Concats DEF Unread, Finishing
        <2> QED
            BY <1>5, <2>1, <2>2
    <1>8. hello' = hello /\ sockOpen' = sockOpen /\ readState' = readState
        BY DEF ClientFinishedSent, talkVars
    <1>9. Conclude(Client, Numbered(AppKey, 0), choice[Client].psk)
        BY <1>5 DEF ClientFinishedSent, Switched
    <1>10. IsSeq(wire'[Client])
        BY <1>7, UncheckedFacts, UnreadFacts DEF Unread
    <1>11. /\ Runs(wire'[Client], wire'[Client], 0)
           /\ 0 + Len(wire'[Client]) - Len(wire'[Client]) = 0
        BY <1>10, RunsEmpty, SeqFacts
    <1>12. /\ at'[Client] \in {"done", "send_reject"}
           /\ at'[Client] = "done" => writeState'[Client] = Numbered(AppKey, 0)
           /\ at'[Client] = "send_reject" =>
                 Blame /\ out'[Client] = <<AlertR>>
        <2>1. CASE client.rejects
            <3>1. Send(Client, Numbered(AppKey, 0), <<Simple("alert")>>,
                       "send_reject")
                BY <1>9, <2>1 DEF Conclude
            <3>2. Simple("alert").type # "ccs"
                BY DEF Simple
            <3>3. Sealed(Numbered(AppKey, 0), <<Simple("alert")>>) = <<AlertR>>
                BY <3>2, SealedOnce, KeysApart DEF AlertR
            <3> QED
                BY <1>1, <2>1, <3>1, <3>3, SendFacts DEF Blame
        <2>2. CASE ~client.rejects
            <3>1. /\ Goto(Client, "done")
                  /\ writeState' = [writeState EXCEPT
                                       ![Client] = Numbered(AppKey, 0)]
                BY <1>9, <2>2 DEF Conclude
            <3> QED
                BY <1>1, <3>1, GotoStep DEF Maps
        <2> QED
            BY <2>1, <2>2
    <1>13. ServerReads' /\ Unread' = Unread
        <2>1. Ccs' = Ccs /\ FinR' = FinR /\ Unchecked' = Unchecked
            BY <1>1, ClientFrame, Primes DEF Unchecked
        <2>2. Unread' = Unread
            BY <2>1 DEF Unread, Finishing
        <2> QED
            BY <1>1, <1>5, <2>2, ServerReadsOn
    <1>14. ClientOver(wire[Client], 0)'
        BY <1>1, <1>11, <1>12, ClientFrame, Primes DEF ClientOver, Runs
    <1>15. Ending'
        BY <1>1, <1>3, <1>5, <1>7, <1>8, <1>13, <1>14, ClientFrame, Primes
        DEF Ending
    <1>16. ClientBegun'
        BY <1>12 DEF ClientBegun, Greeting
    <1> QED
        BY <1>1, <1>3, <1>8, <1>12, <1>15, <1>16, ClientFrame, ClientGoes
        DEF Situation, Aborting, Undisturbed

-----------------------------------------------------------------------------
(***************************************************************************)
(* The server's steps.                                                     *)
(***************************************************************************)
LEMMA ServerFrame ==
    ASSUME Inv, ServerSteps
    PROVE  /\ Stays(Client) /\ setup' = setup /\ Maps
           /\ at'[Client] = at[Client] /\ out'[Client] = out[Client]
           /\ hash'[Client] = hash[Client] /\ master'[Client] = master[Client]
           /\ readState'[Client] = readState[Client]
           /\ writeState'[Client] = writeState[Client]
           /\ pending'[Client] = pending[Client]
    <1>1. ServerStep
        BY ServerStepsStep
    <1>2. setup' = setup
        BY SetupStays DEF Next
    <1> QED
        BY <1>1, <1>2 DEF ServerStep, Stays, KeepsTalk, Inv, Shape

\* A server without a key.
LEMMA ServerPlain ==
    ASSUME Inv, at[Server] \in Choosing
    PROVE  /\ Advanced(writeState[Server]) = writeState[Server]
           /\ \A m : Sealed(writeState[Server], <<m>>) = <<Plain(m)>>
           /\ \A m, l : Sealed(writeState[Server], <<m, l>>) =
                           <<Plain(m), Plain(l)>>
    <1>1. writeState[Server].key = NoKey
        BY DEF Inv, ServerOpening
    <1>2. Advanced(writeState[Server]) = writeState[Server]
        BY <1>1 DEF Advanced
    <1>3. ASSUME NEW m, NEW l
          PROVE  /\ Sealed(writeState[Server], <<m>>) = <<Plain(m)>>
                 /\ Sealed(writeState[Server], <<m, l>>) =
                       <<Plain(m), Plain(l)>>
        <2>1. \A state, x, y : state.key = NoKey =>
                 /\ Sealed(state, <<x>>) = <<Plain(x)>>
                 /\ Sealed(state, <<x, y>>) = <<Plain(x), Plain(y)>>
            BY SealedOnce
        <2> QED
            BY <1>1, <2>1
    <1> QED
        BY <1>2, <1>3

\* The server got the first hello.
LEMMA GreetingArrives ==
    ASSUME Inv, Undisturbed, Receives(Server, "wait_hello", "client_hello")
    PROVE  /\ HelloSent /\ at[Server] = "wait_hello"
           /\ Upcoming(Server).msg = FirstHello /\ Upcoming(Server).intact
           /\ Hashed(Server, FirstHello) = Greeted
           /\ BinderVerifies(FirstHello)
           /\ wire'[Client] = <<>> /\ wire'[Server] = <<>>
           /\ broken' = broken
    <1>1. at[Server] = "wait_hello" /\ Incoming(Server) /\ Take(Server) /\ Maps
        BY DEF Receives, Inv, Shape
    <1>2. HelloSent /\ Upcoming(Server) = Greeting1
        BY <1>1, ServerNext
    <1>3. Upcoming(Server).msg = FirstHello /\ Upcoming(Server).intact
        BY <1>2, RecordFacts DEF PlainRecord
    <1>4. hash[Server] = <<>>
        BY <1>1 DEF Undisturbed, ServerBegun
    <1>5. Hashed(Server, FirstHello) = Greeted
        BY <1>3, <1>4, Appends DEF Hashed, Greeted, Seen
    <1>6. BinderVerifies(FirstHello)
        BY <1>3, <1>4 DEF BinderVerifies, FirstHello
    <1>7. wire'[Client] = <<>> /\ wire'[Server] = <<>> /\ broken' = broken
        BY <1>1, <1>2, TakeFacts, HeadTail DEF HelloSent, Peer
    <1> QED
        BY <1>1, <1>2, <1>3, <1>5, <1>6, <1>7

\* What the answer to the hello m is, when m is the one the settings make.
LEMMA AnswerFacts ==
    ASSUME Inv, Undisturbed, at[Server] \in Choosing, NEW m,
           Answer(m), SharedGroup(m) = Group(server.groups),
           m.psk = client.ticket, ServerScheme(m) = ServerScheme(client),
           Append(Hashed(Server, m), Seen(Settled)) = Met
    PROVE  /\ at'[Server] = "send_answer"
           /\ out'[Server] \in {<<Answer1>>, <<Answer1, Ccs>>}
           /\ hash'[Server] = Met
           /\ hello'[Server] = m /\ hello'[Client] = hello[Client]
           /\ DOMAIN hello' = Ends
           /\ choice'[Server].group = Group(server.groups)
           /\ choice'[Server].scheme = Scheme
           /\ choice'[Server].request = Requests
    <1> DEFINE sh == [type |-> "server_hello", group |-> SharedGroup(m),
                      psk |-> m.psk = "good"]
               msgs == IF ccsSent[Server] THEN <<sh>>
                       ELSE <<sh, Simple("ccs")>>
    <1>0. Maps
        BY DEF Inv, Shape
    <1>1. sh = Settled /\ (m.psk = "good") = Resumes
        BY DEF Settled, Resumes
    <1>2. Send(Server, writeState[Server], msgs, "send_answer")
        BY DEF Answer
    <1>3. /\ at'[Server] = "send_answer"
          /\ out'[Server] = Sealed(writeState[Server], msgs)
        BY <1>0, <1>2, SendFacts
    <1>4. /\ Sealed(writeState[Server], <<Settled>>) = <<Answer1>>
          /\ Sealed(writeState[Server], <<Settled, Simple("ccs")>>) =
                <<Answer1, Ccs>>
        BY ServerPlain DEF Answer1, Ccs
    <1>5. out'[Server] \in {<<Answer1>>, <<Answer1, Ccs>>}
        BY <1>1, <1>3, <1>4
    <1>6. hash'[Server] = Met
        BY <1>0, <1>1 DEF Answer, Maps
    <1>7. /\ hello'[Server] = m /\ hello'[Client] = hello[Client]
          /\ DOMAIN hello' = Ends
        BY DEF Answer, Undisturbed
    <1>8. choice'[Server] =
             [group |-> SharedGroup(m), psk |-> Resumes,
              scheme |-> IF Resumes THEN "none" ELSE ServerScheme(m),
              request |-> server.reqCert /\ ~Resumes]
        BY <1>0, <1>1 DEF Answer, Maps
    <1> QED
        BY <1>3, <1>5, <1>6, <1>7, <1>8 DEF Scheme, Requests

\* Only ends that do not fit get a proof that is wrong, or none.
LEMMA OutcomesRight ==
    ASSUME Maps, hello[Server].shares[1] = FirstShare,
           choice[Server].group = Group(server.groups),
           choice[Server].scheme = Scheme
    PROVE  Outcomes # {"right"} => Blame
    <1>1. SUFFICES ASSUME ~Blame PROVE Outcomes = {"right"}
        OBVIOUS
    <1>2. Compatible
        BY <1>1 DEF Blame
    <1>3. CASE Scheme # "dvnizk_ed25519"
        BY <1>3 DEF Outcomes
    <1>4. CASE Scheme = "dvnizk_ed25519"
        <2>1. ~Resumes /\ ServerScheme(client) = "dvnizk_ed25519"
            BY <1>4 DEF Scheme
        <2>2. FirstShare = "x25519" /\ Group(server.groups) = "x25519"
            BY <1>2, <2>1 DEF Compatible
        <2> QED
            BY <1>4, <2>2 DEF Outcomes, Proofs
    <1> QED
        BY <1>3, <1>4

LEMMA ReadHelloGoes ==
    ASSUME Inv, Undisturbed, ReadHello
    PROVE  Undisturbed'
    <1>1. ServerSteps /\ Maps
        BY DEF ServerSteps, Inv, Shape
    <1>2. Receives(Server, "wait_hello", "client_hello")
        BY DEF ReadHello
    <1>3. /\ HelloSent /\ at[Server] = "wait_hello"
          /\ Upcoming(Server).msg = FirstHello
          /\ Hashed(Server, FirstHello) = Greeted
          /\ wire'[Client] = <<>> /\ wire'[Server] = <<>>
          /\ broken' = broken
        BY <1>2, GreetingArrives
    <1>4. SharedGroup(FirstHello) # "none" /\ Answer(FirstHello)
        BY <1>3 DEF ReadHello
    <1>5. ~Retries /\ SharedGroup(FirstHello) = Group(server.groups)
        BY <1>1, <1>4, FirstHelloRead, ShareRight DEF Retries
    <1>6. /\ FirstHello.psk = client.ticket
          /\ ServerScheme(FirstHello) = ServerScheme(client)
          /\ Append(Hashed(Server, FirstHello), Seen(Settled)) = Met
        BY <1>1, <1>3, <1>5, Typed, FirstHelloRead DEF Met
    <1>7. /\ at'[Server] = "send_answer"
          /\ out'[Server] \in {<<Answer1>>, <<Answer1, Ccs>>}
          /\ hash'[Server] = Met
          /\ hello'[Server] = FirstHello /\ hello'[Client] = hello[Client]
          /\ DOMAIN hello' = Ends
          /\ choice'[Server].group = Group(server.groups)
          /\ choice'[Server].scheme = Scheme
          /\ choice'[Server].request = Requests
        BY <1>3, <1>4, <1>5, <1>6, AnswerFacts DEF Choosing
    <1>8. Maps' /\ setup' = setup
        BY <1>1, MapsStep, ServerFrame DEF Next
    <1>9. (Outcomes # {"right"} => Blame)'
        <2>1. FirstHello.shares[1] = FirstShare
            BY <1>1, <1>5, ShareRight, Typed
        <2>2. /\ FirstShare' = FirstShare
              /\ Group(server.groups)' = Group(server.groups)
            BY <1>8 DEF FirstShare, Group, SharedGroup, client, server
        <2>3. Scheme' = Scheme
            BY <1>8, Primes
        <2>4. /\ Maps' /\ (hello[Server].shares[1] = FirstShare)'
              /\ (choice[Server].group = Group(server.groups))'
              /\ (choice[Server].scheme = Scheme)'
            BY <1>7, <1>8, <2>1, <2>2, <2>3
        <2> QED
            BY <2>4, OutcomesRight, PTL
    <1>10. AnswerOut'
        BY <1>1, <1>3, <1>5, <1>7, <1>9, Primes, ServerFrame
        DEF AnswerOut, Listening, HelloSent
    <1>11. sockOpen' = sockOpen
        BY DEF ReadHello, endVars
    <1>12. ServerBegun'
        <2>1. readState'[Server] = readState[Server]
            BY DEF ReadHello
        <2> QED
            BY <1>3, <1>7, <2>1 DEF Undisturbed, ServerBegun, Choosing
    <1> QED
        BY <1>1, <1>3, <1>7, <1>10, <1>11, <1>12, ServerFrame, ServerGoes
        DEF Situation, Aborting

LEMMA ReadHelloRetryingGoes ==
    ASSUME Inv, Undisturbed, ReadHelloRetrying
    PROVE  Undisturbed'
    <1>1. ServerSteps /\ Maps
        BY DEF ServerSteps, Inv, Shape
    <1>2. Receives(Server, "wait_hello", "client_hello")
        BY DEF ReadHelloRetrying
    <1>3. /\ HelloSent /\ at[Server] = "wait_hello"
          /\ Upcoming(Server).msg = FirstHello
          /\ Hashed(Server, FirstHello) = Greeted
          /\ wire'[Client] = <<>> /\ wire'[Server] = <<>>
          /\ broken' = broken
        BY <1>2, GreetingArrives
    <1>4. [type |-> "retry", group |-> RetryGroup(FirstHello)] = Retry
        BY <1>1, FirstHelloRead DEF Retry
    <1>5. /\ SharedGroup(FirstHello) = "none" /\ Retry.group # "none"
          /\ Send(Server, writeState[Server], <<Retry, Simple("ccs")>>,
                  "send_retry")
          /\ hash' = [hash EXCEPT ![Server] = Append(Greeted, Seen(Retry))]
          /\ hello' = [hello EXCEPT ![Server] = FirstHello]
          /\ choice' = [choice EXCEPT ![Server].group = Retry.group]
        BY <1>3, <1>4 DEF ReadHelloRetrying
    <1>6. Retries
        BY <1>1, <1>5, FirstHelloRead DEF Retries
    <1>7. at'[Server] = "send_retry" /\ out'[Server] = <<RetryR, Ccs>>
        BY <1>1, <1>3, <1>5, ServerPlain, SendFacts DEF Choosing, RetryR, Ccs
    <1>8. hash'[Server] = Retried
        BY <1>1, <1>5 DEF Maps, Retried
    <1>9. choice'[Server].group = Retry.group
        <2>1. IsChoice(choice[Server])
            BY DEF Inv, Shape
        <2>2. choice'[Server] = [choice[Server] EXCEPT !.group = Retry.group]
            BY <1>1, <1>5 DEF Maps
        <2> QED
            BY <2>1, <2>2 DEF IsChoice
    <1>10. hello'[Client] = hello[Client] /\ DOMAIN hello' = Ends
        BY <1>5 DEF Undisturbed
    <1>11. RetryOut'
        BY <1>1, <1>3, <1>5, <1>6, <1>7, <1>8, <1>9, Primes, ServerFrame
        DEF RetryOut, HelloSent
    <1>12. sockOpen' = sockOpen /\ readState' = readState
        BY DEF ReadHelloRetrying, endVars
    <1>13. ServerBegun'
        BY <1>3, <1>7, <1>12 DEF Undisturbed, ServerBegun, Choosing
    <1> QED
        BY <1>1, <1>3, <1>7, <1>10, <1>11, <1>12, <1>13, ServerFrame, ServerGoes
        DEF Situation, Aborting

\* The server only refuses the hello of an end that does not fit.
LEMMA RefuseHelloGoes ==
    ASSUME Inv, Undisturbed, RefuseHello
    PROVE  Undisturbed'
    <1>1. ServerSteps /\ Maps
        BY DEF ServerSteps, Inv, Shape
    <1>2. Receives(Server, "wait_hello", "client_hello")
        BY DEF RefuseHello
    <1>3. /\ HelloSent /\ at[Server] = "wait_hello"
          /\ Upcoming(Server).msg = FirstHello
          /\ BinderVerifies(FirstHello)
          /\ wire'[Client] = <<>> /\ wire'[Server] = <<>>
          /\ broken' = broken
        BY <1>2, GreetingArrives
    <1>4. \/ ServerScheme(client) = "none"
          \/ SharedGroup(client) = "none" /\ RetryGroup(client) = "none"
        BY <1>1, <1>3, FirstHelloRead DEF RefuseHello
    <1>5. Blame
        BY <1>4 DEF Blame, Compatible, Group, SharedGroup, RetryGroup
    <1>6. at'[Server] = "send_alert" /\ out'[Server] = <<Alert>>
        BY <1>1, <1>3, ServerPlain, SendFacts
        DEF RefuseHello, SendError, Choosing, Alert
    <1>7. RefusalOut'
        BY <1>1, <1>3, <1>6, Primes, ServerFrame DEF RefusalOut, HelloSent
    <1>8. sockOpen' = sockOpen /\ hello' = hello
        BY DEF RefuseHello, endVars, talkVars
    <1>9. ServerBegun'
        BY <1>6 DEF ServerBegun, Choosing
    <1> QED
        BY <1>1, <1>3, <1>5, <1>7, <1>8, <1>9, ServerFrame, ServerGoes
        DEF Situation, Undisturbed

LEMMA RetrySentGoes ==
    ASSUME Inv, Undisturbed, RetrySent
    PROVE  Undisturbed'
    <1>1. ServerSteps /\ Maps
        BY DEF ServerSteps, Inv, Shape
    <1>2. Sent(Server, "send_retry") /\ Goto(Server, "wait_second")
        BY DEF RetrySent
    <1>3. /\ at[Server] = "send_retry" /\ at'[Server] = "wait_second"
          /\ broken' = broken
        BY <1>1, <1>2, SentFacts, GotoStep
    <1>4. RetryOut
        BY <1>3, Located DEF Undisturbed
    <1>5. wire'[Server] = <<RetryR, Ccs>> /\ wire'[Client] = <<>>
        <2>1. /\ wire'[Client] = wire[Client]
              /\ wire'[Server] = <<>> \o <<RetryR, Ccs>>
            BY <1>1, <1>2, <1>4, SentFacts DEF RetryOut, Peer
        <2> QED
            BY <1>4, <2>1, TwoMessages, Concats DEF RetryOut
    <1>6. UNCHANGED <<hash, hello, choice, readState, sockOpen>>
        BY DEF RetrySent, keyVars, endVars
    <1>7. RetryUnread'
        BY <1>1, <1>3, <1>4, <1>5, <1>6, Primes, ServerFrame
        DEF RetryUnread, RetryOut
    <1>8. ServerBegun'
        BY <1>3, <1>6 DEF Undisturbed, ServerBegun, Choosing
    <1> QED
        BY <1>1, <1>3, <1>6, <1>7, <1>8, ServerFrame, ServerGoes
        DEF Situation, Aborting, Undisturbed

\* The server got the second hello, which is as it asked for.
LEMMA SecondArrives ==
    ASSUME Inv, Undisturbed, Receives(Server, "wait_second", "client_hello")
    PROVE  /\ SecondUnread /\ at[Server] = "wait_second"
           /\ at[Client] = "wait_retry"
           /\ Upcoming(Server).msg = Second
           /\ Repeats(Second)
           /\ Second.psk = "good" => BinderVerifies(Second)
           /\ Hashed(Server, Second) = GreetedAgain
           /\ wire'[Client] = <<>> /\ wire'[Server] \in {<<Ccs>>, <<>>}
           /\ broken' = broken
    <1>1. at[Server] = "wait_second" /\ Incoming(Server) /\ Take(Server) /\ Maps
          /\ Upcoming(Server).msg.type = "client_hello"
        BY DEF Receives, Inv, Shape
    <1>2. Upcoming(Server) # Ccs
        BY <1>1, RecordFacts DEF PlainRecord
    <1>3. SecondUnread /\ Upcoming(Server) = Greeting2
        BY <1>1, <1>2, ServerNext
    <1>4. Upcoming(Server).msg = Second /\ Upcoming(Server).intact
        BY <1>3, RecordFacts DEF PlainRecord
    <1>5. /\ Retries /\ Retry.group # "none" /\ hash[Server] = Retried
          /\ choice[Server].group = Retry.group
          /\ at[Client] = "wait_retry"
          /\ wire[Server] \in {<<Ccs>>, <<>>}
          /\ wire[Client] \in {<<Ccs, Greeting2>>, <<Greeting2>>}
        BY <1>3 DEF SecondUnread
    <1>6. wire[Client] = <<Greeting2>>
        BY <1>2, <1>5, HeadTail DEF Upcoming, Peer
    <1>7. hash[Server][1].intact
        <2>1. Retried = <<Seen(FirstHello), Seen(Retry)>>
            BY Appends DEF Retried, Greeted
        <2>2. Retried[1] = Seen(FirstHello)
            BY <2>1
        <2> QED
            BY <1>5, <2>2 DEF Seen
    <1>8. Repeats(Second)
        BY <1>1, <1>4, <1>5, <1>7, RetryRight DEF Repeats, AnswersRetry
    <1>9. Second.psk = "good" => BinderVerifies(Second)
        BY <1>1, <1>4, <1>5, RetryRight DEF BinderVerifies
    <1>10. Hashed(Server, Second) = GreetedAgain
        BY <1>4, <1>5 DEF Hashed, GreetedAgain, Seen
    <1>11. /\ wire'[Client] = <<>> /\ wire'[Server] \in {<<Ccs>>, <<>>}
           /\ broken' = broken
        BY <1>1, <1>5, <1>6, TakeFacts, HeadTail DEF Peer
    <1> QED
        BY <1>1, <1>3, <1>4, <1>5, <1>8, <1>9, <1>10, <1>11

LEMMA RefuseSecondHelloNot ==
    ASSUME Inv, Undisturbed
    PROVE  ~RefuseSecondHello
    BY SecondArrives DEF RefuseSecondHello

LEMMA ReadSecondHelloGoes ==
    ASSUME Inv, Undisturbed, ReadSecondHello
    PROVE  Undisturbed'
    <1>1. ServerSteps /\ Maps
        BY DEF ServerSteps, Inv, Shape
    <1>2. Receives(Server, "wait_second", "client_hello")
        BY DEF ReadSecondHello
    <1>3. /\ SecondUnread /\ at[Server] = "wait_second"
          /\ at[Client] = "wait_retry"
          /\ Upcoming(Server).msg = Second
          /\ Hashed(Server, Second) = GreetedAgain
          /\ wire'[Client] = <<>> /\ wire'[Server] \in {<<Ccs>>, <<>>}
          /\ broken' = broken
        BY <1>2, SecondArrives
    <1>4. Answer(Second)
        BY <1>3 DEF ReadSecondHello
    <1>5. Retries /\ Retry.group # "none"
        BY <1>3 DEF SecondUnread
    <1>6. /\ SharedGroup(Second) = Group(server.groups)
          /\ Second.psk = client.ticket
          /\ ServerScheme(Second) = ServerScheme(client)
          /\ Second.shares = <<Retry.group>> /\ FirstShare = Retry.group
        BY <1>1, <1>5, RetryRight
    <1>7. Append(Hashed(Server, Second), Seen(Settled)) = Met
        BY <1>3, <1>5 DEF Met
    <1>8. /\ at'[Server] = "send_answer"
          /\ out'[Server] \in {<<Answer1>>, <<Answer1, Ccs>>}
          /\ hash'[Server] = Met
          /\ hello'[Server] = Second /\ hello'[Client] = hello[Client]
          /\ DOMAIN hello' = Ends
          /\ choice'[Server].group = Group(server.groups)
          /\ choice'[Server].scheme = Scheme
          /\ choice'[Server].request = Requests
        BY <1>3, <1>4, <1>6, <1>7, AnswerFacts DEF Choosing
    <1>9. Maps' /\ setup' = setup
        BY <1>1, MapsStep, ServerFrame DEF Next
    <1>10. (Outcomes # {"right"} => Blame)'
        <2>1. Second.shares[1] = FirstShare
            BY <1>6
        <2>2. /\ FirstShare' = FirstShare
              /\ Group(server.groups)' = Group(server.groups)
            BY <1>9 DEF FirstShare, Group, SharedGroup, client, server
        <2>3. Scheme' = Scheme
            BY <1>9, Primes
        <2>4. /\ Maps' /\ (hello[Server].shares[1] = FirstShare)'
              /\ (choice[Server].group = Group(server.groups))'
              /\ (choice[Server].scheme = Scheme)'
            BY <1>8, <1>9, <2>1, <2>2, <2>3
        <2> QED
            BY <2>4, OutcomesRight, PTL
    <1>11. AnswerOut'
        BY <1>1, <1>3, <1>5, <1>8, <1>10, Primes, ServerFrame
        DEF AnswerOut, Listening
    <1>12. sockOpen' = sockOpen /\ readState' = readState
        BY DEF ReadSecondHello, endVars
    <1>13. ServerBegun'
        BY <1>3, <1>8, <1>12 DEF Undisturbed, ServerBegun, Choosing
    <1> QED
        BY <1>1, <1>3, <1>8, <1>11, <1>12, <1>13, ServerFrame, ServerGoes
        DEF Situation, Aborting

\* The ServerHello went out.
LEMMA AnswerLeaves ==
    ASSUME Inv, Undisturbed, Sent(Server, "send_answer")
    PROVE  /\ AnswerOut /\ at[Server] = "send_answer"
           /\ wire'[Client] = <<>> /\ wire'[Server] \in Hellos
           /\ broken' = broken
    <1>1. Maps /\ Situation
        BY DEF Inv, Shape, Undisturbed
    <1>2. /\ at[Server] = "send_answer" /\ broken' = broken
          /\ wire'[Client] = wire[Client]
        BY <1>1, SentFacts DEF Peer
    <1>3. AnswerOut
        BY <1>1, <1>2, Located
    <1>4. at[Client] \in {"wait_hello", "wait_retry"} /\ wire[Client] = <<>>
        BY <1>3 DEF AnswerOut, Listening
    <1>5. wire'[Server] = wire[Server] \o out[Server]
        BY <1>1, <1>4, SentFacts DEF Peer
    <1>6. IsSeq(<<Answer1>>) /\ IsSeq(<<Answer1, Ccs>>) /\ IsSeq(<<Ccs>>)
        BY OneMessage, TwoMessages
    <1>7. /\ <<>> \o <<Answer1>> = <<Answer1>>
          /\ <<>> \o <<Answer1, Ccs>> = <<Answer1, Ccs>>
        BY <1>6, Concats
    <1>8. /\ <<Ccs>> \o <<Answer1>> = <<Ccs, Answer1>>
          /\ <<Ccs>> \o <<Answer1, Ccs>> = <<Ccs, Answer1, Ccs>>
        <2>1. /\ <<Ccs>> \o <<Answer1>> = Append(<<Ccs>>, Answer1)
              /\ <<Ccs>> \o <<Answer1, Ccs>> =
                    Append(Append(<<Ccs>>, Answer1), Ccs)
            BY <1>6, Concats
        <2>2. /\ Append(<<Ccs>>, Answer1) = <<Ccs, Answer1>>
              /\ Append(<<Ccs, Answer1>>, Ccs) = <<Ccs, Answer1, Ccs>>
            BY Appends
        <2> QED
            BY <2>1, <2>2
    <1>9. \/ at[Client] = "wait_hello" /\ wire[Server] = <<>>
          \/ at[Client] = "wait_retry" /\ wire[Server] \in {<<>>, <<Ccs>>}
        BY <1>3 DEF AnswerOut
    <1>10. out[Server] = <<Answer1>> \/ out[Server] = <<Answer1, Ccs>>
        BY <1>3 DEF AnswerOut
    <1>11. wire'[Server] \in Hellos
        <2>1. CASE at[Client] = "wait_hello"
            BY <1>5, <1>7, <1>9, <1>10, <2>1 DEF Hellos
        <2>2. CASE at[Client] = "wait_retry"
            BY <1>5, <1>7, <1>8, <1>9, <1>10, <2>2 DEF Hellos
        <2> QED
            BY <1>4, <2>1, <2>2
    <1> QED
        BY <1>2, <1>3, <1>4, <1>11

\* What the client waits for stays the same while the server sends.
LEMMA ListensOn ==
    ASSUME Inv, ServerSteps, Listening, wire'[Client] = <<>>
    PROVE  Listening' /\ Hellos' = Hellos
    <1>1. /\ at'[Client] = at[Client] /\ Retries' = Retries
          /\ Answer1' = Answer1 /\ Ccs' = Ccs
        BY ServerFrame, Primes
    <1>2. Hellos' = Hellos
        BY <1>1 DEF Hellos
    <1> QED
        BY <1>1, <1>2 DEF Listening

LEMMA AnswerSentGoes ==
    ASSUME Inv, Undisturbed, AnswerSent
    PROVE  Undisturbed'
    <1>1. ServerSteps /\ Maps
        BY DEF ServerSteps, Inv, Shape
    <1>2. Sent(Server, "send_answer")
        BY DEF AnswerSent
    <1>3. /\ AnswerOut /\ at[Server] = "send_answer"
          /\ wire'[Client] = <<>> /\ wire'[Server] \in Hellos
          /\ broken' = broken
        BY <1>2, AnswerLeaves
    <1>4. /\ Listening /\ hash[Server] = Met
          /\ choice[Server].scheme = Scheme
          /\ choice[Server].request = Requests
          /\ Outcomes # {"right"} => Blame
        BY <1>3 DEF AnswerOut
    <1>5. PICK outcome \in Outcomes \ {"crash"} :
          LET keys == CalcPending("hs", hash[Server])
              m == Flight(outcome = "right")
          IN  /\ Send(Server, keys.write, <<m>>, "send_flight")
              /\ pending' = [pending EXCEPT ![Server] =
                                [keys EXCEPT !.write = NoState]]
              /\ hash' = [hash EXCEPT ![Server] = Append(@, Seen(m))]
        BY DEF AnswerSent
    <1> DEFINE right == outcome = "right"
    <1>6. right \in BOOLEAN
        OBVIOUS
    <1>7. right \/ Blame
        BY <1>4, <1>5
    <1>8. Flight(right) = FlightOf[right]
        BY <1>4, <1>6 DEF Flight, FlightOf
    <1>9. CalcPending("hs", hash[Server]) =
             [read |-> Numbered(HsKey, 0), write |-> Numbered(HsKey, 0)]
        BY <1>4, KeysApart DEF CalcPending
    <1> HIDE DEF right
    <1>10. /\ Send(Server, Numbered(HsKey, 0), <<FlightOf[right]>>,
                   "send_flight")
           /\ pending'[Server].read = Numbered(HsKey, 0)
           /\ hash'[Server] = Append(Met, Seen(FlightOf[right]))
        BY <1>1, <1>4, <1>5, <1>8, <1>9 DEF Maps, right
    <1>11. Sealed(Numbered(HsKey, 0), <<FlightOf[right]>>) = <<FlightR[right]>>
        <2>1. FlightOf[right].type # "ccs"
            BY <1>6 DEF FlightOf
        <2> QED
            BY <1>6, <2>1, SealedOnce, KeysApart DEF FlightR
    <1>12. at'[Server] = "send_flight" /\ out'[Server] = <<FlightR[right]>>
        BY <1>1, <1>10, <1>11, SendFacts
    <1>13. UNCHANGED <<hello, choice, sockOpen>>
        BY DEF AnswerSent, endVars
    <1>14. Listening' /\ Hellos' = Hellos
        BY <1>1, <1>3, <1>4, ListensOn
    <1>15. FlightOut(right)'
        <2>1. /\ FlightR' = FlightR /\ Blame' = Blame /\ Met' = Met
              /\ FlightOf' = FlightOf /\ Requests' = Requests
              /\ HsKey' = HsKey
            BY <1>1, ServerFrame, Primes
        <2> QED
            BY <1>3, <1>4, <1>7, <1>10, <1>12, <1>13, <1>14, <2>1
            DEF FlightOut, Numbered
    <1>16. Situation'
        BY <1>6, <1>15 DEF Situation
    <1>17. ServerBegun'
        BY <1>12 DEF ServerBegun, Choosing
    <1> QED
        BY <1>1, <1>3, <1>12, <1>13, <1>16, <1>17, ServerFrame, ServerGoes
        DEF Aborting, Undisturbed

\* The server only gives up making a proof for ends that do not fit.
LEMMA CannotProveGoes ==
    ASSUME Inv, Undisturbed, CannotProve
    PROVE  Undisturbed'
    <1>1. ServerSteps /\ Maps
        BY DEF ServerSteps, Inv, Shape
    <1>2. Sent(Server, "send_answer") /\ Fail(Server) /\ "crash" \in Outcomes
        BY DEF CannotProve
    <1>3. /\ AnswerOut /\ at[Server] = "send_answer"
          /\ wire'[Client] = <<>> /\ wire'[Server] \in Hellos
          /\ broken' = broken
        BY <1>2, AnswerLeaves
    <1>4. Blame /\ Listening
        BY <1>2, <1>3 DEF AnswerOut
    <1>5. Listening' /\ Hellos' = Hellos
        BY <1>1, <1>3, <1>4, ListensOn
    <1>6. at'[Server] = "failed"
        BY <1>1, <1>2, GotoStep DEF Fail
    <1>7. Unproven'
        BY <1>3, <1>5, <1>6 DEF Unproven
    <1> QED
        BY <1>2, <1>3, <1>4, <1>7, EndFails DEF Situation

LEMMA FlightSentGoes ==
    ASSUME Inv, Undisturbed, FlightSent
    PROVE  Undisturbed'
    <1>1. ServerSteps /\ Maps
        BY DEF ServerSteps, Inv, Shape
    <1>2. Sent(Server, "send_flight")
        BY DEF FlightSent
    <1>3. /\ at[Server] = "send_flight" /\ broken' = broken
          /\ wire'[Client] = wire[Client]
        BY <1>1, <1>2, SentFacts DEF Peer
    <1>4. PICK right \in BOOLEAN : FlightOut(right)
        BY <1>3, Located DEF Undisturbed
    <1>5. /\ Listening /\ wire[Server] \in Hellos
          /\ out[Server] = <<FlightR[right]>>
          /\ right \/ Blame
          /\ hash[Server] = Append(Met, Seen(FlightOf[right]))
          /\ choice[Server].request = Requests
          /\ pending[Server].read = Numbered(HsKey, 0)
        BY <1>4 DEF FlightOut
    <1>6. wire'[Client] = <<>> /\ at[Client] # "failed"
        BY <1>3, <1>5 DEF Listening
    <1>7. wire'[Server] = Append(wire[Server], FlightR[right])
        <2>1. wire'[Server] = wire[Server] \o <<FlightR[right]>>
            BY <1>1, <1>2, <1>5, <1>6, SentFacts DEF Peer
        <2> QED
            BY <1>5, <2>1, HelloNext, Concats
    <1>8. Listening' /\ Hellos' = Hellos
        BY <1>1, <1>5, <1>6, ListensOn
    <1>9. at'[Server] = IF Requests THEN "wait_cert" ELSE "wait_finished"
        BY <1>1, <1>5, GotoStep DEF FlightSent
    <1>10. readState'[Server] = Numbered(HsKey, 0)
        BY <1>1, <1>5 DEF FlightSent, Maps
    <1>11. right => /\ writeState'[Server] = Numbered(AppKey, 0)
                    /\ pending'[Server].read = Numbered(AppKey, 0)
        <2>1. ASSUME right
              PROVE  hash[Server] = Proven
            BY <1>5, <2>1 DEF Proven
        <2>2. /\ writeState'[Server] = KeyedBy("app", hash[Server])
              /\ pending'[Server].read = KeyedBy("app", hash[Server])
            BY <1>1 DEF FlightSent, CalcPending, Maps
        <2> QED
            BY <2>1, <2>2, KeysApart
    <1>12. hello' = hello /\ sockOpen' = sockOpen
        BY DEF FlightSent, endVars
    <1>13. FlightUnread(right)'
        <2>1. /\ FlightR' = FlightR /\ Blame' = Blame /\ HsKey' = HsKey
              /\ Requests' = Requests /\ AppKey' = AppKey
            BY <1>1, ServerFrame, Primes
        <2>2. Checks0'
            BY <1>9, <1>10, <2>1 DEF Checks0, Numbered
        <2>3. (IF right THEN Switches ELSE Blame)'
            BY <1>5, <1>11, <2>1 DEF Switches, Numbered
        <2>4. \E h \in Hellos' : wire'[Server] = Append(h, FlightR[right])
            BY <1>5, <1>7, <1>8
        <2>5. (\E h \in Hellos : wire[Server] = Append(h, FlightR[right]))'
            BY <2>1, <2>4
        <2> QED
            BY <1>8, <2>2, <2>3, <2>5 DEF FlightUnread
    <1>14. Situation'
        BY <1>13 DEF Situation
    <1>15. ServerBegun'
        BY <1>9 DEF ServerBegun, Choosing
    <1> QED
        BY <1>1, <1>3, <1>9, <1>12, <1>14, <1>15, ServerFrame, ServerGoes
        DEF Aborting, Undisturbed

\* What follows the client's handshake on its wire, while the server reads.
LEMMA OverKept ==
    ASSUME Stays(Client), setup' = setup, wire'[Client] = wire[Client],
           NEW x, NEW n, ClientOver(x, n)
    PROVE  ClientOver(x, n)'
    <1>1. AppKey' = AppKey /\ AlertR' = AlertR
        BY Primes
    <1>2. /\ at'[Client] = at[Client] /\ out'[Client] = out[Client]
          /\ writeState'[Client] = writeState[Client]
        BY DEF Stays
    <1>3. Runs(wire[Client], x, n)'
        BY <1>1 DEF ClientOver, Runs
    <1> QED
        BY <1>1, <1>2, <1>3 DEF ClientOver, Numbered

LEMMA OverTail ==
    ASSUME Stays(Client), setup' = setup,
           wire'[Client] = Tail(wire[Client]),
           NEW x, IsSeq(x), x # <<>>, NEW n \in Nat, ClientOver(x, n)
    PROVE  ClientOver(Tail(x), n)'
    <1> DEFINE w == wire[Client]
               y == Tail(x)
    <1>1. AppKey' = AppKey /\ AlertR' = AlertR
        BY Primes
    <1>2. /\ at'[Client] = at[Client] /\ out'[Client] = out[Client]
          /\ writeState'[Client] = writeState[Client]
        BY DEF Stays
    <1>3. Runs(w, x, n) /\ IsSeq(w)
        BY DEF ClientOver, Runs
    <1>4. /\ w # <<>> /\ Runs(Tail(w), y, n)
          /\ Len(Tail(w)) - Len(y) = Len(w) - Len(x)
        BY <1>3, RunsTail
    <1>5. /\ IsSeq(Tail(w)) /\ Len(Tail(w)) = Len(w) - 1
          /\ \A i \in 1..(Len(w) - 1) : Tail(w)[i] = w[i + 1]
          /\ Len(w) \in Nat \ {0}
        BY <1>3, <1>4, TailOf
    <1>6. Len(y) = Len(x) - 1 /\ Len(x) \in Nat \ {0}
        BY TailOf
    <1>7. Runs(wire[Client], y, n)'
        BY <1>1, <1>4 DEF Runs
    <1>8. CASE /\ at[Client] = "done"
               /\ writeState[Client] = Numbered(AppKey, n + Len(w) - Len(x))
        <2>1. n + Len(w) - Len(x) = n + Len(Tail(w)) - Len(y)
            BY <1>5, <1>6
        <2> QED
            BY <1>1, <1>2, <1>7, <1>8, <2>1 DEF ClientOver, Numbered
    <1>9. CASE /\ at[Client] = "send_reject" /\ n = 0 /\ Len(w) = Len(x)
               /\ out[Client] = <<AlertR>>
        BY <1>1, <1>2, <1>5, <1>6, <1>7, <1>9 DEF ClientOver
    <1>10. CASE /\ at[Client] = "failed" /\ n = 0 /\ Len(w) = Len(x) + 1
                /\ w[Len(x) + 1].msg.type = "alert"
        <2>1. Len(Tail(w)) = Len(y) + 1 /\ Tail(w)[Len(y) + 1] = w[Len(x) + 1]
            BY <1>5, <1>6, <1>10
        <2> QED
            BY <1>1, <1>2, <1>7, <1>10, <2>1 DEF ClientOver
    <1> QED
        BY <1>8, <1>9, <1>10 DEF ClientOver

\* The server goes on to the next record of the client's answer.
LEMMA AnswerRead ==
    ASSUME Undisturbed, Stays(Client), setup' = setup, ServerReads',
           wire'[Client] = Tail(wire[Client]), wire'[Server] = wire[Server],
           Unchecked # <<>>, Unchecked' = Tail(Unchecked)
    PROVE  (FinishedOut => FinishedOut') /\ (Ending => Ending')
    <1>1. /\ Ccs' = Ccs /\ FinR' = FinR /\ AppKey' = AppKey
        BY Primes
    <1>2. /\ at'[Client] = at[Client] /\ out'[Client] = out[Client]
          /\ readState'[Client] = readState[Client]
          /\ pending'[Client] = pending[Client]
        BY DEF Stays
    <1>3. ASSUME FinishedOut
          PROVE  FinishedOut'
        BY <1>1, <1>2, <1>3 DEF FinishedOut, Numbered
    <1>4. ASSUME Ending
          PROVE  Ending'
        <2>1. PICK x \in Unread : ClientOver(x, 0)
            BY <1>4 DEF Ending
        <2>2. IsSeq(x) /\ x # <<>> /\ Tail(x) \in Finishing(Tail(Unchecked))
            BY <2>1, UncheckedFacts, UnreadFacts DEF Unread
        <2>3. ClientOver(Tail(x), 0)'
            BY <2>1, <2>2, OverTail
        <2>4. Unread' = Finishing(Tail(Unchecked))
            BY <1>1 DEF Unread, Finishing
        <2>5. (\E z \in Unread : ClientOver(z, 0))'
            BY <2>2, <2>3, <2>4
        <2> QED
            BY <1>1, <1>2, <1>4, <2>5 DEF Ending, Numbered
    <1> QED
        BY <1>3, <1>4

LEMMA ReadCertificateGoes ==
    ASSUME Inv, Undisturbed, ReadCertificate
    PROVE  Undisturbed'
    <1>1. ServerSteps /\ Maps
        BY DEF ServerSteps, Inv, Shape
    <1>2. /\ at[Server] = "wait_cert" /\ Incoming(Server) /\ Take(Server)
          /\ Upcoming(Server).msg.type = "certificate"
        BY DEF ReadCertificate, Receives
    <1>3. Upcoming(Server) # Alert
        BY <1>2, RecordFacts DEF PlainRecord
    <1>4. /\ VerifyOut \/ Unsigned \/ FinishedOut \/ Ending
          /\ Upcoming(Server) = CertR
        BY <1>2, <1>3, ServerNext DEF Checking
    <1>5. ServerReads
        BY <1>4 DEF VerifyOut, Unsigned, FinishedOut, Ending
    <1>6. Requests /\ readState[Server] = Numbered(HsKey, 0) /\ Switches
        BY <1>2, <1>5 DEF ServerReads
    <1>7. Upcoming(Server).msg.cert = client.cert
        BY <1>4, RecordFacts
    <1>8. at'[Server] = IF Certified THEN "wait_verify" ELSE "wait_finished"
        BY <1>1, <1>7, GotoStep DEF ReadCertificate, Certified
    <1>9. readState'[Server] = Numbered(HsKey, 1)
        <2>1. readState'[Server] = Advanced(Numbered(HsKey, 0))
            BY <1>1, <1>6 DEF ReadCertificate, Maps, Counted
        <2> QED
            BY <2>1, AdvancedNumbered, KeysApart
    <1>10. UNCHANGED <<writeState, pending, hello, sockOpen>>
        BY DEF ReadCertificate, endVars
    <1>11. /\ wire'[Client] = Tail(wire[Client])
           /\ wire'[Server] = wire[Server] /\ broken' = broken
        BY <1>1, <1>2, TakeFacts DEF Peer
    <1>12. /\ HsKey' = HsKey /\ AppKey' = AppKey /\ Requests' = Requests
           /\ Certified' = Certified /\ Answered' = Answered
           /\ VerifyR' = VerifyR /\ Proven' = Proven
        BY <1>1, ServerFrame, Primes
    <1>13. ServerReads'
        BY <1>6, <1>8, <1>9, <1>10, <1>12
        DEF ServerReads, Switches, Answered, Numbered
    <1>14. Unchecked # <<>> /\ Unchecked' = Tail(Unchecked)
        <2>1. /\ Unchecked # <<>>
              /\ Tail(Unchecked) = IF Certified THEN <<VerifyR>> ELSE <<>>
            BY <1>2, UncheckedFacts
        <2> QED
            BY <1>8, <1>12, <2>1 DEF Unchecked
    <1>15. (FinishedOut => FinishedOut') /\ (Ending => Ending')
        BY <1>1, <1>11, <1>13, <1>14, ServerFrame, AnswerRead
    <1>16. CertificateGone => CertificateGone'
        <2>1. ASSUME CertificateGone
              PROVE  Certified /\ wire[Client] = <<CertR>>
            BY <1>2, <2>1 DEF CertificateGone
        <2> QED
            BY <1>6, <1>8, <1>11, <1>12, <2>1, HeadTail DEF CertificateGone
    <1>17. VerifyOut => VerifyOut'
        BY <1>1, <1>11, <1>12, <1>13, <1>16, ServerFrame
        DEF VerifyOut, Numbered
    <1>18. Unsigned => Unsigned'
        BY <1>1, <1>13, <1>16, ServerFrame DEF Unsigned
    <1>19. Situation'
        BY <1>4, <1>15, <1>17, <1>18 DEF Situation
    <1>20. ServerBegun'
        BY <1>8 DEF ServerBegun, Choosing
    <1> QED
        BY <1>1, <1>2, <1>8, <1>10, <1>11, <1>19, <1>20, ServerFrame, ServerGoes
        DEF Aborting, Undisturbed

LEMMA ReadVerifyGoes ==
    ASSUME Inv, Undisturbed, ReadVerify
    PROVE  Undisturbed'
    <1>1. ServerSteps /\ Maps
        BY DEF ServerSteps, Inv, Shape
    <1>2. /\ at[Server] = "wait_verify" /\ Incoming(Server) /\ Take(Server)
          /\ Upcoming(Server).msg.type = "certificate_verify"
        BY DEF ReadVerify, Receives
    <1>3. Upcoming(Server) # Alert
        BY <1>2, RecordFacts DEF PlainRecord
    <1>4. VerifyOut \/ Unsigned \/ FinishedOut \/ Ending
        BY <1>2, <1>3, ServerNext DEF Checking
    <1>5. ~VerifyOut /\ ~Unsigned
        BY <1>2 DEF VerifyOut, Unsigned, CertificateGone, Incoming, Peer
    <1>6. ServerReads
        BY <1>4, <1>5 DEF FinishedOut, Ending
    <1>7. /\ Requests /\ Certified /\ readState[Server] = Numbered(HsKey, 1)
          /\ Switches
        BY <1>2, <1>6 DEF ServerReads
    <1>8. at'[Server] = "wait_finished"
        BY <1>1, GotoStep DEF ReadVerify
    <1>9. readState'[Server] = Numbered(HsKey, 2)
        <2>1. readState'[Server] = Advanced(Numbered(HsKey, 1))
            BY <1>1, <1>7 DEF ReadVerify, Maps, Counted
        <2> QED
            BY <2>1, AdvancedNumbered, KeysApart
    <1>10. UNCHANGED <<writeState, pending, hello, sockOpen>>
        BY DEF ReadVerify, endVars
    <1>11. /\ wire'[Client] = Tail(wire[Client])
           /\ wire'[Server] = wire[Server] /\ broken' = broken
        BY <1>1, <1>2, TakeFacts DEF Peer
    <1>12. /\ HsKey' = HsKey /\ AppKey' = AppKey /\ Requests' = Requests
           /\ Certified' = Certified /\ Answered' = Answered
        BY <1>1, ServerFrame, Primes
    <1>13. ServerReads'
        BY <1>7, <1>8, <1>9, <1>10, <1>12
        DEF ServerReads, Switches, Answered, Numbered
    <1>14. Unchecked # <<>> /\ Unchecked' = Tail(Unchecked)
        <2>1. Unchecked = <<VerifyR>>
            BY <1>2, UncheckedFacts
        <2> QED
            BY <1>8, <2>1, HeadTail DEF Unchecked
    <1>15. (FinishedOut => FinishedOut') /\ (Ending => Ending')
        BY <1>1, <1>11, <1>13, <1>14, ServerFrame, AnswerRead
    <1>16. Situation'
        BY <1>4, <1>5, <1>15 DEF Situation
    <1>17. ServerBegun'
        BY <1>8 DEF ServerBegun, Choosing
    <1> QED
        BY <1>1, <1>2, <1>8, <1>10, <1>11, <1>16, <1>17, ServerFrame, ServerGoes
        DEF Aborting, Undisturbed

LEMMA ServerConcludesFacts ==
    ASSUME Maps, NEW k \in Nat, NEW resumption,
           Conclude(Server, Numbered(AppKey, k), resumption)
    PROVE  /\ at'[Server] \in {"done", "send_reject"}
           /\ at'[Server] = "send_reject" =>
                 Blame /\ out'[Server] = <<Under(AppKey, k, Simple("alert"))>>
    <1>1. CASE server.rejects
        <2>1. Send(Server, Numbered(AppKey, k), <<Simple("alert")>>,
                   "send_reject")
            BY <1>1 DEF Conclude
        <2>2. Simple("alert").type # "ccs"
            BY DEF Simple
        <2>3. Sealed(Numbered(AppKey, k), <<Simple("alert")>>) =
                 <<Under(AppKey, k, Simple("alert"))>>
            BY <2>2, SealedOnce, KeysApart
        <2> QED
            BY <1>1, <2>1, <2>3, SendFacts DEF Blame
    <1>2. CASE ~server.rejects
        <2>1. Goto(Server, "done")
            BY <1>2 DEF Conclude
        <2> QED
            BY <2>1, GotoStep
    <1> QED
        BY <1>1, <1>2

LEMMA ReadFinishedGoes ==
    ASSUME Inv, Undisturbed, ReadFinished
    PROVE  Undisturbed'
    <1>1. ServerSteps /\ Maps
        BY DEF ServerSteps, Inv, Shape
    <1>2. /\ at[Server] = "wait_finished" /\ Incoming(Server) /\ Take(Server)
          /\ Upcoming(Server).msg.type = "finished"
        BY DEF ReadFinished, Receives
    <1>3. Upcoming(Server) # Alert /\ Upcoming(Server) # Ccs
        BY <1>2, RecordFacts DEF PlainRecord
    <1>4. Ending
        BY <1>2, <1>3, ServerNext DEF Checking
    <1>5. Switches /\ Unchecked = <<>>
        BY <1>2, <1>4, UncheckedFacts DEF Ending, ServerReads
    <1>6. PICK x \in Unread : ClientOver(x, 0)
        BY <1>4 DEF Ending
    <1>7. IsSeq(x) /\ x # <<>>
        BY <1>6, UncheckedFacts, UnreadFacts DEF Unread
    <1>8. Upcoming(Server) = Head(x)
        BY <1>6, <1>7, RunsTail DEF ClientOver, Upcoming, Peer
    <1>9. Tail(x) = <<>>
        BY <1>3, <1>5, <1>6, <1>8, UncheckedFacts, UnreadFacts DEF Unread
    <1>10. /\ wire'[Client] = Tail(wire[Client])
           /\ wire'[Server] = wire[Server] /\ broken' = broken
        BY <1>1, <1>2, TakeFacts DEF Peer
    <1>11. ClientOver(<<>>, 0)'
        BY <1>1, <1>6, <1>7, <1>9, <1>10, ServerFrame, OverTail
    <1>12. readState'[Server] = Numbered(AppKey, 0)
        BY <1>1, <1>5 DEF ReadFinished, Switches, Maps
    <1>13. /\ at'[Server] \in {"done", "send_reject", "send_tickets"}
           /\ at'[Server] = "send_reject" => Blame
           /\ at'[Server] \in {"send_tickets", "send_reject"} =>
                 \E m : out'[Server] = <<Under(AppKey, 0, m)>>
           /\ at'[Server] = "send_tickets" =>
                 writeState'[Server] = Numbered(AppKey, 1)
        <2>1. CASE server.tickets
            <3>1. Send(Server, Numbered(AppKey, 0), <<Simple("tickets")>>,
                       "send_tickets")
                BY <1>5, <2>1 DEF ReadFinished, Switches
            <3>2. Simple("tickets").type # "ccs"
                BY DEF Simple
            <3>3. Sealed(Numbered(AppKey, 0), <<Simple("tickets")>>) =
                     <<Under(AppKey, 0, Simple("tickets"))>>
                BY <3>2, SealedOnce, KeysApart
            <3>4. Advanced(Numbered(AppKey, 0)) = Numbered(AppKey, 1)
                BY AdvancedNumbered, KeysApart
            <3> QED
                BY <1>1, <3>1, <3>3, <3>4, SendFacts
        <2>2. CASE ~server.tickets
            <3>1. Conclude(Server, Numbered(AppKey, 0), FALSE)
                BY <1>5, <2>2 DEF ReadFinished, Switches
            <3>2. /\ at'[Server] \in {"done", "send_reject"}
                  /\ at'[Server] = "send_reject" =>
                        /\ Blame
                        /\ out'[Server] = <<Under(AppKey, 0, Simple("alert"))>>
                BY <1>1, <3>1, ServerConcludesFacts
            <3> QED
                BY <3>2
        <2> QED
            BY <2>1, <2>2
    <1>14. AppKey' = AppKey
        BY <1>1, ServerFrame, Primes
    <1>15. at[Client] # "failed" => readState'[Client] = Numbered(AppKey, 0)
                                    /\ ServerOver(0)'
        <2>1. SUFFICES ASSUME at[Client] # "failed"
                       PROVE  /\ readState'[Client] = Numbered(AppKey, 0)
                              /\ ServerOver(0)'
            OBVIOUS
        <2>2. wire'[Server] = <<>> /\ readState'[Client] = Numbered(AppKey, 0)
            BY <1>1, <1>4, <1>10, <2>1, ServerFrame DEF Ending
        <2>3. Runs(<<>>, <<>>, 0)'
            BY EmptyFacts DEF Runs
        <2>4. 0 + Len(wire'[Server]) = 0
            BY <2>2, EmptyFacts
        <2>5. Runs(wire[Server], <<>>, 0)'
            BY <2>2, <2>3
        <2>6. (at[Server] \in {"send_tickets", "send_reject"} =>
                  \E m : out[Server] = <<Under(AppKey, 0 + Len(wire[Server]), m)>>)'
            BY <1>13, <1>14, <2>4 DEF Under
        <2>7. (at[Server] = "send_tickets" =>
                  writeState[Server] =
                     Numbered(AppKey, 0 + Len(wire[Server]) + 1))'
            BY <1>13, <1>14, <2>4 DEF Numbered
        <2> QED
            BY <2>2, <2>5, <2>6, <2>7 DEF ServerOver
    <1>16. Ended'
        <2>1. at'[Client] \in {"done", "send_reject", "failed"}
            BY <1>1, <1>4, ServerFrame DEF Ending, ClientOver
        <2>2. at'[Client] = at[Client] /\ 0 \in Nat
            BY <1>1, ServerFrame
        <2>3. (readState[Server] = Numbered(AppKey, 0))'
            BY <1>12, <1>14 DEF Numbered
        <2>4. (at[Client] # "failed" =>
                   readState[Client] = Numbered(AppKey, 0) /\ ServerOver(0))'
            BY <1>14, <1>15, <2>2 DEF Numbered
        <2> QED
            BY <1>11, <1>13, <2>1, <2>2, <2>3, <2>4 DEF Ended
    <1>17. hello' = hello /\ sockOpen' = sockOpen
        BY DEF ReadFinished
    <1>18. ServerBegun'
        BY <1>13 DEF ServerBegun, Choosing
    <1> QED
        BY <1>1, <1>2, <1>10, <1>13, <1>16, <1>17, <1>18, ServerFrame,
           ServerGoes DEF Situation, Aborting, Undisturbed

LEMMA TicketsSentGoes ==
    ASSUME Inv, Undisturbed, TicketsSent
    PROVE  Undisturbed'
    <1>1. ServerSteps /\ Maps
        BY DEF ServerSteps, Inv, Shape
    <1>2. Sent(Server, "send_tickets")
        BY DEF TicketsSent
    <1>3. /\ at[Server] = "send_tickets" /\ broken' = broken
          /\ wire'[Client] = wire[Client]
        BY <1>1, <1>2, SentFacts DEF Peer
    <1>4. Ended
        BY <1>3, Located DEF Undisturbed
    <1>5. Conclude(Server, writeState[Server], FALSE)
        BY DEF TicketsSent
    <1>6. at'[Server] \in {"done", "send_reject"}
        <2>1. CASE server.rejects
            BY <1>1, <1>5, <2>1, SendFacts DEF Conclude
        <2>2. CASE ~server.rejects
            BY <1>1, <1>5, <2>2, GotoStep DEF Conclude
        <2> QED
            BY <2>1, <2>2
    <1>7. at'[Server] = "send_reject" => Blame
        <2>1. CASE server.rejects
            BY <2>1 DEF Blame
        <2>2. CASE ~server.rejects
            BY <1>1, <1>5, <2>2, GotoStep DEF Conclude
        <2> QED
            BY <2>1, <2>2
    <1>8. AppKey' = AppKey /\ at'[Client] = at[Client]
        BY <1>1, ServerFrame, Primes
    <1>9. readState' = readState /\ hello' = hello /\ sockOpen' = sockOpen
        BY DEF TicketsSent, talkVars
    <1>10. PICK n \in Nat : /\ readState[Server] = Numbered(AppKey, n)
                            /\ ClientOver(<<>>, n)
        BY <1>3, <1>4 DEF Ended
    <1>11. ClientOver(<<>>, n)'
        BY <1>1, <1>3, <1>10, ServerFrame, OverKept
    <1>12. (\E k \in Nat : /\ readState[Server] = Numbered(AppKey, k)
                           /\ ClientOver(<<>>, k))'
        <2>1. (readState[Server] = Numbered(AppKey, n))'
            BY <1>8, <1>9, <1>10 DEF Numbered
        <2> QED
            BY <1>11, <2>1
    <1>13. ASSUME at[Client] # "failed"
           PROVE  (\E k \in Nat : /\ readState[Client] = Numbered(AppKey, k)
                                  /\ ServerOver(k))'
        <2> DEFINE w == wire[Server]
        <2>1. PICK k \in Nat : /\ readState[Client] = Numbered(AppKey, k)
                               /\ ServerOver(k)
            BY <1>4, <1>13 DEF Ended
        <2>2. PICK m : out[Server] = <<Under(AppKey, k + Len(w), m)>>
            BY <1>3, <2>1 DEF ServerOver
        <2>3. /\ writeState[Server] = Numbered(AppKey, k + Len(w) + 1)
              /\ Runs(w, <<>>, k) /\ IsSeq(w)
            BY <1>3, <2>1 DEF ServerOver, Runs
        <2>4. wire'[Server] = Append(w, Under(AppKey, k + Len(w), m))
            <3>1. wire'[Server] = w \o out[Server]
                BY <1>1, <1>2, <1>13, SentFacts DEF Peer
            <3> QED
                BY <2>2, <2>3, <3>1, Concats
        <2>5. Len(w) \in Nat /\ k + Len(w) - Len(<<>>) = k + Len(w)
            BY <2>3, SeqFacts, EmptyFacts
        <2>6. /\ Runs(wire'[Server], <<>>, k)
              /\ Len(wire'[Server]) = Len(w) + 1
            <3> DEFINE l == Append(w, Under(AppKey, k + Len(w) - Len(<<>>), m))
            <3>1. Runs(l, <<>>, k) /\ Len(l) = Len(w) + 1
                BY <2>3, RunsAppend, EmptyFacts
            <3>2. l = wire'[Server]
                BY <2>4, <2>5
            <3> QED
                BY <3>1, <3>2
        <2>7. Conclude(Server, Numbered(AppKey, k + Len(w) + 1), FALSE)
            BY <1>5, <2>3
        <2>8. at'[Server] = "send_reject" =>
                 out'[Server] =
                    <<Under(AppKey, k + Len(w) + 1, Simple("alert"))>>
            <3>1. k + Len(w) + 1 \in Nat
                BY <2>5
            <3> QED
                BY <1>1, <2>7, <3>1, ServerConcludesFacts
        <2>9. k + Len(wire'[Server]) = k + Len(w) + 1
            BY <2>5, <2>6
        <2>10. ServerOver(k)'
            <3>1. Runs(wire[Server], <<>>, k)'
                BY <1>8, <2>6 DEF Runs
            <3> QED
                BY <1>6, <1>8, <2>8, <2>9, <3>1 DEF ServerOver, Under
        <2>11. (readState[Client] = Numbered(AppKey, k))'
            BY <1>8, <1>9, <2>1 DEF Numbered
        <2> QED
            BY <2>10, <2>11
    <1>14. Ended'
        BY <1>4, <1>6, <1>8, <1>12, <1>13 DEF Ended
    <1>15. ServerBegun'
        BY <1>6 DEF ServerBegun, Choosing
    <1> QED
        BY <1>1, <1>3, <1>6, <1>7, <1>9, <1>14, <1>15, ServerFrame,
           ServerGoes DEF Situation, Aborting, Undisturbed

-----------------------------------------------------------------------------
(***************************************************************************)
(* The steps of either end.                                                *)
(***************************************************************************)
\* A step that only moves records.
LEMMA Unmoved ==
    ASSUME Undisturbed, Situation',
           UNCHANGED <<setup, at, readState, hash, hello, sockOpen, broken>>
    PROVE  Undisturbed'
    <1>1. Blame' = Blame
        BY Primes
    <1>2. ClientBegun'
        BY Primes DEF Undisturbed, ClientBegun
    <1>3. ServerBegun'
        BY DEF Undisturbed, ServerBegun
    <1>4. \A e \in Ends : Blamed(e)'
        BY <1>1 DEF Undisturbed, Blamed
    <1> QED
        BY <1>2, <1>3, <1>4 DEF Undisturbed

\* The places where an end reads.
LEMMA WaitingPlaces ==
    ASSUME Undisturbed
    PROVE  /\ at[Client] \in Waiting =>
                 at[Client] \in {"wait_hello", "wait_retry", "wait_flight"}
           /\ at[Server] \in Waiting =>
                 at[Server] \in {"wait_hello", "wait_second"} \cup Checking
           /\ at[Client] \notin Salvaging
           /\ at[Server] \in Salvaging => at[Server] = "salvage_tickets"
    <1>1. /\ at[Client] \in Opening \cup Answering
                            \cup {"send_alert", "send_reject", "done", "failed"}
          /\ at[Server] \in Choosing \cup {"send_flight"} \cup Checking
                            \cup {"send_alert", "send_reject", "done", "failed",
                                  "send_tickets", "salvage_tickets"}
        BY Located DEF Undisturbed
    <1> QED
        BY <1>1 DEF Opening, Greeting, Answering, Choosing, Checking, Waiting,
                    Salvaging

LEMMA ClientSkipsGoes ==
    ASSUME Inv, Undisturbed, SkipCcs(Client)
    PROVE  Undisturbed'
    <1> DEFINE w == wire[Server]
    <1>0. Maps /\ Situation
        BY DEF Inv, Shape, Undisturbed
    <1>1. /\ UNCHANGED <<setup, at, out, writeState, readState, pending, hash,
                         hello, choice, master, sockOpen>>
          /\ Take(Client) /\ Incoming(Client)
          /\ Upcoming(Client).msg.type = "ccs"
          /\ at[Client] \in Waiting \ {"wait_hello"}
        BY DEF SkipCcs, SkipsCcs, keyVars, talkVars, endVars
    <1>2. wire'[Server] = Tail(w) /\ wire'[Client] = wire[Client]
          /\ broken' = broken
        BY <1>0, <1>1, TakeFacts DEF Peer
    <1>3. at[Client] \in {"wait_retry", "wait_flight"}
        BY <1>1, WaitingPlaces
    <1>4. Upcoming(Client) # Answer1
          /\ \A right \in BOOLEAN : Upcoming(Client) # FlightR[right]
        BY <1>1, RecordFacts DEF PlainRecord, KeyedRecord
    <1>5. /\ Upcoming(Client) = Ccs /\ Upcoming(Client) = Head(w) /\ w # <<>>
          /\ \/ at[Client] = "wait_retry" /\ (SecondUnread \/ AnswerOut)
             \/ Decided
        <2>1. CASE at[Client] = "wait_retry"
            BY <1>1, <1>4, <2>1, ClientNext DEF Incoming, Upcoming, Peer
        <2>2. CASE at[Client] = "wait_flight"
            BY <1>1, <1>4, <2>2, ClientNext DEF Incoming, Upcoming, Peer
        <2> QED
            BY <1>3, <2>1, <2>2
    <1>6. CASE at[Client] = "wait_retry" /\ SecondUnread
        <2>1. w = <<Ccs>>
            BY <1>5, <1>6 DEF SecondUnread
        <2>2. wire'[Server] = <<>>
            BY <1>2, <2>1, HeadTail
        <2>3. SecondUnread'
            BY <1>1, <1>2, <1>6, <2>2, Primes DEF SecondUnread
        <2> QED
            BY <1>1, <1>2, <2>3, Unmoved DEF Situation
    <1>7. CASE at[Client] = "wait_retry" /\ AnswerOut
        <2>1. w = <<Ccs>>
            BY <1>5, <1>7 DEF AnswerOut
        <2>2. wire'[Server] = <<>>
            BY <1>2, <2>1, HeadTail
        <2>3. Outcomes' = Outcomes /\ Listening'
            BY <1>1, <1>2, <1>7, Primes DEF AnswerOut, Outcomes, Listening
        <2>4. AnswerOut'
            BY <1>1, <1>2, <1>7, <2>2, <2>3, Primes DEF AnswerOut
        <2> QED
            BY <1>1, <1>2, <2>4, Unmoved DEF Situation
    <1>8. CASE Decided
        <2>1. Hellos' = Hellos
            BY <1>1, Primes DEF Hellos
        <2>2. Listening => Listening'
            BY <1>1, <1>2, Primes DEF Listening
        <2>3. ASSUME NEW h \in Hellos, h # <<>>, Head(h) = Ccs
              PROVE  Tail(h) \in Hellos
            <3>1. CASE at[Client] = "wait_retry"
                <4>1. Answer1 # Ccs
                    BY <1>4, <1>5
                <4>2. Tail(h) \in {<<Answer1>>, <<Answer1, Ccs>>}
                    BY <2>3, <3>1, <4>1, HelloNext
                <4> QED
                    BY <3>1, <4>2 DEF Hellos
            <3>2. CASE at[Client] = "wait_flight"
                <4>1. Tail(h) = <<>>
                    BY <2>3, <3>2, HelloNext
                <4> QED
                    BY <3>2, <4>1 DEF Hellos
            <3> QED
                BY <1>3, <3>1, <3>2
        <2>4. ASSUME Unproven
              PROVE  Unproven'
            <3>1. wire'[Server] \in Hellos
                BY <1>2, <1>5, <2>3, <2>4 DEF Unproven
            <3> QED
                BY <1>1, <2>1, <2>2, <2>4, <3>1 DEF Unproven
        <2>5. ASSUME NEW right \in BOOLEAN, FlightOut(right)
              PROVE  FlightOut(right)'
            <3>1. wire'[Server] \in Hellos
                BY <1>2, <1>5, <2>3, <2>5 DEF FlightOut
            <3> QED
                BY <1>1, <2>1, <2>2, <2>5, <3>1, Primes DEF FlightOut, Numbered
        <2>6. ASSUME NEW right \in BOOLEAN, FlightUnread(right)
              PROVE  FlightUnread(right)'
            <3>1. PICK h \in Hellos : w = Append(h, FlightR[right])
                BY <2>6 DEF FlightUnread
            <3>2. h # <<>>
                <4>1. ASSUME h = <<>>
                      PROVE  Upcoming(Client) = FlightR[right]
                    BY <1>5, <3>1, <4>1, HelloNext
                <4> QED
                    BY <1>4, <4>1
            <3>3. Head(w) = Head(h) /\ Tail(w) = Append(Tail(h), FlightR[right])
                BY <3>1, <3>2, HelloNext
            <3>4. Tail(h) \in Hellos
                BY <1>5, <2>3, <3>2, <3>3
            <3>5. /\ FlightR' = FlightR /\ Blame' = Blame /\ HsKey' = HsKey
                  /\ Requests' = Requests /\ AppKey' = AppKey
                BY <1>1, Primes
            <3>6. \E g \in Hellos' : wire'[Server] = Append(g, FlightR[right])
                BY <1>2, <2>1, <3>3, <3>4
            <3>7. (\E g \in Hellos : wire[Server] = Append(g, FlightR[right]))'
                BY <3>5, <3>6
            <3>8. Checks0'
                BY <1>1, <2>6, <3>5 DEF FlightUnread, Checks0, Numbered
            <3>9. (IF right THEN Switches ELSE Blame)'
                BY <1>1, <2>6, <3>5 DEF FlightUnread, Switches, Numbered
            <3> QED
                BY <2>2, <2>6, <3>7, <3>8, <3>9 DEF FlightUnread
        <2>7. Situation'
            BY <1>8, <2>4, <2>5, <2>6 DEF Decided, Situation
        <2> QED
            BY <1>1, <1>2, <2>7, Unmoved
    <1> QED
        BY <1>5, <1>6, <1>7, <1>8

LEMMA ServerSkipsGoes ==
    ASSUME Inv, Undisturbed, SkipCcs(Server)
    PROVE  Undisturbed'
    <1> DEFINE w == wire[Client]
    <1>0. Maps /\ Situation
        BY DEF Inv, Shape, Undisturbed
    <1>1. /\ UNCHANGED <<setup, at, out, writeState, readState, pending, hash,
                         hello, choice, master, session, sockOpen>>
          /\ Take(Server) /\ Incoming(Server)
          /\ Upcoming(Server).msg.type = "ccs"
          /\ at[Server] \in Waiting \ {"wait_hello"}
        BY DEF SkipCcs, SkipsCcs, keyVars, talkVars, endVars
    <1>2. wire'[Client] = Tail(w) /\ wire'[Server] = wire[Server]
          /\ broken' = broken /\ Upcoming(Server) = Head(w)
        BY <1>0, <1>1, TakeFacts DEF Peer, Upcoming
    <1>3. at[Server] \in {"wait_second"} \cup Checking
        BY <1>1, WaitingPlaces
    <1>4. Upcoming(Server) \notin {Greeting2, Alert, CertR, VerifyR, FinR}
        BY <1>1, RecordFacts DEF PlainRecord, KeyedRecord
    <1>5. CASE at[Server] = "wait_second"
        <2>1. SecondUnread /\ Upcoming(Server) = Ccs
            BY <1>1, <1>4, <1>5, ServerNext
        <2>2. w = <<Ccs, Greeting2>>
            BY <1>2, <1>4, <2>1, HeadTail DEF SecondUnread
        <2>3. wire'[Client] = <<Greeting2>>
            BY <1>2, <2>2, HeadTail
        <2>4. SecondUnread'
            BY <1>1, <1>2, <2>1, <2>3, Primes DEF SecondUnread
        <2> QED
            BY <1>1, <1>2, <2>4, Unmoved DEF Situation
    <1>6. CASE at[Server] \in Checking
        <2>1. Ending /\ at[Server] = "wait_finished" /\ Upcoming(Server) = Ccs
            BY <1>1, <1>4, <1>6, ServerNext
        <2>2. PICK x \in Unread : ClientOver(x, 0)
            BY <2>1 DEF Ending
        <2>3. IsSeq(x) /\ x # <<>> /\ Unchecked = <<>>
            BY <2>1, <2>2, UncheckedFacts, UnreadFacts DEF Unread
        <2>4. Head(x) = Ccs
            BY <1>2, <2>1, <2>2, <2>3, RunsTail DEF ClientOver
        <2>5. Tail(x) \in Finishing(<<>>)
            <3>1. Head(x) # FinR
                BY <1>4, <2>1, <2>4
            <3> QED
                BY <2>2, <2>3, <3>1, UncheckedFacts, UnreadFacts DEF Unread
        <2>6. Stays(Client)
            BY <1>1 DEF Stays, KeepsTalk
        <2>7. ClientOver(Tail(x), 0)'
            BY <1>1, <1>2, <2>2, <2>3, <2>6, OverTail
        <2>8. Tail(x) \in Unread'
            <3>1. Ccs' = Ccs /\ FinR' = FinR /\ Unchecked' = Unchecked
                BY <1>1, Primes DEF Unchecked
            <3>2. Unread' = Finishing(<<>>)
                BY <2>3, <3>1 DEF Unread, Finishing
            <3> QED
                BY <2>5, <3>2
        <2>9. (\E z \in Unread : ClientOver(z, 0))'
            BY <2>7, <2>8
        <2>10. ServerReads' /\ AppKey' = AppKey
            BY <1>1, <2>1, Primes DEF Ending, ServerReads, Switches, Numbered
        <2>11. Ending'
            BY <1>1, <1>2, <2>1, <2>9, <2>10 DEF Ending, Numbered
        <2> QED
            BY <1>1, <1>2, <2>11, Unmoved DEF Situation
    <1> QED
        BY <1>3, <1>5, <1>6

\* An alert comes from an end that has given up.
LEMMA GetAlertGoes ==
    ASSUME Inv, Undisturbed, NEW e \in Ends, GetAlert(e)
    PROVE  Undisturbed'
    <1>1. /\ Fail(e) /\ at[e] \in Waiting /\ Incoming(e)
          /\ Upcoming(e).msg.type = "alert" /\ broken' = broken
        BY DEF GetAlert, Take
    <1>2. CASE e = Client
        <2>1. /\ Upcoming(Client) \notin {RetryR, Answer1, Ccs}
              /\ \A right \in BOOLEAN : Upcoming(Client) # FlightR[right]
            BY <1>1, <1>2, RecordFacts DEF PlainRecord, KeyedRecord
        <2>2. at[Client] \in {"wait_hello", "wait_retry", "wait_flight"}
            BY <1>1, <1>2, WaitingPlaces
        <2>3. RefusalUnread
            BY <1>1, <1>2, <2>1, <2>2, ClientNext
        <2>4. at[Peer(e)] = "failed"
            BY <1>2, <2>3 DEF RefusalUnread, Peer
        <2> QED
            BY <1>1, <2>4, BothFail
    <1>3. CASE e = Server
        <2>1. Upcoming(Server) \notin {Greeting1, Greeting2, Ccs, CertR, VerifyR,
                                       FinR}
            BY <1>1, <1>3, RecordFacts DEF PlainRecord, KeyedRecord
        <2>2. at[Server] \in {"wait_hello", "wait_second"} \cup Checking
            BY <1>1, <1>3, WaitingPlaces
        <2>3. DoubtUnread
            BY <1>1, <1>3, <2>1, <2>2, ServerNext
        <2>4. at[Peer(e)] = "failed"
            BY <1>3, <2>3 DEF DoubtUnread, Peer
        <2> QED
            BY <1>1, <2>4, BothFail
    <1> QED
        BY <1>2, <1>3

\* Without a fault, there is nothing to refuse.
LEMMA RefuseNot ==
    ASSUME Inv, Undisturbed, NEW e \in Ends
    PROVE  ~Refuse(e)
    BY LegibleNext DEF Refuse, Legible

\* The client's checker rejected the server: the alert follows its Finished.
LEMMA RejectLeaves ==
    ASSUME Inv, Undisturbed, at[Client] = "send_reject", Fail(Client),
           at'[Client] = "failed", setup' = setup,
           NEW x, IsSeq(x), NEW n \in Nat, ClientOver(x, n),
           wire'[Client] = wire[Client] \o out[Client]
    PROVE  n = 0 /\ ClientOver(x, n)'
    <1> DEFINE w == wire[Client]
    <1>0. Runs(w, x, n)
        BY DEF ClientOver
    <1>1. IsSeq(w) /\ n = 0 /\ Len(w) = Len(x) /\ out[Client] = <<AlertR>>
        BY DEF ClientOver, Runs
    <1>2. Len(w) \in Nat /\ Len(x) \in Nat
        BY <1>1, SeqFacts
    <1>3. wire'[Client] = Append(w, AlertR)
        BY <1>1, Concats
    <1>4. AlertR = Under(AppKey, n + Len(w) - Len(x), AlertR.msg)
        <2>1. n + Len(w) - Len(x) = 0
            BY <1>1, <1>2
        <2> QED
            BY <2>1, RecordFacts
    <1>5. Runs(wire'[Client], x, n) /\ Len(wire'[Client]) = Len(w) + 1
        <2> DEFINE l == Append(w, Under(AppKey, n + Len(w) - Len(x),
                                        AlertR.msg))
        <2>1. Runs(l, x, n) /\ Len(l) = Len(w) + 1
            BY <1>0, RunsAppend
        <2>2. l = wire'[Client]
            BY <1>3, <1>4
        <2> QED
            BY <2>1, <2>2
    <1>6. wire'[Client][Len(x) + 1].msg.type = "alert"
        <2>1. Append(w, AlertR)[Len(w) + 1] = AlertR
            BY <1>1, AppendFacts
        <2>2. AlertR.msg.type = "alert"
            BY RecordFacts
        <2> QED
            BY <1>1, <1>3, <2>1, <2>2
    <1>7. Runs(wire[Client], x, n)'
        BY <1>5, Primes DEF Runs
    <1> QED
        BY <1>1, <1>5, <1>6, <1>7 DEF ClientOver

LEMMA ClientAlertGoes ==
    ASSUME Inv, Undisturbed, AlertSent(Client)
    PROVE  Undisturbed'
    <1>0. Maps /\ Situation
        BY DEF Inv, Shape, Undisturbed
    <1>1. PICK where \in {"send_alert", "send_reject"} : Sent(Client, where)
        BY DEF AlertSent
    <1>2. Fail(Client) /\ setup' = setup /\ Blame
        <2>1. at[Client] = where
            BY <1>0, <1>1, SentFacts
        <2> QED
            BY <2>1 DEF AlertSent, Fail, Undisturbed, Blamed
    <1>3. /\ at[Client] = where /\ broken' = broken
          /\ wire'[Server] = wire[Server]
          /\ at[Server] # "failed" => wire'[Client] = wire[Client] \o out[Client]
        BY <1>0, <1>1, SentFacts DEF Peer
    <1>4. at'[Client] = "failed" /\ Stays(Server)
        <2>1. at'[Client] = "failed"
            BY <1>0, <1>2, GotoStep DEF Fail
        <2> QED
            BY <1>2, <2>1, FailStep DEF Inv
    <1>5. /\ at'[Server] = at[Server] /\ readState'[Server] = readState[Server]
          /\ writeState'[Server] = writeState[Server]
          /\ pending'[Server] = pending[Server]
          /\ out'[Server] = out[Server]
        BY <1>4 DEF Stays
    <1>6. CASE where = "send_alert"
        <2>1. DoubtOut
            BY <1>0, <1>3, <1>6, Located
        <2>2. at[Server] # "failed"
            BY <2>1 DEF DoubtOut, Checks0
        <2>3. wire'[Client] = <<Alert>>
            BY <1>3, <2>1, <2>2, OneMessage, Concats DEF DoubtOut
        <2>4. DoubtUnread'
            BY <1>2, <1>4, <1>5, <2>1, <2>3, Primes
            DEF DoubtOut, DoubtUnread, Checks0, Numbered
        <2> QED
            BY <1>2, <1>3, <2>4, EndFails DEF Situation
    <1>7. CASE where = "send_reject"
        <2>1. Ending \/ Ended
            BY <1>0, <1>3, <1>7, Located
        <2>2. ASSUME Ending
              PROVE  Ending'
            <3>1. PICK x \in Unread : ClientOver(x, 0)
                BY <2>2 DEF Ending
            <3>2. IsSeq(x)
                BY <3>1, UncheckedFacts, UnreadFacts DEF Unread
            <3>3. at[Server] # "failed"
                BY <2>2 DEF Ending, ServerReads
            <3>4. ClientOver(x, 0)'
                BY <1>2, <1>3, <1>4, <1>7, <3>1, <3>2, <3>3, RejectLeaves
            <3>5. Unread' = Unread /\ ServerReads'
                BY <1>2, <1>5, <2>2, Primes
                DEF Unread, Finishing, Unchecked, Ending, ServerReads, Switches,
                    Numbered
            <3>6. (\E z \in Unread : ClientOver(z, 0))'
                BY <3>4, <3>5
            <3> QED
                BY <1>4, <3>5, <3>6 DEF Ending
        <2>3. ASSUME Ended
              PROVE  Ended'
            <3>1. ASSUME at[Server] # "failed"
                  PROVE  (\E n \in Nat : /\ readState[Server] = Numbered(AppKey, n)
                                         /\ ClientOver(<<>>, n))'
                <4>1. PICK n \in Nat : /\ readState[Server] = Numbered(AppKey, n)
                                       /\ ClientOver(<<>>, n)
                    BY <2>3, <3>1 DEF Ended
                <4>2. ClientOver(<<>>, n)'
                    BY <1>2, <1>3, <1>4, <1>7, <3>1, <4>1, RejectLeaves,
                       EmptyFacts
                <4>3. (readState[Server] = Numbered(AppKey, n))'
                    BY <1>2, <1>5, <4>1, Primes DEF Numbered
                <4> QED
                    BY <4>2, <4>3
            <3> QED
                BY <1>4, <1>5, <2>3, <3>1 DEF Ended
        <2> QED
            BY <1>2, <1>3, <2>1, <2>2, <2>3, EndFails DEF Situation
    <1> QED
        BY <1>6, <1>7

LEMMA ServerAlertGoes ==
    ASSUME Inv, Undisturbed, AlertSent(Server)
    PROVE  Undisturbed'
    <1>0. Maps /\ Situation
        BY DEF Inv, Shape, Undisturbed
    <1>1. PICK where \in {"send_alert", "send_reject"} : Sent(Server, where)
        BY DEF AlertSent
    <1>2. Fail(Server) /\ setup' = setup /\ Blame
        <2>1. at[Server] = where
            BY <1>0, <1>1, SentFacts
        <2> QED
            BY <2>1 DEF AlertSent, Fail, Undisturbed, Blamed
    <1>3. /\ at[Server] = where /\ broken' = broken
          /\ wire'[Client] = wire[Client]
          /\ at[Client] # "failed" => wire'[Server] = wire[Server] \o out[Server]
        BY <1>0, <1>1, SentFacts DEF Peer
    <1>4. at'[Server] = "failed" /\ Stays(Client)
        <2>1. at'[Server] = "failed"
            BY <1>0, <1>2, GotoStep DEF Fail
        <2> QED
            BY <1>2, <2>1, FailStep DEF Inv
    <1>5. at'[Client] = at[Client] /\ readState'[Client] = readState[Client]
        BY <1>4 DEF Stays
    <1>6. CASE where = "send_alert"
        <2>1. RefusalOut
            BY <1>0, <1>3, <1>6, Located
        <2>2. wire'[Server] = <<Alert>>
            BY <1>3, <2>1, OneMessage, Concats DEF RefusalOut
        <2>3. RefusalUnread'
            BY <1>2, <1>3, <1>4, <1>5, <2>1, <2>2, Primes
            DEF RefusalOut, RefusalUnread
        <2> QED
            BY <1>2, <1>3, <2>3, EndFails DEF Situation
    <1>7. CASE where = "send_reject"
        <2>1. Ended
            BY <1>0, <1>3, <1>7, Located
        <2>2. ASSUME at[Client] # "failed"
              PROVE  (\E n \in Nat : /\ readState[Client] = Numbered(AppKey, n)
                                     /\ ServerOver(n))'
            <3> DEFINE w == wire[Server]
            <3>1. PICK n \in Nat : /\ readState[Client] = Numbered(AppKey, n)
                                   /\ ServerOver(n)
                BY <2>1, <2>2 DEF Ended
            <3>2. PICK m : out[Server] = <<Under(AppKey, n + Len(w), m)>>
                BY <1>3, <1>7, <3>1 DEF ServerOver
            <3>3. Runs(w, <<>>, n) /\ IsSeq(w)
                BY <3>1 DEF ServerOver, Runs
            <3>4. Len(w) \in Nat /\ n + Len(w) - Len(<<>>) = n + Len(w)
                BY <3>3, SeqFacts, EmptyFacts
            <3>5. wire'[Server] = Append(w, Under(AppKey, n + Len(w), m))
                BY <1>3, <2>2, <3>2, <3>3, Concats
            <3>6. Runs(wire'[Server], <<>>, n)
                <4> DEFINE l == Append(w, Under(AppKey, n + Len(w) - Len(<<>>), m))
                <4>1. Runs(l, <<>>, n)
                    BY <3>3, RunsAppend, EmptyFacts
                <4>2. l = wire'[Server]
                    BY <3>4, <3>5
                <4> QED
                    BY <4>1, <4>2
            <3>7. Runs(wire[Server], <<>>, n)'
                BY <1>2, <3>6, Primes DEF Runs
            <3>8. ServerOver(n)'
                BY <1>4, <3>7 DEF ServerOver
            <3>9. (readState[Client] = Numbered(AppKey, n))'
                BY <1>2, <1>5, <3>1, Primes DEF Numbered
            <3> QED
                BY <3>8, <3>9
        <2>3. Ended'
            BY <1>4, <1>5, <2>1, <2>2 DEF Ended
        <2> QED
            BY <1>2, <1>3, <2>3, EndFails DEF Situation
    <1> QED
        BY <1>6, <1>7

\* Nobody finds its peer gone but when the peer has failed.
LEMMA PeerGoneGoes ==
    ASSUME Inv, Undisturbed, NEW e \in Ends, PeerGone(e) \/ FlushFails(e)
    PROVE  Undisturbed'
    <1>1. Fail(e) /\ Unsendable(e) /\ broken' = broken
        BY DEF PeerGone, FlushFails, AtEnd, netVars
    <1>2. at[Peer(e)] = "failed"
        BY <1>1 DEF Unsendable, Undisturbed, Blamed, Peer
    <1> QED
        BY <1>1, <1>2, BothFail

\* Only the tickets of a server can find the client gone.
LEMMA SendFailsGoes ==
    ASSUME Inv, Undisturbed, NEW e \in Ends, SendFails(e)
    PROVE  Undisturbed'
    <1>0. Maps /\ Situation
        BY DEF Inv, Shape, Undisturbed
    <1>1. /\ at[e] \in {"send_hello", "send_cert", "send_verify", "send_flight",
                        "send_tickets"}
          /\ at[Peer(e)] = "failed"
        BY DEF SendFails, Unsendable, Undisturbed, Blamed, Peer
    <1>2. e = Server
        <2>1. SUFFICES ASSUME e = Client PROVE FALSE
            OBVIOUS
        <2>2. at[Client] \in Opening \cup Answering
                             \cup {"send_alert", "send_reject", "done", "failed"}
            BY <1>0, Located
        <2>3. at[Client] \in {"send_hello", "send_cert", "send_verify"}
            BY <1>1, <2>1, <2>2 DEF Opening, Greeting, Answering
        <2>4. HelloOut \/ CertificateOut \/ VerifyOut
            BY <1>0, <2>3, Located
        <2>5. at[Server] # "failed"
            BY <2>4 DEF HelloOut, CertificateOut, VerifyOut, ServerReads
        <2> QED
            BY <1>1, <2>1, <2>5 DEF Peer
    <1>3. at[Client] = "failed"
        BY <1>1, <1>2 DEF Peer
    <1>4. at[Server] = "send_tickets"
        <2>1. at[Server] \in Choosing \cup {"send_flight"} \cup Checking
                             \cup {"send_alert", "send_reject", "done", "failed",
                                   "send_tickets", "salvage_tickets"}
            BY <1>0, Located
        <2>2. at[Server] # "send_flight"
            <3>1. SUFFICES ASSUME at[Server] = "send_flight" PROVE FALSE
                OBVIOUS
            <3>2. PICK right \in BOOLEAN : FlightOut(right)
                BY <1>0, <3>1, Located
            <3> QED
                BY <1>3, <3>2 DEF FlightOut, Listening
        <2> QED
            BY <1>1, <1>2, <2>1, <2>2 DEF Choosing, Checking
    <1>5. Ended
        BY <1>0, <1>4, Located
    <1>6. /\ UNCHANGED <<setup, readState, writeState, pending, hash, hello,
                         choice, master, session, sockOpen, wire, broken>>
          /\ Goto(Server, "salvage_tickets")
        BY <1>2, <1>4 DEF SendFails, keyVars, talkVars, endVars, netVars
    <1>7. /\ at'[Server] = "salvage_tickets" /\ at'[Client] = at[Client]
          /\ out'[Client] = out[Client]
        BY <1>0, <1>6, GotoStep
    <1>8. Stays(Client)
        BY <1>6, <1>7 DEF Stays, KeepsTalk
    <1>9. PICK n \in Nat : /\ readState[Server] = Numbered(AppKey, n)
                           /\ ClientOver(<<>>, n)
        BY <1>4, <1>5 DEF Ended
    <1>10. ClientOver(<<>>, n)'
        BY <1>6, <1>8, <1>9, OverKept
    <1>11. (\E k \in Nat : /\ readState[Server] = Numbered(AppKey, k)
                           /\ ClientOver(<<>>, k))'
        <2>1. (readState[Server] = Numbered(AppKey, n))'
            BY <1>6, <1>9, Primes DEF Numbered
        <2> QED
            BY <1>10, <2>1
    <1>12. Ended'
        BY <1>3, <1>7, <1>11 DEF Ended
    <1>13. ServerBegun'
        BY <1>7 DEF ServerBegun, Choosing
    <1> QED
        BY <1>4, <1>6, <1>7, <1>8, <1>12, <1>13, ServerGoes
        DEF Situation, Aborting, Undisturbed

LEMMA SalvageFailsGoes ==
    ASSUME Inv, Undisturbed, NEW e \in Ends, SalvageFails(e)
    PROVE  Undisturbed'
    <1>1. at[e] \in Salvaging /\ Fail(e) /\ broken' = broken
        BY DEF SalvageFails, Take, netVars
    <1>2. e = Server /\ at[Server] = "salvage_tickets"
        BY <1>1, WaitingPlaces
    <1>3. at[Peer(e)] = "failed"
        BY <1>2, Located DEF Undisturbed, Ended, Peer
    <1> QED
        BY <1>1, <1>3, BothFail

\* What the server finds when its tickets cannot be sent is the alert of the
\* client that failed.
LEMMA SalvageFallsThroughNot ==
    ASSUME Inv, Undisturbed, NEW e \in Ends
    PROVE  ~SalvageFallsThrough(e)
    <1>1. SUFFICES ASSUME SalvageFallsThrough(e) PROVE FALSE
        OBVIOUS
    <1>2. /\ at[e] = "salvage_tickets" /\ Incoming(e)
          /\ Upcoming(e).msg.type # "alert"
        BY <1>1 DEF SalvageFallsThrough, Unexplained
    <1>3. e = Server
        BY <1>2, WaitingPlaces DEF Salvaging
    <1>4. Ended
        BY <1>2, <1>3, Located DEF Undisturbed
    <1>5. PICK n \in Nat : ClientOver(<<>>, n)
        BY <1>2, <1>3, <1>4 DEF Ended
    <1>6. /\ wire[Client][Len(<<>>) + 1].msg.type = "alert"
          /\ IsSeq(wire[Client]) /\ wire[Client] # <<>>
        BY <1>2, <1>3, <1>4, <1>5 DEF Ended, ClientOver, Runs, Incoming, Peer
    <1>7. wire[Client][Len(<<>>) + 1] = Upcoming(Server)
        BY <1>6, TailOf, EmptyFacts DEF Upcoming, Peer
    <1> QED
        BY <1>2, <1>3, <1>6, <1>7

LEMMA ClientReadsOnGoes ==
    ASSUME Inv, Undisturbed, ReadsOn(Client)
    PROVE  Undisturbed'
    <1> DEFINE w == wire[Server]
    <1>0. Maps /\ Situation
        BY DEF Inv, Shape, Undisturbed
    <1>1. /\ UNCHANGED <<setup, at, out, writeState, hash, hello, sockOpen>>
          /\ at[Client] = "done" /\ Incoming(Client) /\ Take(Client)
        BY DEF ReadsOn, talkVars, endVars
    <1>2. wire'[Server] = Tail(w) /\ wire'[Client] = wire[Client]
          /\ broken' = broken /\ w # <<>>
        BY <1>0, <1>1, TakeFacts DEF Peer, Incoming
    <1>3. Ended
        <2>1. ~Ending
            BY <1>1, <1>2 DEF Ending
        <2> QED
            BY <1>0, <1>1, <2>1, Located
    <1>4. PICK n \in Nat : readState[Client] = Numbered(AppKey, n) /\ ServerOver(n)
        BY <1>1, <1>3 DEF Ended
    <1>5. /\ readState'[Client] = Numbered(AppKey, n + 1)
          /\ readState'[Server] = readState[Server]
        <2>1. /\ readState'[Client] = Advanced(Numbered(AppKey, n))
              /\ readState'[Server] = readState[Server]
            BY <1>0, <1>4 DEF ReadsOn, Counted, Maps
        <2> QED
            BY <2>1, AdvancedNumbered, KeysApart
    <1>6. Runs(w, <<>>, n) /\ IsSeq(w)
        BY <1>4 DEF ServerOver, Runs
    <1>7. Runs(wire'[Server], <<>>, n + 1)
        BY <1>2, <1>6, RunsHead
    <1>8. (n + 1) + Len(wire'[Server]) = n + Len(w)
        <2>1. Len(Tail(w)) = Len(w) - 1 /\ Len(w) \in Nat \ {0}
            BY <1>2, <1>6, TailOf
        <2> DEFINE l == Len(wire'[Server])
                   k == Len(w)
        <2>2. l = k - 1 /\ k \in Nat \ {0}
            BY <1>2, <2>1
        <2> HIDE DEF l, k
        <2>3. (n + 1) + l = n + k
            BY <2>2
        <2> QED
            BY <2>3 DEF l, k
    <1>9. AppKey' = AppKey /\ AlertR' = AlertR
        BY <1>1, Primes
    <1>10. ServerOver(n + 1)'
        <2>1. Runs(wire[Server], <<>>, n + 1)'
            BY <1>7, <1>9 DEF Runs
        <2>2. (at[Server] \in {"send_tickets", "send_reject"} =>
                  \E m : out[Server] =
                            <<Under(AppKey, n + 1 + Len(wire[Server]), m)>>)'
            BY <1>1, <1>4, <1>8, <1>9 DEF ServerOver, Under
        <2>3. (at[Server] = "send_tickets" =>
                  writeState[Server] =
                     Numbered(AppKey, n + 1 + Len(wire[Server]) + 1))'
            BY <1>1, <1>4, <1>8, <1>9 DEF ServerOver, Numbered
        <2> QED
            BY <2>1, <2>2, <2>3 DEF ServerOver
    <1>11. ASSUME at[Server] # "failed"
           PROVE  (\E k \in Nat : /\ readState[Server] = Numbered(AppKey, k)
                                  /\ ClientOver(<<>>, k))'
        <2>1. PICK k \in Nat : /\ readState[Server] = Numbered(AppKey, k)
                               /\ ClientOver(<<>>, k)
            BY <1>3, <1>11 DEF Ended
        <2>2. ClientOver(<<>>, k)'
            <3>1. Runs(wire[Client], <<>>, k)'
                BY <1>2, <1>9, <2>1 DEF ClientOver, Runs
            <3> QED
                BY <1>1, <1>2, <1>9, <2>1, <3>1 DEF ClientOver, Numbered
        <2>3. (readState[Server] = Numbered(AppKey, k))'
            BY <1>5, <1>9, <2>1 DEF Numbered
        <2> QED
            BY <2>2, <2>3
    <1>12. (\E k \in Nat : readState[Client] = Numbered(AppKey, k) /\ ServerOver(k))'
        <2>1. (readState[Client] = Numbered(AppKey, n + 1))'
            BY <1>5, <1>9 DEF Numbered
        <2>2. n + 1 \in Nat
            OBVIOUS
        <2> QED
            BY <1>10, <2>1, <2>2
    <1>13. Ended'
        BY <1>1, <1>3, <1>11, <1>12 DEF Ended
    <1>14. ClientBegun' /\ ServerBegun'
        BY <1>1, <1>5 DEF ClientBegun, ServerBegun, Undisturbed, Greeting
    <1>15. Situation'
        BY <1>13 DEF Situation
    <1>16. \A e \in Ends : Blamed(e)'
        BY <1>1, Primes DEF Undisturbed, Blamed
    <1> QED
        BY <1>1, <1>2, <1>14, <1>15, <1>16 DEF Undisturbed

LEMMA ServerReadsOnGoes ==
    ASSUME Inv, Undisturbed, ReadsOn(Server)
    PROVE  Undisturbed'
    <1> DEFINE w == wire[Client]
    <1>0. Maps /\ Situation
        BY DEF Inv, Shape, Undisturbed
    <1>1. /\ UNCHANGED <<setup, at, out, writeState, hash, hello, sockOpen>>
          /\ at[Server] = "done" /\ Incoming(Server) /\ Take(Server)
          /\ Upcoming(Server).msg.type # "alert"
        BY DEF ReadsOn, talkVars, endVars
    <1>2. wire'[Client] = Tail(w) /\ wire'[Server] = wire[Server]
          /\ broken' = broken /\ w # <<>> /\ Upcoming(Server) = Head(w)
        BY <1>0, <1>1, TakeFacts DEF Peer, Incoming, Upcoming
    <1>3. Ended
        BY <1>0, <1>1, Located
    <1>4. PICK n \in Nat : /\ readState[Server] = Numbered(AppKey, n)
                           /\ ClientOver(<<>>, n)
        BY <1>1, <1>3 DEF Ended
    <1>5. /\ readState'[Server] = Numbered(AppKey, n + 1)
          /\ readState'[Client] = readState[Client]
        <2>1. /\ readState'[Server] = Advanced(Numbered(AppKey, n))
              /\ readState'[Client] = readState[Client]
            BY <1>0, <1>4 DEF ReadsOn, Counted, Maps
        <2> QED
            BY <2>1, AdvancedNumbered, KeysApart
    <1>6. Runs(w, <<>>, n) /\ IsSeq(w)
        BY <1>4 DEF ClientOver, Runs
    <1>7. /\ Len(Tail(w)) = Len(w) - 1 /\ Head(w) = w[1]
          /\ Len(w) \in Nat \ {0} /\ Len(<<>>) = 0
        BY <1>2, <1>6, TailOf, EmptyFacts
    <1>8. Runs(wire'[Client], <<>>, n + 1)
        BY <1>2, <1>6, RunsHead
    <1>9. at[Client] = "done" /\ writeState[Client] = Numbered(AppKey, n + Len(w))
        <2>1. ~(at[Client] = "send_reject" /\ Len(w) = Len(<<>>))
            BY <1>7
        <2>2. ~(w[Len(<<>>) + 1].msg.type = "alert")
            BY <1>1, <1>2, <1>7
        <2>3. at[Client] = "done"
              /\ writeState[Client] = Numbered(AppKey, n + Len(w) - Len(<<>>))
            BY <1>4, <2>1, <2>2 DEF ClientOver
        <2>4. n + Len(w) - Len(<<>>) = n + Len(w)
            BY <1>7
        <2> QED
            BY <2>3, <2>4
    <1>10. AppKey' = AppKey /\ AlertR' = AlertR
        BY <1>1, Primes
    <1>11. ClientOver(<<>>, n + 1)'
        <2>1. Runs(wire[Client], <<>>, n + 1)'
            BY <1>8, <1>10 DEF Runs
        <2>2. n + 1 + Len(wire'[Client]) - Len(<<>>) = n + Len(w)
            <3> DEFINE l == Len(wire'[Client])
                       k == Len(w)
                       z == Len(<<>>)
            <3>1. l = k - 1 /\ k \in Nat \ {0} /\ z = 0
                BY <1>2, <1>7
            <3> HIDE DEF l, k, z
            <3>2. n + 1 + l - z = n + k
                BY <3>1
            <3> QED
                BY <3>2 DEF l, k, z
        <2>3. (writeState[Client] =
                  Numbered(AppKey, n + 1 + Len(wire[Client]) - Len(<<>>)))'
            BY <1>1, <1>9, <1>10, <2>2 DEF Numbered
        <2> QED
            BY <1>1, <1>9, <2>1, <2>3 DEF ClientOver
    <1>12. (\E k \in Nat : /\ readState[Server] = Numbered(AppKey, k)
                           /\ ClientOver(<<>>, k))'
        <2>1. (readState[Server] = Numbered(AppKey, n + 1))'
            BY <1>5, <1>10 DEF Numbered
        <2>2. n + 1 \in Nat
            OBVIOUS
        <2> QED
            BY <1>11, <2>1, <2>2
    <1>13. (\E k \in Nat : readState[Client] = Numbered(AppKey, k) /\ ServerOver(k))'
        <2>1. PICK k \in Nat : readState[Client] = Numbered(AppKey, k) /\ ServerOver(k)
            BY <1>3, <1>9 DEF Ended
        <2>2. ServerOver(k)'
            <3>1. Runs(wire[Server], <<>>, k)'
                BY <1>2, <1>10, <2>1 DEF ServerOver, Runs
            <3> QED
                BY <1>1, <3>1 DEF ServerOver
        <2>3. (readState[Client] = Numbered(AppKey, k))'
            BY <1>5, <1>10, <2>1 DEF Numbered
        <2> QED
            BY <2>2, <2>3
    <1>14. Ended'
        BY <1>1, <1>3, <1>12, <1>13 DEF Ended
    <1>15. ClientBegun' /\ ServerBegun'
        BY <1>1, <1>5, <1>9 DEF ClientBegun, ServerBegun, Undisturbed, Greeting,
                               Choosing
    <1>16. Situation'
        BY <1>14 DEF Situation
    <1>17. \A e \in Ends : Blamed(e)'
        BY <1>1, Primes DEF Undisturbed, Blamed
    <1> QED
        BY <1>1, <1>2, <1>15, <1>16, <1>17 DEF Undisturbed

\* The client's data follows what it wrote before.
LEMMA DataLeaves ==
    ASSUME Inv, ClientWrites, sockOpen[Server],
           NEW x, IsSeq(x), NEW n \in Nat, ClientOver(x, n)
    PROVE  ClientOver(x, n)'
    <1> DEFINE w == wire[Client]
               k == n + Len(w) - Len(x)
    <1>1. Maps /\ at[Client] = "done" /\ UNCHANGED <<setup, at>>
        BY DEF ClientWrites, Inv, Shape
    <1>2. Runs(w, x, n) /\ writeState[Client] = Numbered(AppKey, k)
        BY <1>1 DEF ClientOver
    <1>3. IsSeq(w) /\ Len(x) <= Len(w)
        BY <1>2 DEF Runs
    <1>4. Len(w) \in Nat /\ Len(x) \in Nat
        BY <1>3, SeqFacts
    <1>5. k \in Nat
        BY <1>3, <1>4
    <1>6. Sealed(writeState[Client], <<Simple("data")>>) =
             <<Under(AppKey, k, Simple("data"))>>
        <2>1. Simple("data").type # "ccs"
            BY DEF Simple
        <2>2. \A i : Sealed(Numbered(AppKey, i), <<Simple("data")>>) =
                        <<Under(AppKey, i, Simple("data"))>>
            BY <2>1, SealedOnce, KeysApart
        <2> HIDE DEF k
        <2> QED
            BY <1>2, <2>2
    <1>7. wire'[Client] = Append(w, Under(AppKey, k, Simple("data")))
        <2>1. wire'[Client] = w \o <<Under(AppKey, k, Simple("data"))>>
            BY <1>1, <1>6 DEF ClientWrites, Maps
        <2> QED
            BY <1>3, <2>1, Concats
    <1>8. Runs(wire'[Client], x, n) /\ Len(wire'[Client]) = Len(w) + 1
        <2> DEFINE l == Append(w, Under(AppKey, n + Len(w) - Len(x),
                                        Simple("data")))
        <2>1. Runs(w, x, n)
            BY <1>2
        <2>2. Runs(l, x, n) /\ Len(l) = Len(w) + 1
            BY <2>1, RunsAppend
        <2>3. l = wire'[Client]
            BY <1>7
        <2> QED
            BY <2>2, <2>3
    <1>9. writeState'[Client] = Numbered(AppKey, k + 1)
        <2>1. writeState'[Client] = Advanced(Numbered(AppKey, k))
            BY <1>1, <1>2 DEF ClientWrites, Maps
        <2> HIDE DEF k
        <2> QED
            BY <1>5, <2>1, AdvancedNumbered, KeysApart
    <1>10. n + Len(wire'[Client]) - Len(x) = k + 1
        BY <1>4, <1>8
    <1>11. Runs(wire[Client], x, n)'
        BY <1>1, <1>8, Primes DEF Runs
    <1>12. (writeState[Client] =
               Numbered(AppKey, n + Len(wire[Client]) - Len(x)))'
        BY <1>1, <1>9, <1>10, Primes DEF Numbered
    <1> QED
        BY <1>1, <1>11, <1>12 DEF ClientOver

LEMMA ClientWritesGoes ==
    ASSUME Inv, Undisturbed, ClientWrites
    PROVE  Undisturbed'
    <1>0. Maps /\ Situation
        BY DEF Inv, Shape, Undisturbed
    <1>1. /\ UNCHANGED <<setup, at, out, readState, pending, hash, hello,
                         choice, master, sockOpen, broken>>
          /\ at[Client] = "done"
        BY DEF ClientWrites, talkVars, endVars
    <1>2. /\ wire'[Server] = wire[Server]
          /\ writeState'[Server] = writeState[Server]
        BY <1>0 DEF ClientWrites, Maps
    <1>3. at[Server] # "failed" => sockOpen[Server]
        BY DEF Undisturbed, Blamed
    <1>4. AppKey' = AppKey
        BY <1>1, Primes
    <1>5. ASSUME Ending
          PROVE  Ending'
        <2>1. PICK x \in Unread : ClientOver(x, 0)
            BY <1>5 DEF Ending
        <2>2. IsSeq(x)
            BY <2>1, UncheckedFacts, UnreadFacts DEF Unread
        <2>3. at[Server] # "failed"
            BY <1>5 DEF Ending, ServerReads
        <2>4. ClientOver(x, 0)'
            BY <1>3, <2>1, <2>2, <2>3, DataLeaves
        <2>5. Unread' = Unread /\ ServerReads'
            <3>1. /\ Ccs' = Ccs /\ FinR' = FinR /\ CertR' = CertR
                  /\ VerifyR' = VerifyR /\ Certified' = Certified
                  /\ Requests' = Requests /\ HsKey' = HsKey
                  /\ Answered' = Answered
                BY <1>1, Primes
            <3>2. Unchecked' = Unchecked
                BY <1>1, <3>1 DEF Unchecked
            <3>3. Unread' = Unread
                BY <3>1, <3>2 DEF Unread, Finishing
            <3>4. ServerReads
                BY <1>5 DEF Ending
            <3>5. ServerReads'
                BY <1>1, <1>2, <1>4, <3>1, <3>4
                DEF ServerReads, Switches, Numbered
            <3> QED
                BY <3>3, <3>5
        <2>6. (\E z \in Unread : ClientOver(z, 0))'
            BY <2>4, <2>5
        <2> QED
            BY <1>1, <1>2, <1>4, <1>5, <2>5, <2>6 DEF Ending, Numbered
    <1>6. ASSUME Ended
          PROVE  Ended'
        <2>1. ASSUME at[Server] # "failed"
              PROVE  (\E k \in Nat : /\ readState[Server] = Numbered(AppKey, k)
                                     /\ ClientOver(<<>>, k))'
            <3>1. PICK k \in Nat : /\ readState[Server] = Numbered(AppKey, k)
                                   /\ ClientOver(<<>>, k)
                BY <1>6, <2>1 DEF Ended
            <3>2. ClientOver(<<>>, k)'
                BY <1>3, <2>1, <3>1, DataLeaves, EmptyFacts
            <3>3. (readState[Server] = Numbered(AppKey, k))'
                BY <1>1, <1>4, <3>1 DEF Numbered
            <3> QED
                BY <3>2, <3>3
        <2>2. (\E k \in Nat : /\ readState[Client] = Numbered(AppKey, k)
                              /\ ServerOver(k))'
            <3>1. PICK k \in Nat : /\ readState[Client] = Numbered(AppKey, k)
                                   /\ ServerOver(k)
                BY <1>1, <1>6 DEF Ended
            <3>2. ServerOver(k)'
                <4>1. Runs(wire[Server], <<>>, k)'
                    BY <1>2, <1>4, <3>1 DEF ServerOver, Runs
                <4> QED
                    BY <1>1, <1>2, <1>4, <3>1, <4>1
                    DEF ServerOver, Under, Numbered
            <3>3. (readState[Client] = Numbered(AppKey, k))'
                BY <1>1, <1>4, <3>1 DEF Numbered
            <3> QED
                BY <3>2, <3>3
        <2> QED
            BY <1>1, <1>6, <2>1, <2>2 DEF Ended
    <1>7. Situation'
        BY <1>0, <1>1, <1>5, <1>6, Located DEF Situation
    <1> QED
        BY <1>1, <1>7, Unmoved

-----------------------------------------------------------------------------
(***************************************************************************)
(* The whole course.                                                       *)
(***************************************************************************)
LEMMA StutterGoes ==
    ASSUME Undisturbed, UNCHANGED vars
    PROVE  Undisturbed'
    <1>1. /\ UNCHANGED <<setup, at, out, writeState, readState, pending, hash,
                         hello, choice, master, sockOpen, wire, broken>>
        BY DEF vars, keyVars, talkVars, endVars, netVars
    <1>2. /\ Retries' = Retries /\ Retry' = Retry /\ Retried' = Retried
          /\ Requests' = Requests /\ Certified' = Certified
          /\ Scheme' = Scheme /\ Met' = Met /\ FlightOf' = FlightOf
          /\ Proven' = Proven /\ HsKey' = HsKey /\ AppKey' = AppKey
          /\ Ccs' = Ccs /\ Alert' = Alert /\ Greeting1' = Greeting1
          /\ RetryR' = RetryR /\ Greeting2' = Greeting2
          /\ Answer1' = Answer1 /\ FlightR' = FlightR /\ CertR' = CertR
          /\ VerifyR' = VerifyR /\ Answered' = Answered /\ FinR' = FinR
          /\ AlertR' = AlertR /\ Blame' = Blame
        BY <1>1, Primes
    <1>3. Situation
        BY DEF Undisturbed
    <1>4. /\ Starting' = Starting /\ HelloOut' = HelloOut
          /\ HelloSent' = HelloSent
        BY <1>1, <1>2 DEF Starting, HelloOut, HelloSent
    <1>5. /\ RetryOut' = RetryOut /\ RetryUnread' = RetryUnread
          /\ SecondOut' = SecondOut /\ SecondUnread' = SecondUnread
        BY <1>1, <1>2 DEF RetryOut, RetryUnread, SecondOut, SecondUnread
    <1>6. RefusalOut' = RefusalOut /\ RefusalUnread' = RefusalUnread
        BY <1>1, <1>2 DEF RefusalOut, RefusalUnread
    <1>7. Hellos' = Hellos /\ Listening' = Listening
        BY <1>1, <1>2 DEF Hellos, Listening
    <1>8. AnswerOut' = AnswerOut /\ Unproven' = Unproven
        <2>1. Outcomes' = Outcomes
            BY <1>1 DEF Outcomes, server
        <2> QED
            BY <1>1, <1>2, <1>7, <2>1 DEF AnswerOut, Unproven
    <1>9. Checks0' = Checks0 /\ Switches' = Switches
        BY <1>1, <1>2 DEF Checks0, Switches, Numbered
    <1>10. ASSUME NEW right \in BOOLEAN
           PROVE  /\ FlightOut(right)' = FlightOut(right)
                  /\ FlightUnread(right)' = FlightUnread(right)
        <2>1. FlightR'[right] = FlightR[right]
              /\ FlightOf'[right] = FlightOf[right]
            BY <1>2
        <2>2. FlightOut(right)' = FlightOut(right)
            BY <1>1, <1>2, <1>7, <2>1 DEF FlightOut, Numbered
        <2>3. FlightUnread(right)' = FlightUnread(right)
            BY <1>1, <1>2, <1>7, <1>9, <2>1 DEF FlightUnread
        <2> QED
            BY <2>2, <2>3
    <1>11. DoubtOut' = DoubtOut /\ DoubtUnread' = DoubtUnread
        BY <1>1, <1>2, <1>9 DEF DoubtOut, DoubtUnread
    <1>12. /\ ServerReads' = ServerReads /\ Unchecked' = Unchecked
           /\ CertificateGone' = CertificateGone
        BY <1>1, <1>2, <1>9
        DEF ServerReads, Unchecked, CertificateGone, Numbered
    <1>13. /\ CertificateOut' = CertificateOut /\ VerifyOut' = VerifyOut
           /\ Unsigned' = Unsigned /\ FinishedOut' = FinishedOut
        BY <1>1, <1>2, <1>12
        DEF CertificateOut, VerifyOut, Unsigned, FinishedOut, Numbered
    <1>14. \A x, n : Runs(wire[Client], x, n)' = Runs(wire[Client], x, n)
                     /\ Runs(wire[Server], x, n)' = Runs(wire[Server], x, n)
        BY <1>1, <1>2 DEF Runs
    <1>15. \A x, n : ClientOver(x, n)' = ClientOver(x, n)
        BY <1>1, <1>2, <1>14 DEF ClientOver, Numbered
    <1>16. \A n : ServerOver(n)' = ServerOver(n)
        BY <1>1, <1>2, <1>14 DEF ServerOver, Numbered, Under
    <1>17. Unread' = Unread
        BY <1>2, <1>12 DEF Unread, Finishing
    <1>18. Ending' = Ending
        BY <1>1, <1>2, <1>12, <1>15, <1>17 DEF Ending, Numbered
    <1>19. Ended' = Ended
        BY <1>1, <1>2, <1>15, <1>16 DEF Ended, Numbered
    <1>20. Situation'
        BY <1>3, <1>4, <1>5, <1>6, <1>8, <1>10, <1>11, <1>13, <1>18, <1>19
        DEF Situation
    <1> QED
        BY <1>1, <1>20, Unmoved

LEMMA ClientStepsGo ==
    ASSUME Inv, Undisturbed, ClientSteps
    PROVE  Undisturbed'
    BY SendClientHelloGoes, ClientHelloSentGoes, ReadRetryGoes,
       RefuseRetryNot, SecondHelloSentGoes, ReadServerHelloGoes,
       RejectServerHelloNot, ReadFlightGoes, ReadFlightRequestingGoes,
       RefuseProofGoes, EmptyCertificateSentGoes, CertificateSentGoes,
       CannotSignGoes, VerifySentGoes, ClientFinishedSentGoes
    DEF ClientSteps

LEMMA ServerStepsGo ==
    ASSUME Inv, Undisturbed, ServerSteps
    PROVE  Undisturbed'
    BY ReadHelloGoes, ReadHelloRetryingGoes, RefuseHelloGoes, RetrySentGoes,
       ReadSecondHelloGoes, RefuseSecondHelloNot, AnswerSentGoes,
       CannotProveGoes, FlightSentGoes, ReadCertificateGoes, ReadVerifyGoes,
       ReadFinishedGoes, TicketsSentGoes
    DEF ServerSteps

LEMMA CommonStepsGo ==
    ASSUME Inv, Undisturbed, NEW e \in Ends, CommonSteps(e) \/ ReadsOn(e)
    PROVE  Undisturbed'
    BY ClientSkipsGoes, ServerSkipsGoes, GetAlertGoes, RefuseNot,
       ClientAlertGoes, ServerAlertGoes, PeerGoneGoes, SendFailsGoes,
       SalvageFailsGoes, SalvageFallsThroughNot, ClientReadsOnGoes,
       ServerReadsOnGoes
    DEF CommonSteps

\* Only the network counts faults, and each of its steps is one.
LEMMA FaultsCounted ==
    ASSUME [Next]_vars
    PROVE  IF Break \/ Damage THEN faults' = faults + 1 ELSE faults' = faults
    <1>1. ASSUME ClientSteps
          PROVE  faults' = faults
        BY <1>1 DEF ClientSteps, SendClientHello, ClientHelloSent, ReadRetry,
           RefuseRetry, SecondHelloSent, ReadServerHello, RejectServerHello,
           ReadFlight, ReadFlightRequesting, RefuseProof, EmptyCertificateSent,
           CertificateSent, CannotSign, VerifySent, ClientFinishedSent,
           Receives, Take, Sent, netVars
    <1>2. ASSUME ServerSteps
          PROVE  faults' = faults
        BY <1>2 DEF ServerSteps, ReadHello, ReadHelloRetrying, RefuseHello,
           RetrySent, ReadSecondHello, RefuseSecondHello, AnswerSent,
           CannotProve, FlightSent, ReadCertificate, ReadVerify, ReadFinished,
           TicketsSent, Receives, Take, Sent, netVars
    <1>3. ASSUME NEW e \in Ends, CommonSteps(e) \/ ReadsOn(e)
          PROVE  faults' = faults
        BY <1>3 DEF CommonSteps, ReadsOn, SkipCcs, GetAlert, Refuse, AlertSent,
           PeerGone, FlushFails, SendFails, SalvageFails, SalvageFallsThrough,
           Take, AtEnd, Sent, netVars
    <1>4. ASSUME ClientWrites
          PROVE  faults' = faults
        BY <1>4 DEF ClientWrites
    <1>5. ASSUME UNCHANGED vars
          PROVE  faults' = faults
        BY <1>5 DEF vars, netVars
    <1>6. ASSUME Break \/ Damage
          PROVE  faults' = faults + 1
        BY <1>6 DEF Break, Damage
    <1> QED
        BY <1>1, <1>2, <1>3, <1>4, <1>5, <1>6 DEF Next

LEMMA CourseInit ==
    ASSUME Init
    PROVE  Course
    <1>1. /\ at[Client] = "start" /\ at[Server] = "wait_hello"
          /\ \A e \in Ends : /\ readState[e] = NoState /\ hash[e] = <<>>
                             /\ wire[e] = <<>> /\ sockOpen[e]
          /\ DOMAIN hello = Ends /\ DOMAIN sockOpen = Ends
          /\ ~broken /\ faults = 0
        BY DEF Init
    <1>2. Situation
        BY <1>1 DEF Situation, Starting
    <1>3. ClientBegun /\ ServerBegun
        BY <1>1 DEF ClientBegun, ServerBegun
    <1>4. \A e \in Ends : Blamed(e)
        BY <1>1 DEF Blamed
    <1> QED
        BY <1>1, <1>2, <1>3, <1>4 DEF Course, Undisturbed

LEMMA CourseStep ==
    ASSUME Inv, Course, [Next]_vars
    PROVE  Course'
    <1>1. ASSUME Undisturbed, ~(Break \/ Damage)
          PROVE  Undisturbed'
        <2>1. CASE \E e \in Ends : CommonSteps(e) \/ ReadsOn(e)
            BY <1>1, <2>1, CommonStepsGo
        <2> QED
            BY <1>1, <2>1, ClientStepsGo, ServerStepsGo, ClientWritesGoes,
               StutterGoes DEF Next
    <1> QED
        BY <1>1, FaultsCounted DEF Course

LEMMA CourseHolds == Spec => [](Inv /\ Course)
    <1>1. Init => Inv /\ Course
        BY InitInv, CourseInit
    <1>2. Inv /\ Course /\ [Next]_vars => (Inv /\ Course)'
        BY InvStep, CourseStep
    <1> QED
        BY <1>1, <1>2, PTL DEF Spec

\* As long as nothing was damaged and the connection did not break, no end
\* ever meets a record it cannot open: the two switch to the same keys, with
\* the same numbers, between the same records, whatever the order in which
\* they send and read and whichever change_cipher_spec and alert they skip.
THEOREM InStep == Spec => []ReadsInStep
    <1>1. Inv /\ Course => ReadsInStep
        <2>1. ASSUME Inv, Course, NEW e \in Ends, faults = 0, Incoming(e),
                     at[e] \in Waiting \cup Salvaging \cup {"done"}
              PROVE  Opens(e) \/ PlainAlert(e) \/ SkipsCcs(e)
            BY <2>1, LegibleNext DEF Course, Legible
        <2> QED
            BY <2>1 DEF ReadsInStep
    <1> QED
        BY <1>1, CourseHolds, PTL

\* A handshake only fails for a reason: a fault of the network, settings that
\* do not go together, or a checker that rejects the peer.  No retry,
\* resumption, certificate request or alert of one end makes the other one
\* give up by itself.
THEOREM FailuresExplained == Spec => []FailsWithReason
    <1>1. Inv /\ Course => FailsWithReason
        <2>1. ASSUME Course, NEW e \in Ends, at[e] = "failed"
              PROVE  \/ faults > 0 \/ ~Compatible
                     \/ client.rejects \/ server.rejects
            <3>1. CASE faults = 0
                BY <2>1, <3>1 DEF Course, Undisturbed, Blamed, Blame
            <3>2. CASE faults # 0
                BY <2>1, <3>2 DEF Course
            <3> QED
                BY <3>1, <3>2
        <2> QED
            BY <2>1 DEF FailsWithReason
    <1> QED
        BY <1>1, CourseHolds, PTL
=============================================================================
