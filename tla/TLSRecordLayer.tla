---------------------------- MODULE TLSRecordLayer ----------------------------
(***************************************************************************)
(* Two ends of an established TLS 1.3 connection: tlslite/tlsrecordlayer.py *)
(* (read, write, close, KeyUpdate, alerts) over tlslite/recordlayer.py      *)
(* (one key per direction and generation, one sequence number per record).  *)
(*                                                                         *)
(* An operation is a generator that is suspended whenever its socket would  *)
(* block, so sealing a record, putting it on the wire and what the caller   *)
(* does next are separate steps between which the other end runs.  An end   *)
(* runs one operation at a time, as blocking callers and                    *)
(* integration/asyncstatemachine.py do.                                     *)
(***************************************************************************)
EXTENDS Integers, Sequences

CONSTANTS
    Client, Server,       \* the two ends
    CloseSocket,          \* per end: the closeSocket attribute
    IgnoreAbruptClose,    \* per end: the ignoreAbruptClose attribute
    MaxWrites,            \* bound: records of application data per end
    MaxFragments,         \* records one call of write() may need
    MaxUpdates,           \* bound: send_keyupdate_request() calls per end
    MaxTickets,           \* tickets in flight when the handshake ends
    WireCapacity,         \* records a socket takes before it would block
    MaxFaults             \* bound: breaks of the network and damaged records

Ends == {Client, Server}
Peer(e) == IF e = Client THEN Server ELSE Client

ASSUME EndsAssumption == Client # Server
ASSUME SettingsAssumption ==
    /\ CloseSocket \in [Ends -> BOOLEAN]
    /\ IgnoreAbruptClose \in [Ends -> BOOLEAN]
ASSUME BoundsAssumption ==
    /\ MaxWrites \in Nat
    /\ MaxFragments \in Nat
    /\ MaxUpdates \in Nat
    /\ MaxTickets \in Nat
    /\ WireCapacity \in Nat \ {0}
    /\ MaxFaults \in Nat

VARIABLES
    writeState,  \* per end: [gen, seq] of _recordLayer._writeState
    readState,   \* per end: [gen, seq] of _recordLayer._readState
    secrets,     \* per end: its session's secret generation, per direction
    closed,      \* per end
    resumable,   \* per end: session.resumable
    at,          \* per end: where the running operation is suspended
    out,         \* per end: the sealed record it is sending
    left,        \* per end: fragments write() has still to seal
    wire,        \* per end: the records it sent that its peer has not read
    sockOpen,    \* per end: it has not closed its socket
    broken,      \* the network dropped the connection
    written,     \* per end: application data records it sealed
    delivered,   \* per end: number of the latest one its application got,
                 \*   before any call of it raised
    updates,     \* per end: calls of send_keyupdate_request()
    requests,    \* history, per end: those that asked the peer to update
    faults,      \* faults so far
    used,        \* history, per end: the (gen, seq) pairs it sealed with
    failed,      \* history, per end: it sent or got a fatal alert, or
                 \*   refused a record
    reported     \* history, per end: what the application saw first of
                 \*   "eof", "error" and "closed"

keyVars == <<writeState, readState, secrets>>
endVars == <<closed, resumable, sockOpen>>
opVars == <<at, out, left>>
netVars == <<wire, broken, faults>>
appVars == <<written, delivered, updates, requests>>
pastVars == <<used, failed, reported>>
vars == <<keyVars, endVars, opVars, netVars, appVars, pastVars>>

Kinds == {"application_data", "new_session_ticket", "close_notify", "fatal",
          "update_requested", "update_not_requested"}
KeyUpdates == {"update_requested", "update_not_requested"}
Alerts == {"close_notify", "fatal"}

Sending == {"send_data", "send_update", "send_reply", "send_answer",
            "send_error", "send_error_closing", "send_close"}
Salvaging == {"salvage_update", "salvage_reply"}
Receiving == {"reading", "awaiting"} \cup Salvaging

Plain == -1                       \* generation of a state without keys
States == [gen : Nat \cup {Plain}, seq : Nat]
Records == [kind : Kinds, gen : Nat \cup {Plain}, seq : Nat, number : Nat,
            intact : BOOLEAN]
NoRecord == [kind |-> "none"]

KeyTypes ==
    /\ writeState \in [Ends -> States]
    /\ readState \in [Ends -> States]
    /\ secrets \in [Ends -> [Ends -> Nat]]

EndTypes ==
    /\ closed \in [Ends -> BOOLEAN]
    /\ resumable \in [Ends -> BOOLEAN]
    /\ sockOpen \in [Ends -> BOOLEAN]

OpTypes ==
    /\ at \in [Ends -> {"idle"} \cup Sending \cup Receiving]
    /\ out \in [Ends -> Records \cup {NoRecord}]
    /\ left \in [Ends -> Nat]
    /\ \A e \in Ends : at[e] \in Sending <=> out[e] # NoRecord

NetTypes ==
    /\ wire \in [Ends -> Seq(Records)]
    /\ broken \in BOOLEAN
    /\ faults \in Nat

AppTypes ==
    /\ written \in [Ends -> Nat]
    /\ delivered \in [Ends -> Nat]
    /\ updates \in [Ends -> Nat]
    /\ requests \in [Ends -> Nat]

PastTypes ==
    /\ used \in [Ends -> SUBSET ((Nat \cup {Plain}) \X Nat)]
    /\ failed \in [Ends -> BOOLEAN]
    /\ reported \in [Ends -> {"nothing", "eof", "error", "closed"}]

TypeOK == KeyTypes /\ EndTypes /\ OpTypes /\ NetTypes /\ AppTypes /\ PastTypes

-----------------------------------------------------------------------------
(***************************************************************************)
(* The handshake is over.  The server may already have sent its tickets,   *)
(* which the client finds when it first reads.                             *)
(***************************************************************************)
Init ==
    \E n \in 0..MaxTickets :
        /\ writeState = [e \in Ends |->
                           [gen |-> 0, seq |-> IF e = Server THEN n ELSE 0]]
        /\ readState = [e \in Ends |-> [gen |-> 0, seq |-> 0]]
        /\ secrets = [e \in Ends |-> [d \in Ends |-> 0]]
        /\ closed = [e \in Ends |-> FALSE]
        /\ resumable = [e \in Ends |-> TRUE]
        /\ at = [e \in Ends |-> "idle"]
        /\ out = [e \in Ends |-> NoRecord]
        /\ left = [e \in Ends |-> 0]
        /\ wire = [e \in Ends |->
                      [i \in 1..(IF e = Server THEN n ELSE 0) |->
                          [kind |-> "new_session_ticket", gen |-> 0,
                           seq |-> i - 1, number |-> 0, intact |-> TRUE]]]
        /\ sockOpen = [e \in Ends |-> TRUE]
        /\ broken = FALSE
        /\ written = [e \in Ends |-> 0]
        /\ delivered = [e \in Ends |-> 0]
        /\ updates = [e \in Ends |-> 0]
        /\ requests = [e \in Ends |-> 0]
        /\ faults = 0
        /\ used = [e \in Ends |->
                      IF e = Server THEN {<<0, i - 1>> : i \in 1..n} ELSE {}]
        /\ failed = [e \in Ends |-> FALSE]
        /\ reported = [e \in Ends |-> "nothing"]

-----------------------------------------------------------------------------
(***************************************************************************)
(* The record layer: what an operation does between two suspensions.       *)
(***************************************************************************)

\* calcTLS1_3KeyUpdate_sender and _reciever: the state of the next generation.
NextGenerationSame(gen) == gen               \* mutant: secret not replaced
NextGeneration(gen) == gen + 1
KeyedByEarly(gen) == [gen |-> gen, seq |-> -1] \* mutant: counts from -1
KeyedBy(gen) == [gen |-> gen, seq |-> 0]

\* sendRecord, up to its first attempt to write: the record is sealed with
\* the current key and sequence number, however long it then waits.
Seal(e, kind) ==
    LET state == writeState[e]
        n == IF kind = "application_data" THEN written[e] + 1 ELSE written[e]
    IN  /\ out' = [out EXCEPT ![e] =
                      [kind |-> kind, gen |-> state.gen, seq |-> state.seq,
                       number |-> n, intact |-> TRUE]]
        /\ writeState' = [writeState EXCEPT ![e].seq = @ + 1]
        /\ written' = [written EXCEPT ![e] = n]
        /\ used' = [used EXCEPT ![e] = @ \cup {<<state.gen, state.seq>>}]

\* The socket takes the sealed record.  A peer that closed its socket loses it.
Put(e) ==
    /\ ~broken
    /\ sockOpen[Peer(e)] => Len(wire[e]) < WireCapacity
    /\ wire' = IF sockOpen[Peer(e)]
               THEN [wire EXCEPT ![e] = Append(@, out[e])] ELSE wire

\* The write to the socket raises socket.error.
Unsendable(e) == broken \/ ~sockOpen[Peer(e)]

\* recvRecord: the next record opens under the current key and number.
Incoming(e) == wire[Peer(e)] # <<>>
Upcoming(e) == Head(wire[Peer(e)])
Opens(e) ==
    /\ Upcoming(e).intact
    /\ Upcoming(e).gen = readState[e].gen
    /\ Upcoming(e).seq = readState[e].seq

Take(e) == wire' = [wire EXCEPT ![Peer(e)] = Tail(@)]
CountRecord(e) == readState' = [readState EXCEPT ![e].seq = @ + 1]

Arrives(e, where, kinds) ==
    /\ at[e] = where
    /\ Incoming(e)
    /\ Opens(e)
    /\ Upcoming(e).kind \in kinds
    /\ Take(e)

\* The socket has nothing more to read: end of file, or socket.error.
AtEnd(e) == ~Incoming(e) /\ (broken \/ ~sockOpen[Peer(e)])

\* _shutdown(keep): both states are replaced by empty ones.
NoKeys == [gen |-> Plain, seq |-> 0]
ResetStates(e) ==
    /\ writeState' = [writeState EXCEPT ![e] = NoKeys]
    /\ readState' = [readState EXCEPT ![e] = NoKeys]

\* mutant: the connection is not marked closed
EndSessionOpen(e, keep) ==
    /\ sockOpen' = [sockOpen EXCEPT ![e] = @ /\ ~CloseSocket[e]]
    /\ resumable' = [resumable EXCEPT ![e] = @ /\ keep]
    /\ UNCHANGED closed

EndSession(e, keep) ==
    /\ closed' = [closed EXCEPT ![e] = TRUE]
    /\ sockOpen' = [sockOpen EXCEPT ![e] = @ /\ ~CloseSocket[e]]
    /\ resumable' = [resumable EXCEPT ![e] = @ /\ keep]

\* mutant: the session is kept whatever ended the connection
ShutdownKeep(e, keep) == ResetStates(e) /\ EndSession(e, TRUE)
Shutdown(e, keep) == ResetStates(e) /\ EndSession(e, keep)

Goto(e, where) == at' = [at EXCEPT ![e] = where]
Finish(e, what) ==
    /\ Goto(e, "idle")
    /\ out' = [out EXCEPT ![e] = NoRecord]
    /\ left' = [left EXCEPT ![e] = 0]
    /\ reported' = [reported EXCEPT ![e] = IF @ = "nothing" THEN what ELSE @]

-----------------------------------------------------------------------------
(***************************************************************************)
(* Calls of the application.                                               *)
(***************************************************************************)

\* write(s): the first fragment is sealed, the others follow one by one.
Write(e) ==
    /\ at[e] = "idle" /\ ~closed[e]
    /\ \E n \in 1..MaxFragments :
          /\ written[e] + n <= MaxWrites
          /\ left' = [left EXCEPT ![e] = n - 1]
    /\ Seal(e, "application_data")
    /\ Goto(e, "send_data")
    /\ UNCHANGED <<readState, secrets, endVars, netVars, delivered, updates,
                   requests, failed, reported>>

\* write(s) on a closed connection raises and shuts the connection down
\* again, which makes the session of an orderly closed one not resumable.
WriteClosed(e) ==
    /\ at[e] = "idle" /\ closed[e]
    /\ Shutdown(e, IgnoreAbruptClose[e])
    /\ Finish(e, "error")
    /\ UNCHANGED <<secrets, netVars, appVars, used, failed>>

Read(e) ==
    /\ at[e] = "idle" /\ ~closed[e]
    /\ Goto(e, "reading")
    /\ UNCHANGED <<keyVars, endVars, out, left, netVars, appVars, pastVars>>

\* read() on a closed connection returns the empty string.
ReadClosed(e) ==
    /\ at[e] = "idle" /\ closed[e]
    /\ Finish(e, "eof")
    /\ UNCHANGED <<keyVars, endVars, netVars, appVars, used, failed>>

SendKeyUpdate(e) ==
    /\ at[e] = "idle" /\ ~closed[e]
    /\ updates[e] < MaxUpdates
    /\ updates' = [updates EXCEPT ![e] = @ + 1]
    /\ \E kind \in KeyUpdates :
          /\ Seal(e, kind)
          /\ requests' = IF kind = "update_requested"
                         THEN [requests EXCEPT ![e] = @ + 1] ELSE requests
    /\ Goto(e, "send_update")
    /\ UNCHANGED <<readState, secrets, endVars, left, netVars, delivered,
                   failed, reported>>

\* close() of the last reference: _decrefAsync sends close_notify.
Close(e) ==
    /\ at[e] = "idle" /\ ~closed[e]
    /\ Seal(e, "close_notify")
    /\ Goto(e, "send_close")
    /\ UNCHANGED <<readState, secrets, endVars, left, netVars, delivered,
                   updates, requests, failed, reported>>

-----------------------------------------------------------------------------
(***************************************************************************)
(* The record an end is sending goes out.                                  *)
(***************************************************************************)
FragmentSent(e) ==
    /\ at[e] = "send_data" /\ left[e] > 0
    /\ Put(e)
    /\ left' = [left EXCEPT ![e] = @ - 1]
    /\ Seal(e, "application_data")
    /\ UNCHANGED <<readState, secrets, endVars, at, broken, faults, delivered,
                   updates, requests, failed, reported>>

WriteDone(e) ==
    /\ at[e] = "send_data" /\ left[e] = 0
    /\ Put(e)
    /\ Finish(e, "nothing")
    /\ UNCHANGED <<keyVars, endVars, broken, faults, appVars, used, failed>>

\* send_keyupdate_request switches the write key once the message is out.
SwitchWriteKey(e) ==
    LET gen == NextGeneration(secrets[e][e])
    IN  /\ secrets' = [secrets EXCEPT ![e][e] = gen]
        /\ writeState' = [writeState EXCEPT ![e] = KeyedBy(gen)]

KeyUpdateSent(e) ==
    /\ at[e] \in {"send_update", "send_reply"}
    /\ Put(e)
    /\ SwitchWriteKey(e)
    /\ Goto(e, IF at[e] = "send_reply" THEN "reading" ELSE "idle")
    /\ out' = [out EXCEPT ![e] = NoRecord]
    /\ UNCHANGED <<readState, endVars, left, broken, faults, appVars, pastVars>>

\* The answer to a close_notify; a socket.error makes no difference.
AnswerOmitted(e) ==                      \* mutant: no close_notify in return
    /\ at[e] = "send_answer"
    /\ Shutdown(e, TRUE)
    /\ Finish(e, "eof")
    /\ UNCHANGED <<secrets, netVars, appVars, used, failed>>

AnswerSent(e) ==
    /\ at[e] = "send_answer"
    /\ Put(e) \/ (Unsendable(e) /\ UNCHANGED wire)
    /\ Shutdown(e, TRUE)
    /\ Finish(e, "eof")
    /\ UNCHANGED <<secrets, broken, faults, appVars, used, failed>>

\* _sendError: the fatal alert is out, the session is not resumable.
ErrorSent(e) ==
    /\ at[e] \in {"send_error", "send_error_closing"}
    /\ Put(e)
    /\ Shutdown(e, FALSE)
    /\ failed' = [failed EXCEPT ![e] = TRUE]
    /\ Finish(e, "error")
    /\ UNCHANGED <<secrets, broken, faults, appVars, used>>

\* close() does not wait for an answer unless it leaves the socket open.
CloseSent(e) ==
    /\ at[e] = "send_close" /\ CloseSocket[e]
    /\ Put(e)
    /\ Shutdown(e, TRUE)
    /\ Finish(e, "closed")
    /\ UNCHANGED <<secrets, broken, faults, appVars, used, failed>>

CloseSentAwaiting(e) ==
    /\ at[e] = "send_close" /\ ~CloseSocket[e]
    /\ Put(e)
    /\ Goto(e, "awaiting")
    /\ out' = [out EXCEPT ![e] = NoRecord]
    /\ UNCHANGED <<keyVars, endVars, left, broken, faults, appVars, pastVars>>

-----------------------------------------------------------------------------
(***************************************************************************)
(* The socket refuses the record an end is sending.                        *)
(***************************************************************************)
WriteFails(e) ==
    /\ at[e] = "send_data" /\ Unsendable(e)
    /\ Shutdown(e, IgnoreAbruptClose[e])
    /\ Finish(e, "error")
    /\ UNCHANGED <<secrets, netVars, appVars, used, failed>>

\* A KeyUpdate is a handshake message: _sendMsgThroughSocket goes on to read
\* one record, in case an alert explains the failure.
KeyUpdateFails(e) ==
    /\ at[e] \in {"send_update", "send_reply"} /\ Unsendable(e)
    /\ Goto(e, IF at[e] = "send_update" THEN "salvage_update"
               ELSE "salvage_reply")
    /\ out' = [out EXCEPT ![e] = NoRecord]
    /\ UNCHANGED <<keyVars, endVars, left, netVars, appVars, pastVars>>

\* In read() the socket.error closes the connection as failed; in close()
\* it is taken for the other side's closing the socket.
ErrorFails(e) ==
    /\ at[e] \in {"send_error", "send_error_closing"} /\ Unsendable(e)
    /\ Shutdown(e, at[e] = "send_error_closing")
    /\ Finish(e, IF at[e] = "send_error" THEN "error" ELSE "closed")
    /\ UNCHANGED <<secrets, netVars, appVars, used, failed>>

CloseFails(e) ==
    /\ at[e] = "send_close" /\ Unsendable(e)
    /\ Shutdown(e, TRUE)
    /\ Finish(e, "closed")
    /\ UNCHANGED <<secrets, netVars, appVars, used, failed>>

-----------------------------------------------------------------------------
(***************************************************************************)
(* read(): _getMsg and what readAsync does with each message.              *)
(***************************************************************************)
ReadData(e) ==
    /\ Arrives(e, "reading", {"application_data"})
    /\ CountRecord(e)
    /\ delivered' = [delivered EXCEPT ![e] =
                        IF reported[e] = "error" THEN @ ELSE Upcoming(e).number]
    /\ Finish(e, "nothing")
    /\ UNCHANGED <<writeState, secrets, endVars, broken, faults, written,
                   updates, requests, used, failed>>

ReadTicket(e) ==
    /\ Arrives(e, "reading", {"new_session_ticket"})
    /\ CountRecord(e)
    /\ UNCHANGED <<writeState, secrets, endVars, opVars, broken, faults,
                   appVars, pastVars>>

\* _handle_keyupdate_request: the read key is switched at once, the peer's
\* request is answered with a KeyUpdate of the end's own.
SwitchReadKeyCounting(e) ==              \* mutant: seqnum not reset
    LET gen == NextGeneration(secrets[e][Peer(e)])
    IN  /\ secrets' = [secrets EXCEPT ![e][Peer(e)] = gen]
        /\ readState' = [readState EXCEPT ![e].gen = gen]

SwitchReadKey(e) ==
    LET gen == NextGeneration(secrets[e][Peer(e)])
    IN  /\ secrets' = [secrets EXCEPT ![e][Peer(e)] = gen]
        /\ readState' = [readState EXCEPT ![e] = KeyedBy(gen)]

ReadKeyUpdate(e) ==
    /\ Arrives(e, "reading", {"update_not_requested"})
    /\ SwitchReadKey(e)
    /\ UNCHANGED <<writeState, endVars, opVars, broken, faults, appVars,
                   pastVars>>

ReadKeyUpdateRequestSilent(e) ==         \* mutant: the request is not answered
    /\ Arrives(e, "reading", {"update_requested"})
    /\ SwitchReadKey(e)
    /\ UNCHANGED <<writeState, endVars, opVars, broken, faults, appVars,
                   pastVars>>

ReadKeyUpdateRequest(e) ==
    /\ Arrives(e, "reading", {"update_requested"})
    /\ SwitchReadKey(e)
    /\ Seal(e, "update_not_requested")
    /\ Goto(e, "send_reply")
    /\ UNCHANGED <<endVars, left, broken, faults, delivered, updates,
                   requests, failed, reported>>

ReadCloseNotify(e) ==
    /\ Arrives(e, "reading", {"close_notify"})
    /\ CountRecord(e)
    /\ Seal(e, "close_notify")
    /\ Goto(e, "send_answer")
    /\ UNCHANGED <<secrets, endVars, left, broken, faults, delivered, updates,
                   requests, failed, reported>>

\* A fatal alert, in read() or while close() waits for the answer.
GetFatal(e) ==
    /\ \E where \in {"reading", "awaiting"} : Arrives(e, where, {"fatal"})
    /\ Shutdown(e, FALSE)
    /\ failed' = [failed EXCEPT ![e] = TRUE]
    /\ Finish(e, "error")
    /\ UNCHANGED <<secrets, broken, faults, appVars, used>>

\* A record that does not open: bad_record_mac.
Refuse(e) ==
    /\ at[e] \in {"reading", "awaiting"}
    /\ Incoming(e) /\ ~Opens(e)
    /\ Take(e)
    /\ CountRecord(e)
    /\ Seal(e, "fatal")
    /\ Goto(e, IF at[e] = "reading" THEN "send_error"
               ELSE "send_error_closing")
    /\ UNCHANGED <<secrets, endVars, left, broken, faults, delivered, updates,
                   requests, failed, reported>>

\* TLSAbruptCloseError out of read(), or out of the salvaging read of a reply.
ReadEof(e) ==
    /\ at[e] \in {"reading", "salvage_reply"} /\ AtEnd(e)
    /\ Shutdown(e, IgnoreAbruptClose[e])
    /\ Finish(e, IF IgnoreAbruptClose[e] THEN "eof" ELSE "error")
    /\ UNCHANGED <<secrets, netVars, appVars, used, failed>>

\* socket.error out of the same.
ReadReset(e) ==
    /\ at[e] \in {"reading", "salvage_reply"} /\ AtEnd(e) /\ broken
    /\ Shutdown(e, FALSE)
    /\ Finish(e, "error")
    /\ UNCHANGED <<secrets, netVars, appVars, used, failed>>

-----------------------------------------------------------------------------
(***************************************************************************)
(* close() that waits for the peer's close_notify (closeSocket False).     *)
(***************************************************************************)
AwaitData(e) ==
    /\ Arrives(e, "awaiting", {"application_data"})
    /\ CountRecord(e)
    /\ UNCHANGED <<writeState, secrets, endVars, opVars, broken, faults,
                   appVars, pastVars>>

AwaitCloseNotify(e) ==
    /\ Arrives(e, "awaiting", {"close_notify"})
    /\ Shutdown(e, TRUE)
    /\ Finish(e, "closed")
    /\ UNCHANGED <<secrets, broken, faults, appVars, used, failed>>

\* A handshake message is not among the types close() accepts.
AwaitHandshake(e) ==
    /\ Arrives(e, "awaiting", KeyUpdates \cup {"new_session_ticket"})
    /\ CountRecord(e)
    /\ Seal(e, "fatal")
    /\ Goto(e, "send_error_closing")
    /\ UNCHANGED <<secrets, endVars, left, broken, faults, delivered, updates,
                   requests, failed, reported>>

AwaitEnd(e) ==
    /\ at[e] = "awaiting" /\ AtEnd(e)
    /\ Shutdown(e, TRUE)
    /\ Finish(e, "closed")
    /\ UNCHANGED <<secrets, netVars, appVars, used, failed>>

-----------------------------------------------------------------------------
(***************************************************************************)
(* _sendMsgThroughSocket after a KeyUpdate could not be sent: it reads one *)
(* record, shuts down, and raises only if the record is an alert.          *)
(***************************************************************************)

\* Not an alert: the error is lost, and the caller goes on to switch the
\* write key of a connection that is already shut down.
SalvageOtherGoesOn(e) ==                 \* mutant: no shutdown
    /\ \E where \in Salvaging : Arrives(e, where, Kinds \ Alerts)
    /\ CountRecord(e)
    /\ Finish(e, "nothing")
    /\ UNCHANGED <<writeState, secrets, endVars, broken, faults, appVars,
                   used, failed>>

SalvageOther(e) ==
    /\ \E where \in Salvaging : Arrives(e, where, Kinds \ Alerts)
    /\ EndSession(e, FALSE)
    /\ readState' = [readState EXCEPT ![e] = NoKeys]
    /\ SwitchWriteKey(e)
    /\ Finish(e, IF at[e] = "salvage_reply" THEN "eof" ELSE "nothing")
    /\ UNCHANGED <<broken, faults, appVars, used, failed>>

\* An alert: raised, and swallowed by read() if it is a close_notify.
SalvageAlert(e) ==
    /\ \E where \in Salvaging : Arrives(e, where, Alerts)
    /\ Shutdown(e, FALSE)
    /\ LET notify == Upcoming(e).kind = "close_notify"
       IN  /\ failed' = [failed EXCEPT ![e] = @ \/ ~notify]
           /\ Finish(e, IF notify /\ at[e] = "salvage_reply" THEN "eof"
                        ELSE "error")
    /\ UNCHANGED <<secrets, broken, faults, appVars, used>>

\* A damaged record: the alert about it cannot be sent either, and read()
\* closes the connection on the socket.error.
SalvageRefusedReading(e) ==
    /\ at[e] = "salvage_reply"
    /\ Incoming(e) /\ ~Opens(e)
    /\ Take(e)
    /\ Shutdown(e, FALSE)
    /\ Finish(e, "error")
    /\ UNCHANGED <<secrets, broken, faults, appVars, used, failed>>

\* The same when the application called send_keyupdate_request(), which does
\* not catch it: the connection stays open.
SalvageRefusedUpdating(e) ==
    /\ at[e] = "salvage_update"
    /\ Incoming(e) /\ ~Opens(e)
    /\ Take(e)
    /\ CountRecord(e)
    /\ writeState' = [writeState EXCEPT ![e].seq = @ + 1]
    /\ used' = [used EXCEPT ![e] =
                   @ \cup {<<writeState[e].gen, writeState[e].seq>>}]
    /\ Finish(e, "error")
    /\ UNCHANGED <<secrets, endVars, broken, faults, appVars, failed>>

SalvageNothing(e) ==
    /\ at[e] = "salvage_update" /\ AtEnd(e)
    /\ Finish(e, "error")
    /\ UNCHANGED <<keyVars, endVars, netVars, appVars, used, failed>>

-----------------------------------------------------------------------------
(***************************************************************************)
(* The network.                                                            *)
(***************************************************************************)

\* The connection breaks: each end may still read a part of what it was sent.
Break ==
    /\ ~broken /\ faults < MaxFaults
    /\ broken' = TRUE
    /\ faults' = faults + 1
    /\ \E c \in 0..Len(wire[Client]), s \in 0..Len(wire[Server]) :
          wire' = [wire EXCEPT ![Client] = SubSeq(@, 1, c),
                               ![Server] = SubSeq(@, 1, s)]
    /\ UNCHANGED <<keyVars, endVars, opVars, appVars, pastVars>>

Damage ==
    /\ faults < MaxFaults
    /\ faults' = faults + 1
    /\ \E e \in Ends : \E i \in DOMAIN wire[e] :
          wire' = [wire EXCEPT ![e][i].intact = FALSE]
    /\ UNCHANGED <<keyVars, endVars, opVars, broken, appVars, pastVars>>

Calls(e) ==
    \/ Write(e)
    \/ WriteClosed(e)
    \/ Read(e)
    \/ ReadClosed(e)
    \/ SendKeyUpdate(e)
    \/ Close(e)

Sends(e) ==
    \/ FragmentSent(e)
    \/ WriteDone(e)
    \/ KeyUpdateSent(e)
    \/ AnswerSent(e)
    \/ ErrorSent(e)
    \/ CloseSent(e)
    \/ CloseSentAwaiting(e)

Fails(e) ==
    \/ WriteFails(e)
    \/ KeyUpdateFails(e)
    \/ ErrorFails(e)
    \/ CloseFails(e)

Receives(e) ==
    \/ ReadData(e)
    \/ ReadTicket(e)
    \/ ReadKeyUpdate(e)
    \/ ReadKeyUpdateRequest(e)
    \/ ReadCloseNotify(e)
    \/ GetFatal(e)
    \/ Refuse(e)
    \/ ReadEof(e)
    \/ ReadReset(e)
    \/ AwaitData(e)
    \/ AwaitCloseNotify(e)
    \/ AwaitHandshake(e)
    \/ AwaitEnd(e)
    \/ SalvageOther(e)
    \/ SalvageAlert(e)
    \/ SalvageRefusedReading(e)
    \/ SalvageRefusedUpdating(e)
    \/ SalvageNothing(e)

Progress(e) == Sends(e) \/ Fails(e) \/ Receives(e)

Next ==
    \/ \E e \in Ends : Calls(e) \/ Progress(e)
    \/ Break
    \/ Damage

Spec == Init /\ [][Next]_vars

\* Callers drive an operation they started to its end, and an open
\* connection is read from again and again.
Fairness ==
    \A e \in Ends : WF_vars(Progress(e)) /\ WF_vars(Read(e))

FairSpec == Spec /\ Fairness

-----------------------------------------------------------------------------
(***************************************************************************)
(* Safety.                                                                 *)
(***************************************************************************)

\* An end that waits for a record has the key and the sequence number its
\* peer sealed the next one with, however the KeyUpdates of the two ends
\* crossed: only a damaged record is refused.  (send_keyupdate_request that
\* failed on a damaged record leaves an end out of step, but not unaware.)
ReceiverInStep ==
    \A e \in Ends :
        /\ at[e] \in Receiving
        /\ reported[e] # "error"
        /\ Incoming(e)
        /\ Upcoming(e).intact
        => Opens(e)

\* No key is used twice with one sequence number, which for an AEAD is no
\* nonce twice, across writes, alerts, KeyUpdates and failures.
FreshNonce ==
    [][\A e \in Ends :
          out'[e] # out[e] /\ out'[e] # NoRecord =>
              <<out'[e].gen, out'[e].seq>> \notin used[e]]_vars

\* A closed connection puts nothing on the wire, and neither end ever sends
\* a record without keys once the handshake is over.
NothingUnprotected ==
    \A e \in Ends :
        /\ closed[e] => at[e] = "idle"
        /\ out[e] # NoRecord => out[e].gen # Plain

\* A session of which a fatal alert was sent or received is not resumed
\* again ("Even if resumable is False, we'll never toggle this on").
FailedNotResumable == \A e \in Ends : failed[e] => ~resumable[e]

(***************************************************************************)
(* Liveness.                                                               *)
(***************************************************************************)

\* The two ends come to agree on the keys of both directions, unless one of
\* them closed: every KeyUpdate is processed and every request answered.
KeysConverge ==
    <>[](\/ \E e \in Ends : closed[e]
         \/ /\ secrets[Client] = secrets[Server]
            /\ \A e \in Ends :
                  secrets[e][e] = updates[e] + requests[Peer(e)])

\* close() ends, and leaves the connection closed.
CloseEnds == \A e \in Ends : at[e] = "send_close" ~> closed[e]

-----------------------------------------------------------------------------
Stream == INSTANCE SecureStream

\* Each direction is a reliable stream that can end early: until a call on
\* the connection raises, what read() returns is what the peer wrote, in
\* order, nothing twice and nothing left out, and nothing once it is closed.
ImplementsStream == Stream!Spec
=============================================================================
