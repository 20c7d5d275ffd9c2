-------------------------- MODULE AsyncStateMachine --------------------------
(***************************************************************************)
(* Two ends that drive their connections from a select loop, through       *)
(* integration/asyncstatemachine.py and TLSAsyncDispatcherMixIn.           *)
(*                                                                         *)
(* An operation is a generator of the connection; here a generator is the  *)
(* list of the records it still has to send or to read, with the bytes of  *)
(* the first that are still to go or have already come.  next() runs it    *)
(* until it must wait to read, must wait to write, or is through.          *)
(* The socket keeps bytes in three places: under way, in the read-ahead    *)
(* buffer of BufferedSocket, and in the generator that is reading.         *)
(*                                                                         *)
(* The application has records to write, may answer one record it reads    *)
(* from within the read callback, and may close when it has written all.   *)
(*                                                                         *)
(* An end whose operation raises has shut its connection down and leaves   *)
(* the loop.  The network itself does not fail: an error of the socket is  *)
(* either a handshake flight, which is sent as a whole, that the wire does *)
(* not take, or the reset of a peer that has closed its socket.  What that *)
(* peer had sent before still comes unless the read itself fails.          *)
(***************************************************************************)
EXTENDS Naturals, Sequences, FiniteSets

CONSTANTS
    Client, Server,
    Applications,   \* what the applications of the two ends may be
    RecordLength,   \* bytes of a record
    WireCapacity    \* bytes under way in one direction, at most

ASSUME EndsAssumption == Client # Server
ASSUME SizesAssumption == RecordLength \in Nat \ {0} /\ WireCapacity \in Nat

Ends == {Client, Server}
Peer(e) == IF e = Client THEN Server ELSE Client

\* An application: [writes: records to write, answers: whether it answers
\* what it reads, closes: whether it closes afterwards].
ASSUME ApplicationsAssumption ==
    Applications \subseteq
        [Ends -> [writes : Nat, answers : BOOLEAN, closes : BOOLEAN]]

VARIABLES
    end,    \* each end: its state machine, connection and application
    wire,   \* bytes under way from each end
    fired   \* events that select has reported and that are not handled yet

vars == <<end, wire, fired>>

---------------------------------------------------------------------------
(* Generators.                                                             *)

RecordBytes(kind, n) == [i \in 1..RecordLength |-> <<kind, n, i>>]
Sends(kind, n) == [do |-> "send", bytes |-> RecordBytes(kind, n)]
Reads == [do |-> "read", bytes |-> <<>>]

\* A flight of the handshake: it is sent by sendall, as BufferedSocket
\* flushes what it holds.
Flushes(kind, n) == [Sends(kind, n) EXCEPT !.do = "flush"]

NoRecord == <<"none", 0, 0>>

\* An operation: what it still has to do, and the last record it has read.
Op(steps) == [on |-> TRUE, steps |-> steps, record |-> NoRecord]
NoOp == [Op(<<>>) EXCEPT !.on = FALSE]

handshakeAsync(e) ==
    Op(IF e = Client THEN <<Flushes("hello", 1), Reads>>
                     ELSE <<Reads, Flushes("hello", 2)>>)

writeAsync(n) == Op(<<Sends("data", n)>>)
readAsync == Op(<<Reads>>)
closeAsync(closed) == Op(IF closed THEN <<>> ELSE <<Sends("close", 0)>>)

Smaller(a, b) == IF a < b THEN a ELSE b
CutTo(s, n) == SubSeq(s, 1, n)
After(s, n) == SubSeq(s, n + 1, Len(s))

UnsentAgain(bytes, sent) == bytes   \* what went out is not taken off

\* What of a record is still to be sent.
Unsent(bytes, sent) == After(bytes, sent)

\* How much the socket takes; a peer that has closed makes it vanish.
Room(run) ==
    IF run.peerGone THEN RecordLength ELSE WireCapacity - Len(run.out)

\* A close_notify is answered with one before the read returns no data.
AfterRead(record, steps) ==
    IF record[1] = "close" THEN <<Sends("close", 0)>> ELSE Tail(steps)

\* A generator at work is [steps, out: bytes under way from this end, in:
\* those to it, buffer: the read-ahead, peerGone: the peer has closed its
\* socket, and what is sent to it vanishes, or is an error where the socket
\* knows (reset), ended: all that it sent has come, record, yields: what it
\* waits for or raises].  An error of the socket is none to a close_notify.
Sending(run) ==
    LET step == Head(run.steps)
        bytes == step.bytes
        sent == Smaller(Room(run), Len(bytes))
        moved == [run EXCEPT !.out = IF run.peerGone THEN @
                                     ELSE @ \o CutTo(bytes, sent)]
    IN  IF run.reset /\ bytes[1][1] # "close"
        THEN [run EXCEPT !.yields = "socket"]
        ELSE IF sent = Len(bytes) THEN [moved EXCEPT !.steps = Tail(@)]
        ELSE IF step.do = "flush" THEN [moved EXCEPT !.yields = "socket"]
        ELSE [moved EXCEPT !.steps = <<[do |-> "send",
                                        bytes |-> Unsent(bytes, sent)]>>
                                     \o Tail(@),
                           !.yields = "write"]

\* The socket is asked for more only when the read-ahead does not do, and
\* then gives all it has.
Receiving(run) ==
    LET bytes == Head(run.steps).bytes
        enough == Len(bytes) + Len(run.buffer) >= RecordLength
        have == bytes \o run.buffer \o (IF enough THEN <<>> ELSE run.in)
        taken == [run EXCEPT !.buffer = After(have, RecordLength),
                             !.in = IF enough THEN @ ELSE <<>>]
    IN  IF run.reset /\ ~enough THEN [run EXCEPT !.yields = "socket"]
        ELSE IF Len(have) >= RecordLength
        THEN [taken EXCEPT !.steps = AfterRead(have[1], @),
                           !.record = have[1]]
        ELSE [taken EXCEPT !.steps = <<[do |-> "read", bytes |-> have]>>
                                     \o Tail(@),
                           !.yields = IF run.ended THEN "abrupt" ELSE "read"]

\* As far as it gets with its first record.
Advance(run) ==
    CASE run.steps = <<>> \/ run.yields # "none" -> run
      [] run.steps # <<>> /\ run.yields = "none" ->
           IF Head(run.steps).do = "read" THEN Receiving(run) ELSE Sending(run)

\* next(): until it has to wait or is through; a generator has no more than
\* two records to deal with and the answer to a close_notify.
Resume(run) == Advance(Advance(Advance(run)))

---------------------------------------------------------------------------
(* The state machine.  `me' is one end with both directions of the wire:   *)
(* the operators below make the next one out of it, as the methods do.     *)

Operations == {"handshaker", "closer", "reader", "writer"}
NoResult == "none"

_clear(me) ==
    [me EXCEPT !.op = [o \in Operations |-> NoOp], !.result = NoResult]

\* The event method clears the state machine and raises again what was
\* raised.  An operation that fails has shut its connection down; an end
\* whose assertion trips is left out of the loop.
Raises(me, why) ==
    [_clear(me) EXCEPT !.raised = why, !.closed = TRUE, !.open = FALSE]

\* What _checkAssert demands.
Sound(me, maxActive) ==
    LET active == Cardinality({o \in Operations : me.op[o].on})
    IN  /\ active = IF me.result = NoResult THEN 0 ELSE 1
        /\ active <= maxActive

wantsReadEvent(me) == me.result = "read"
wantsWriteEvent(me) == me.result = "write"

\* What operation o has before it when next() is called.
RunOf(me, o) ==
    [steps |-> me.op[o].steps, out |-> me.out, in |-> me.in,
     buffer |-> me.buffer, peerGone |-> me.peerGone, reset |-> me.reset,
     ended |-> me.ended, record |-> me.op[o].record, yields |-> NoResult]

\* How the run of its next() leaves the end.
Outcome(me, o, run) ==
    LET after == [me EXCEPT !.out = run.out, !.in = run.in,
                            !.buffer = run.buffer]
    IN  [me |-> CASE run.yields = NoResult ->
                       [after EXCEPT !.op[o] = NoOp, !.result = NoResult]
                  [] run.yields \in {"read", "write"} ->
                       [after EXCEPT !.op[o].steps = run.steps,
                                     !.op[o].record = run.record,
                                     !.result = run.yields]
                  [] run.yields \in {"socket", "abrupt"} ->
                       Raises(after, run.yields),
         done |-> run.yields = NoResult,
         record |-> run.record]

\* One next() of an operation (the run is bound, so as to be found once).
Running(me, o) ==
    CHOOSE r \in {Outcome(me, o, run) : run \in {Resume(RunOf(me, o))}} : TRUE

_doHandshakeOp(me) ==
    LET r == Running(me, "handshaker")
    IN  IF r.done THEN [r.me EXCEPT !.connected = TRUE] ELSE r.me

_doCloseOpOnly(me) ==   \* outCloseEvent is not called
    LET r == Running(me, "closer")
    IN  IF r.done THEN [r.me EXCEPT !.closed = TRUE] ELSE r.me

\* The connection shuts its socket down once close_notify is sent; the
\* dispatcher then leaves the loop (outCloseEvent).
_doCloseOp(me) ==
    LET r == Running(me, "closer")
    IN  IF r.done THEN [r.me EXCEPT !.closed = TRUE, !.open = FALSE] ELSE r.me

_doWriteOp(me) == Running(me, "writer").me

setCloseOp(me) ==
    IF Sound(me, 0)
    THEN _doCloseOp([me EXCEPT !.op["closer"] = closeAsync(me.closed)])
    ELSE Raises(me, "assertion")

setWriteOp(me) ==
    IF Sound(me, 0)
    THEN _doWriteOp([me EXCEPT !.op["writer"] = writeAsync(me.written + 1),
                               !.written = @ + 1])
    ELSE Raises(me, "assertion")

\* The application's read callback: it may answer at once, and closes when
\* there is nothing more to read.
outReadEvent(me, record) ==
    IF record[1] = "close" THEN setCloseOp(me)
    ELSE LET read == [me EXCEPT !.received = Append(@, record[2])]
         IN  IF me.app.answers /\ me.owes > 0
             THEN setWriteOp([read EXCEPT !.owes = @ - 1])
             ELSE read

_doReadOpEarly(me) ==   \* the callback comes before the reader is cleared
    LET r == Running(me, "reader")
    IN  CASE ~r.done -> r.me
          [] r.done ->
               [outReadEvent([r.me EXCEPT !.op["reader"] = Op(<<>>)],
                             r.record) EXCEPT !.op["reader"] = NoOp]

\* After a close_notify the connection has shut down.
_doReadOp(me) ==
    LET r == Running(me, "reader")
    IN  CASE ~r.done -> r.me
          [] r.done /\ r.record[1] = "close" ->
               outReadEvent([r.me EXCEPT !.closed = TRUE], r.record)
          [] r.done /\ r.record[1] = "data" -> outReadEvent(r.me, r.record)

\* The application's write callback, by way of asyncore.
writable(me) == me.toWrite > 0 \/ me.app.closes

outWriteEvent(me) ==
    CASE me.toWrite > 0 -> setWriteOp([me EXCEPT !.toWrite = @ - 1])
      [] me.toWrite = 0 /\ me.app.closes -> setCloseOp(me)
      [] OTHER -> me

InEvent(me, otherwise) ==
    IF ~Sound(me, 1) THEN Raises(me, "assertion")
    ELSE IF me.op["handshaker"].on THEN _doHandshakeOp(me)
    ELSE IF me.op["closer"].on THEN _doCloseOp(me)
    ELSE IF me.op["reader"].on THEN _doReadOp(me)
    ELSE IF me.op["writer"].on THEN _doWriteOp(me)
    ELSE otherwise

StartReading(me) == _doReadOp([me EXCEPT !.op["reader"] = readAsync])

inWriteEventNoWriter(me) ==   \* a suspended write is not resumed
    IF me.op["writer"].on THEN me ELSE InEvent(me, outWriteEvent(me))

inReadEvent(me) == InEvent(me, StartReading(me))
inWriteEvent(me) == InEvent(me, outWriteEvent(me))

---------------------------------------------------------------------------
(* The select loop.                                                        *)

\* An end with the wires, of which n bytes have come to it, and back.
\* The socket may know that the peer has closed (reset).
With(e, n, reset) ==
    [end[e] EXCEPT !.out = wire[e], !.in = CutTo(wire[Peer(e)], n),
                   !.peerGone = ~end[Peer(e)].open, !.reset = reset,
                   !.ended = ~end[Peer(e)].open /\ n = Len(wire[Peer(e)])]

Becomes(e, n, me) ==
    /\ end' = [end EXCEPT ![e] = [me EXCEPT !.out = <<>>, !.in = <<>>,
                                            !.reset = FALSE]]
    /\ wire' = [wire EXCEPT ![e] = me.out,
                            ![Peer(e)] = me.in \o After(@, n)]

Start(e, application) ==
    [op |-> [o \in Operations |-> NoOp], result |-> NoResult,
     connected |-> FALSE, closed |-> FALSE, open |-> TRUE, raised |-> "no",
     started |-> FALSE, peerGone |-> FALSE, reset |-> FALSE, ended |-> FALSE,
     out |-> <<>>, in |-> <<>>, buffer |-> <<>>,
     app |-> application, toWrite |-> application.writes,
     owes |-> IF application.answers THEN 1 ELSE 0,
     written |-> 0, received |-> <<>>]

\* Whether the socket of e reports the reset of its peer.
Resets(e) == IF end[Peer(e)].open THEN {FALSE} ELSE BOOLEAN

Init ==
    /\ \E apps \in Applications :
        end = [e \in Ends |-> Start(e, apps[e])]
    /\ wire = [e \in Ends |-> <<>>]
    /\ fired = [e \in Ends |-> {}]

\* The program sets the handshake going, setHandshakeOp.
SetHandshakeOp(e) ==
    /\ ~end[e].started
    /\ \E reset \in Resets(e) :
        LET me == [With(e, 0, reset) EXCEPT !.started = TRUE]
        IN  Becomes(e, 0, IF Sound(me, 0)
                          THEN _doHandshakeOp([me EXCEPT !.op["handshaker"]
                                                     = handshakeAsync(e)])
                          ELSE Raises(me, "assertion"))
    /\ UNCHANGED fired

\* Which events the dispatcher asks for, and which the socket has.
ReadyToRead(e) ==
    /\ end[e].result # NoResult => wantsReadEvent(end[e])
    /\ wire[Peer(e)] # <<>> \/ ~end[Peer(e)].open

ReadyToWrite(e) ==
    /\ IF end[e].result # NoResult THEN wantsWriteEvent(end[e])
                                   ELSE writable(end[e])
    /\ Len(wire[e]) < WireCapacity \/ ~end[Peer(e)].open

Events(e) ==
    (IF ReadyToRead(e) THEN {"read"} ELSE {})
        \cup (IF ReadyToWrite(e) THEN {"write"} ELSE {})

Select(e) ==
    /\ end[e].started /\ end[e].open /\ fired[e] = {}
    /\ Events(e) # {}
    /\ fired' = [fired EXCEPT ![e] = Events(e)]
    /\ UNCHANGED <<end, wire>>

\* One turn of the loop handles the reads before the writes, with what they
\* found when select returned.
HandleRead(e) ==
    /\ "read" \in fired[e]
    /\ \E n \in 0..Len(wire[Peer(e)]), reset \in Resets(e) :
        /\ n > 0 \/ wire[Peer(e)] = <<>>
        /\ Becomes(e, n, inReadEvent(With(e, n, reset)))
    /\ fired' = [fired EXCEPT ![e] = @ \ {"read"}]

HandleWrite(e) ==
    /\ fired[e] = {"write"}
    /\ IF end[e].open
       THEN \E n \in 0..Len(wire[Peer(e)]), reset \in Resets(e) :
                Becomes(e, n, inWriteEvent(With(e, n, reset)))
       ELSE UNCHANGED <<end, wire>>
    /\ fired' = [fired EXCEPT ![e] = {}]

Loop(e) == Select(e) \/ HandleRead(e) \/ HandleWrite(e)

Next == \E e \in Ends : SetHandshakeOp(e) \/ Loop(e)

\* The programs start and run their loops: an end that can go on for ever
\* goes on.  A step changes the state or the events of the end that takes it
\* and not the peer's, so this is weak fairness of each end's steps, with
\* what enables them written out.
Own(e) == <<end[e], fired[e]>>

CanStep(e) ==
    \/ ~end[e].started
    \/ fired[e] # {}
    \/ end[e].open /\ Events(e) # {}

Fairness ==
    \A e \in Ends : []<>~CanStep(e) \/ []<><<TRUE>>_(Own(e))

Spec == Init /\ [][Next]_vars /\ Fairness

---------------------------------------------------------------------------
(* Properties.                                                             *)

\* An operation raises only for a cause the peer or the wire gives.  An
\* application that acts only in its callbacks never trips _checkAssert
\* (asyncstatemachine.py:48), although it may start a write or a close from
\* within a read callback and the write event of the same turn of the loop
\* is then handled by an operation that did not ask for it.  The socket
\* fails only where the peer has closed, or in the handshake, of which a
\* flight is sent by sendall (bufferedsocket.py:44) and does not fit.  The
\* end of the stream is taken for a truncation only when the peer's
\* handshake failed in that way, never when it has closed.
RaisesForCause ==
    \A e \in Ends :
        /\ end[e].raised # "assertion"
        /\ end[e].raised = "socket" =>
              \/ ~end[Peer(e)].open
              \/ RecordLength > WireCapacity /\ ~end[e].connected
        /\ end[e].raised = "abrupt" =>
              RecordLength > WireCapacity /\ ~end[Peer(e)].connected

\* What the read callbacks are given is what the peer wrote, record by
\* record and in order, whichever of the wire, the read-ahead buffer and
\* the suspended generator the bytes have waited in, and however an
\* operation was suspended in the middle of a record.
ReportedInOrder ==
    \A e \in Ends :
        /\ Len(end[e].received) <= end[Peer(e)].written
        /\ \A i \in 1..Len(end[e].received) : end[e].received[i] = i

\* Both ends are in the middle of sending and neither reads: an end has one
\* operation at a time.
Jammed ==
    \A e \in Ends : wantsWriteEvent(end[e]) /\ Len(wire[e]) = WireCapacity

\* The end has bytes that select cannot see and nothing that asks for them.
HeldBack(e) == end[e].result = NoResult /\ end[e].buffer # <<>>

Reported(e, n) == n <= Len(end[Peer(e)].received)
MostRecords == 3

\* A record that was written is reported to the peer's application, unless
\* that end closes, the two ends have jammed each other, or the record
\* stays behind in the read-ahead buffer of an idle end.
EachRecordReported ==
    \A e \in Ends : \A n \in 1..MostRecords :
        end[e].written >= n ~>
            \/ Reported(e, n)
            \/ ~end[Peer(e)].open
            \/ [](Jammed \/ HeldBack(Peer(e)))

\* A close operation, begun in whichever callback, ends with the socket
\* closed, unless the two ends have jammed each other.
CloseEnds ==
    \A e \in Ends :
        end[e].op["closer"].on ~> ~end[e].open \/ []Jammed

=============================================================================
