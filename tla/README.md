# Formal specification of TLS-DVNIZK (tlslite-ng)

The repository is a fork of tlslite-ng, a TLS library in pure Python, with a
designated-verifier proof (DVNIZK) in place of the server's signature in TLS
1.3. This directory holds TLA+ specifications of the parts whose correctness
depends on order, failure, sharing or on two ends doing the same thing, the TLC
configurations that check them on small instances, and proofs of their main
invariants for every instance.

Paths below are relative to `src/tlslite/`.

## 1. Inventory

| Component (code) | State it keeps | Operations | What is hard about it | Modules |
|---|---|---|---|---|
| Session cache (`sessioncache.py`, `session.py`) | a dictionary of sessions by ID, a ring of (ID, time) in order of insertion | store, look up, purge; connections clear `resumable` of a session they share with it | wrap-around, eviction, expiry in the middle of the ring, sessions changed by their connection | `SessionCache`, `SessionStore` |
| Established connection (`tlsrecordlayer.py`) | `closed`, `session`, reference count, read buffer | `read`, `write`, `close`, KeyUpdate | every operation is a generator suspended in the middle of a send; failures of a send try to salvage an alert | `TLSRecordLayer`, `SecureStream` |
| Message layer and record layer (`recordlayer.py`, `tlsrecordlayer.py`, `defragmenter.py`, `bufferedsocket.py`) | a state (key, sequence number) per direction, pending states, early-data flags, buffers of bytes per content type, a write queue | `sendRecord`, `recvRecord`, `_sendMsg(s)`, `_queue_message`, `_getNextRecord`, `flush` | limits and paddings at their boundaries, key changes between buffered records, messages over several records and several in one | `RecordProtection`, `MessageLayer`, `MessageChannel` |
| TLS 1.3 handshake (`tlsconnection.py`) | transcript, key schedule, pre-shared keys | one handler per flight of each side | retry, resumption, client certificates, order of key changes | `Handshake13`, `Agreement` |
| TLS 1.2 and earlier handshakes (`tlsconnection.py`, `keyexchange.py`) | transcript, pending cipher states, sessions kept by either end | full handshake, resumption by ID or ticket | a session that outlives the settings it was made under; a failed handshake must leave no session to resume | `Handshake12`, `SessionAgreement` |
| Settings and negotiation (`handshakesettings.py`, `constants.py`) | none | validate, filter suites, choose version, group and scheme | contradictory settings; the same fact in many tables | `Negotiation`, `CipherSuites` |
| Key exchange and RSA (`keyexchange.py`, `mathtls.py`, `utils/rsakey.py`, `utils/python_rsakey.py`) | private shares; a blinding pair and its lock | make and process shares, SRP, decrypt a premaster secret | shares that force a secret, leading zeros, blinding shared by threads | `KeyExchange` |
| Messages and extensions (`messages.py`, `extensions.py`, `utils/codec.py`) | none | parse, write | lengths, the class an extension is read as, what is parsed and written again | `Codec`, `Extensions`, `Messages`, `MessageExchange` |
| Asynchronous integration (`integration/asyncstatemachine.py`, the dispatcher mixins) | the operation in progress and what it waits for | `inReadEvent`, `inWriteEvent`, `setXxxOp` | events that arrive for the wrong operation | `AsyncStateMachine` |
| DVNIZK (`dvnizk.py`) | none | generate, verify, simulate, convert keys | the simulated proof must verify like a real one | `DVNIZK` |
| Connection life cycle, post-handshake authentication (`tlsrecordlayer.py`) | reference count, outstanding requests | `makefile`, `close`, certificate requests | several handles on one connection | none yet |
| Key schedule and transcript (`mathtls.py`, `handshakehashes.py`) | running hashes | PRF, HKDF, finished values | which messages each value covers | their structure only, in the handshakes |
| User databases (`basedb.py`, `verifierdb.py`) | a dictionary or a DBM file, a lock | create, open, get, set, delete, check | a database used while it is opened | none |
| Blocking integration (`integration/*.py`) | a session kept for reconnecting | connect, retry | none beyond the connection | none |
| Ciphers and curves, certificates (`utils/*`, `x509.py`, ...) | none | arithmetic, parsing | left to test vectors | none |

### How they interact

A `TLSConnection` *is* a `TLSRecordLayer`; it owns one `RecordLayer`, which
owns the two cipher states and, through `RecordSocket` and `BufferedSocket`,
the socket. Every public operation is a generator: it yields 0 when the socket
would block on a read and 1 on a write, and its caller (a blocking wrapper or
`AsyncStateMachine`) resumes it. A handshake writes and reads messages
(`messages.py`, `extensions.py`), settles what to use from the settings of both
ends, lets a `KeyExchange` make the secret, switches the record layer's states
at fixed messages, and makes a `Session`, which the client's program keeps and
the server (up to TLS 1.2) stores in a `SessionCache` shared by all its
connections, each in its own thread, or sends away in a ticket. A connection
that fails later clears `session.resumable`, and thereby changes the object the
cache holds.

The modules follow these seams. `Handshake12` is composed of `Negotiation`,
`CipherSuites` and the sessions of both ends; `MessageLayer` of the three
classes between a message and the socket, over `RecordProtection`;
`MessageExchange` of `Codec`, `Extensions` and `Messages`. Each leaves to the
others what they check: the handshakes send messages where `MessageLayer` sends
bytes, and take for granted that both ends of a key exchange come to the same
secret, which is what `KeyExchange` is about.

### What makes each part correct

* *Session cache*: dictionary and ring hold the same IDs; a look-up returns
  the newest session of an ID, never an expired or invalidated one; the cache
  is a bounded queue.
* *Established connection*: the receiver always holds the key and number the
  sender sealed with; no (key, number) pair seals two records; each direction
  is a reliable stream that may end early; nothing is sent once closed; a
  session that met a fatal alert is not resumed; closing ends.
* *Message layer*: the items that come out are those that went in, in order,
  each once, whatever happens to the records; two ends that keep to the limits
  they agreed on never alarm each other; without a fault all arrive.
* *Handshakes*: no end concludes on anything the other did not; every record is
  read with the key it was sealed with, alerts at any other step included; the
  certificate in a session is one whose owner signed; the version is the
  highest of both and the suite one that both allow now; a failure has a
  reason, reaches the other end and leaves no session to resume.
* *Key exchange*: both ends come to the same secret, byte for byte; nobody on
  the path can force it to a value that is known.
* *Messages*: what one end writes the other reads as it was meant; what is
  accepted is what is hashed; what is refused is refused with an alert, but for
  two kinds of messages (section 5).
* *Asynchronous integration*: an application that acts in its callbacks never
  trips the state machine, which otherwise raises only because the peer has closed or
  the wire does not take a handshake flight; everything it writes is reported to
  the other.
* *DVNIZK*: verification never rejects an honest proof; every accepted proof the
  server makes the client could have made, with the same likelihood, and the other
  way round, unless a commitment is the identity; who can answer two challenges
  has one of the secrets.

## 2. Plan

Done: the session cache, the established connection, the TLS 1.3 handshake, the
proof system, the messages, the handshakes up to TLS 1.2 with their
negotiation, the message layer with the skipping of early data, the key
exchange, the asynchronous integration.

Left, in order of what they would add:

1. In `Handshake13`: external and several pre-shared keys, certificate
   compression, delegated credentials, ALPN, early data offered by a client of
   another make (`MessageLayer` has the server's side of it).
2. Post-handshake authentication and heartbeats, and the life cycle of the
   connection object (`makefile()`, the reference count).
3. The user databases.

Theorems worth proving next: `ServedAgain` of `Handshake12`, whose invariant
has to follow a meeting without faults step by step on both ends at once, as that
of `ReadsInStep` does for TLS 1.3; `ImplementsChannel` of the message layer.

## 3. The modules

### SessionCache, SessionStore

`entriesDict`, `entriesList`, `firstIndex` and `lastIndex` are the code's
variables; the clock is a counter. `SetItem` is `__setitem__` with its
eviction, `GetItem` is `__getitem__` with the whole of `_purge`. The purge that
would raise `KeyError` is modelled as a failure (`PurgeFails`) so that the
absence of it can be checked. Both methods hold the lock from start to end, so
each is one action. `Invalidate` is `_shutdown` of the connection that shares
a session with the cache. IDs are random 32-byte strings in the code, so an
ID is never stored twice. `SessionStore` is the promise: a sequence of at most
`maxEntries - 1` sessions, oldest out first, from which look-up returns the
session of that ID if it is still fresh and resumable.

### TLSRecordLayer, SecureStream

Two ends over two FIFO wires. Per end the model has `_writeState` and
`_readState` reduced to a key generation and a sequence number, the traffic
secrets of its session, the flags `closed`, `session.resumable`, `closeSocket`
and `ignoreAbruptClose`, and *where its running operation is suspended* (`at`).
A record is sealed in one step (`Seal`: the state's number is consumed
there) and reaches the wire in a later one (`Put`), because `_sockSendAll`
yields while the socket is full and the other end runs meanwhile. `KeyUpdateSent`
is the code after that yield: only then is the write key switched.

The failure paths are the ones of `readAsync`, `writeAsync`, `_decrefAsync`
and `_sendMsgThroughSocket`: the last one, when a handshake message cannot be
sent, reads one record to look for an alert (`Salvage...`), and behaves
differently when called by `read()` (which answers a KeyUpdate) and by
`send_keyupdate_request()`, which has no handler around it. The network may
break (both ends keep a prefix of what was sent to them) or damage a record.

Abstractions: application data is a number per record; ciphertext opens when
generation and number agree and the record is intact; a traffic secret is
its generation. Tickets are in flight only from the handshake. One
operation at a time per end, as blocking callers and `AsyncStateMachine` run
them.

`SecureStream` is the promise to the applications; `written`, `delivered` and
`closed` map to the variables of the same name. `delivered` stops counting
after the first call that raised, because `send_keyupdate_request()` can raise and
leave the connection open (section 5).

### Handshake13, Agreement

A client and a server over two FIFO wires. `setup` holds the settings and
arguments of both calls: key shares, groups and signature schemes in order of
preference, tickets, certificates, and a checker that may reject the peer. `at`
says where each handshake generator stands: waiting for a message
(`wait_...`), or suspended with sealed records that have not reached the socket
(`send_...`). One action is the code from one of these points to the next:
`ReadServerHello` is `_clientTLS13Handshake` from the return of `_getMsg` to the
next call of it, with its key changes.

* *Transcripts and keys.* A transcript is the sequence of messages it covers, a
  key an epoch and the transcript it is derived from, and so two ends have the
  same key exactly if they hashed the same messages up to the same point. The
  `message_hash` that replaces the first hello after a HelloRetryRequest is a
  function of it and stands for it.
* *Records.* `writeState`, `readState` and the pending states of
  `calcTLS1_3PendingState` are the record layer's. The server's messages from
  EncryptedExtensions to Finished are queued and flushed together and are one
  record here; so are the tickets.
* *Failures.* `SendError` is `_sendError`: the alert is sealed with the state
  the end has by then. `Fail` is `_shutdown(False)` and the exception. A message
  that cannot be sent is followed by one read for an alert that explains it
  (`Salvage...`), as on an established connection; messages that are flushed
  together are not.
* *The network* may break the connection or alter a record. An altered hello is
  refused or read as another one (another group; the same hello with something
  else different is what `intact` distinguishes in a transcript). After a retry the
  server compares the two hellos without what a retry may change, so an
  altered one may pass there or not (`AnswersRetry`, `Repeats`). An altered
  protected record does not open.

Abstractions: one cipher suite and hash; the ticket is the first and only
identity, `good` if the server has its key; a binder stands for the transcript
it covers; a signature verifies. Peers are correct, so of the many checks of
message contents only those remain that settings or the network can make fail.

`Agreement` is the promise: the client may conclude on any view, the server
only on the client's, and no view changes. `View(e)` maps to it what the
session of an end says.

### Handshake12, Negotiation, CipherSuites, SessionAgreement

A client and a server that meet up to three times, each time on new
connections; in between either end may change its settings, the server may
lose its cache (`restart`) and a lifetime may pass (`late`). What survives a
meeting is the session the client's caller kept (`held`), the server's cache
and its ticket keys.

* *CipherSuites* is the lists of suites of `constants.py` and the tables of
  `recordlayer.py` that turn a suite into keys. A suite is named by its three
  parts, but what the library knows of it is only what the lists say. The
  filters of a list are predicates on its suites: they keep its order.
* *Negotiation* is what `HandshakeSettings.validate`, the two hellos'
  handlers and `keyexchange.py` make of two sets of settings: version, suite,
  group and signature algorithm, each with the alert when there is none. Where
  the code takes the first entry of a filtered list (`getFirstMatching`), the model
  has the set of what that can be (`FirstMatching`): one entry or none.
* *Handshake12* has one action for what an end does from one read to the next,
  with its key changes, its checks and the messages it answers with. A master
  secret is the round it was made in and what it was made from; a key is a
  master secret, suite, version, mode of the MAC and round. A ticket is the
  session it carries, readable to a server that has its key.
* *Failures*: an alert of either end, an exception without an alert
  (`Crash`), a checker that rejects the peer after the handshake, a connection
  that breaks, and a hello or another message that is altered. An altered hello
  may be read as one that asks for less; the sentinel in `ServerHello.random`,
  `TLS_FALLBACK_SCSV` and the Finished messages are modelled, so that the
  model tells which of them stops a downgrade.
* `SessionAgreement` is the promise over all the meetings: an end may conclude
  on a new session, but the second to do so only on what the first concluded
  on; and on an earlier one only if both concluded on it then.

Abstractions: fewer names of each kind (two ciphers, two groups of each kind),
certificates are self-signed and signatures verify if the key is the right one;
a flight is one message. Renegotiation, ALPN, NPN, SNI, OCSP, heartbeats and the
hello in the form of SSL 2.0 are left out.

### MessageLayer, RecordProtection, MessageChannel

One direction of a connection. The writer follows a script of calls
(`_sendMsg`, `_queue_message`, `_sendMsgs`), with the switch of its keys and
limits in the middle; its records go through `BufferedSocket` into a wire of
limited capacity; the reader is the generators of `RecordSocket` and
`_getNextRecord` with its state between two reads (`rcv.stage`, `rcv.part`), the
limits it takes up at its own switch, the skipping of early data and the
defragmenter.

Bytes are symbolic in `RecordProtection`: a cipher wraps a byte with its place
in the stream or chain, a MAC or a tag carries all it authenticates, and a byte
that does not decrypt is junk. Lengths are those of the code: padding, IVs,
tags and limits are added and taken off byte by byte for a stream cipher, a block
cipher with the MAC under or over the encryption, AEAD ciphers with and without
an explicit nonce, TLS 1.3 and SSLv2.

`MessageChannel` is the promise: the items sent (messages, and the bytes of
application data) come out unaltered, in order and once.

### KeyExchange

The classes of `keyexchange.py`: finite-field and elliptic-curve Diffie-Hellman,
the x curves, hybrid encapsulation, SRP and RSA, over groups small enough for
every private number to be tried. An end makes the first share, the other
answers and has the secret, the first concludes; the checks stand where the code
has them (before or after the exponentiation). A share may be replaced by any
other on its way. The RSA key is shared by handshakes in several threads: the
blinding pair is taken and advanced under the lock (one action) and used after
it, and decryption and the constant-time removal of the padding are steps of
their own. Hashes are stand-in functions, numbers are of a few bytes of base
`ByteSize`; a premaster secret has 2 bytes here and 48 in the code.

### Codec, Extensions, Messages, MessageExchange

`Codec` is the Parser and the Writer. A class of `messages.py` or
`extensions.py` is described by two layouts, one translated from its `parse()`
and one from its `write()`, so that a difference between the two can be seen.
`Extensions` has the tables by which `TLSExtension.parse()` picks a class and
`Messages` the classes by which `_getMsg()` does. In `MessageExchange` one end
writes a message, the way changes at most one byte, cuts the end off or adds a
byte, and the other end reads what arrives; the outer length fits, since the
defragmenter cuts by it. Certificates and compressed data are opaque.

### AsyncStateMachine

Two ends in select loops, each with the state machine (`result` and the four
operations), the dispatcher's events and an application that writes, answers
a record it reads and closes, all from callbacks. A generator is the records it
still has to send or read and how far it got in the first. Bytes are in three
places: under way, in the read-ahead buffer of `BufferedSocket`, and in the
generator that is reading. `next()` is three times `Advance`, which deals with
the first record as far as it gets: a generator has two records, or one and the
answer to a close_notify. `select` sees only the bytes under way, as the system call
does. Bytes may arrive one at a time.

A generator waits (`"read"`, `"write"`) or raises (`"socket"`, `"abrupt"`); then the
event method clears the machine and raises again (`Raises`), and the connection has
shut down. The socket fails in two cases. A flight of the handshake goes out through
`BufferedSocket.flush()` and `sendall`, which raises on a non-blocking socket that does
not take all of it (`Flushes`). A peer that has closed its socket makes what is
sent to it vanish, or makes the operation that sends or reads fail once the
socket knows (`Resets`, a choice at each event); a close_notify that fails so is
given up without an error. What the closed peer had sent before still comes unless the
read itself fails. Other failures of the network are left out, and so is a
program that calls `send()` or `close()` outside of the callbacks.

### DVNIZK

The three algorithms of `dvnizk.py` over a group of order `n`, a point being
its discrete logarithm. `caller` tells the two ways the client's point comes
about: the handshake converts an X25519 key (`x25519_to_ed25519` forgets the
sign), the benchmark and the self-test multiply the generator.
`hash_to_scalar` is a random oracle. Products that are the identity make
PyNaCl raise, so a call with a zero scalar makes no proof, or no verdict.

## 4. The runs

| Run | Asks | Instance |
|---|---|---|
| `session_cache` | consistency of ring and dictionary, refinement of the bounded queue | 4 IDs (symmetric), a ring of 3 slots so that it fills, evicts, wraps and expires |
| `record_layer` | keys in step, nothing unprotected, fresh nonces, failed sessions, refinement of `SecureStream` | one end that waits for close_notify, one that closes at once and ignores abrupt closes, so both kinds of close and every failure path meet; two writes of up to two fragments, one KeyUpdate per end (two generations per direction, and crossing updates), a ticket, one fault, two records per direction in the socket and one more being sent |
| `record_layer_live` | KeyUpdates converge, close() ends | both ends wait for close_notify; room for all that can be in flight |
| `handshake` | keys in step, identity, failed sessions, reasons of failures, refinement of `Agreement`, termination | 620 pairs of settings: shares that fit, need a retry or do not fit, resumption with a good and an unknown ticket, client certificates of either kind or none, schemes that fit or not, checkers on either side, tickets or none; two faults, so that the network may alter a message and then break; one write of the client, the least that can meet a server still in its handshake |
| `handshake12` | highest version, allowed suite and fitting keys, identity, rejected sessions, resumption that works, refinement of `SessionAgreement`, termination | more than two thousand series of one to three meetings (`AllMeetings`), each varying one thing: both version ranges and fallback, suites and certificates of every kind, groups and formats, client certificates and signature algorithms, resumption by ID or ticket after any change on either side, rejections, SRP users, and one fault anywhere in those about versions |
| `ticket_refused` | *finding*: a client whose ticket is refused fails instead of doing a full handshake | one pair of settings, the ticket's lifetime passes |
| `message_layer` | no false alarm, refinement of `MessageChannel`, delivery | ten kinds of protection, those of TLS in both roles; record limits none, 4 and 7 with record sizes above and below them, padding, a retry, early data, a non-blocking socket; one record altered, cut, lost or repeated |
| `key_exchange` | same secret, not forced, only well-formed premaster secrets | primes 11, 23 and 29, orders 11 and 22 (cofactor 2), SRP modulo 23, RSA modulo 33; private numbers {1, 2, 3, 5, 8}; one replaced share; two RSA handshakes on one key |
| `messages` | read as meant, written as read, refused with an alert but for two kinds of messages, binders | every class with usual, empty and oversized fields, a certificate compressed with an algorithm that the reader can only decompress; unhurt, with any one byte changed, cut at any place, a byte longer |
| `async` | raises only for a cause, reported in order, each reported, closing ends | 144 pairs of applications: up to two writes, answers once or not, closes or not; records of 2 bytes, a wire of 3, so that one record fits and a second does not |
| `dvnizk` | completeness, deniability, extraction | order 5, both kinds of client's points, every choice of coins and every answer of the hash |
| `dvnizk_simulation` | *finding*: for half of the X25519 keys the client's simulation is rejected | as above |

### Bounds

Sizes are shrunk, boundaries are kept. In `message_layer` blocks, MACs, tags and
nonces have 2 bytes, the protocol's limit on a record is 6 and the allowance for
its expansion 6 (3 in TLS 1.3), which is tighter against the true expansion
than the code's 2048 and 256; early data is limited to 8 bytes and the
wire holds 9, so that a full record does not fit at once. Setting 7 is the default
(limit + 1), 4 a lower one. In `handshake12` two names of each kind stand for
longer lists, since the lists are only ever searched and filtered. In
`key_exchange` the groups are big enough to have elements of small order, numbers
with leading zeros and degenerate shares, and small enough for every
private number to be tried; the twelve forms of a decrypted premaster secret put a zero
before, at and after each place where the code looks for one. In `async` every
generator but a handshake flight is suspended in the middle of a record in both
directions. (With a wire shorter than a record every handshake fails at its
first flight; that case is left to the proof.)

### Deadlock and fairness

Deadlock is checked in `session_cache` only. In the connection's runs both ends
may have closed and used up their calls; handshakes, proofs, exchanges and scripts
end; and two ends that write into full sockets without reading block each other,
as in any program over TCP. `record_layer_live` gives the sockets room for all that
can be in flight, which excludes only the latter; `async` states it as an
exception (`Jammed`).

* *Established connection.* `Progress(e)`: a caller drives a generator it started
  to its end (the blocking wrappers loop over it, the dispatchers are driven by
  events). `Read(e)`: an open connection is read from again and again, as
  servers and clients that wait for their peer do.
* *Handshakes.* The same of the two handshake generators. In `Handshake12` also:
  the next meeting takes place.
* *Message layer.* Both ends keep stepping: the writer's calls are driven to their
  end and the reader reads.
* *Asynchronous integration.* The two programs start and run their loops: an
  event that `select` reports is handled in the end.

Nothing is assumed of writes, updates, closes, faults or the network. Where the
formula `WF_vars(A)` would make TLC evaluate `ENABLED A` on actions with large
choices, weak fairness is written out with a state predicate that says when `A`
can be taken.

## 5. Observations

Two disagreements between the code and its documentation have a run of their own
(`ticket_refused`, `dvnizk_simulation`; `PROJECT.json` quotes both sides). The
others below were met while modelling. Where the model takes the behaviour into
account, its properties say so.

*Established connection*

* With `closeSocket=False`, close() that finds a ticket or a KeyUpdate in flight
  answers it with `unexpected_message` instead of waiting for close_notify
  (`tlsrecordlayer.py:541`; `close` promises at 484-486 to block until the alerts
  are exchanged).
* When a KeyUpdate cannot be sent, `_sendMsgThroughSocket` reads one record, shuts
  down, and raises only if that record is an alert (`tlsrecordlayer.py:1050`):
  otherwise the next read() returns the empty string without a close_notify, and
  a server whose tickets cannot be sent returns from its handshake on a
  connection it has shut down (README.md:1260, 1322-1325).
* `send_keyupdate_request()` raises without closing the connection
  (`tlsrecordlayer.py:1533`; README.md:1335-1337).
* `_shutdown` may raise from the socket's `close()`, which flushes, before it
  clears `session.resumable`. `close()` called twice closes a connection that an
  open `makefile()` still uses.

*Message layer*

* The setting `padding_cb` has no effect: `TLSConnection` sets it on `self.sock`
  (`tlsconnection.py:491`, `:2403`), never on the record layer. A callback set
  there may be told a maximum padding of -2 for a full record.
* On a non-blocking socket `BufferedSocket.flush` sends a whole flight with one
  `sendall` (`bufferedsocket.py:44-51`), outside of the code that turns
  EWOULDBLOCK into a yield; when the flight does not fit, a part of it has gone,
  the rest is lost with the cleared queue, and the generator raises
  (`tlsconnection.py:2350` says it yields 1). The model has such a socket.
* After a HelloRetryRequest the server applies its own record limit to the second,
  unprotected ClientHello (`tlsconnection.py:3916-3930`), so a long one is a
  record_overflow.
* `max_early_data` is compared strictly and with the length of the ciphertext, so
  a full record is refused under the default; a change_cipher_spec resets the count
  of the early data skipped.

*TLS 1.3 handshake*

* A server with an Ed25519 certificate chooses `dvnizk_ed25519` whenever it is
  offered, and makes the proof for the client's first share; with the default key
  shares that is no x25519 share and the handshake fails (`tlsconnection.py:3200`;
  `tests/tlstest.py:663`, `:2688` expect it to succeed).
* A client with an Ed25519 certificate prefers `dvnizk_ed25519` for its own
  CertificateVerify too, and has no way to sign with it. Up to TLS 1.2 picking it
  makes `ServerKeyExchange.hash` trip an assertion. `Compatible` in `Handshake13`
  and `Negotiation` contain what fails for these reasons.
* The server's `resumed` is False after a resumption (`tlsrecordlayer.py:61`).

*Earlier handshakes and negotiation*

* A server applies `maxVersion` to a version taken from supported_versions only
  through `versions`: with maxVersion TLS 1.0 and the default `versions` it
  concludes on TLS 1.2 (`handshakesettings.py:251`); `minVersion` likewise, and a
  client (`tlsconnection.py:1126`). `HighestVersion` is stated for lists that go
  down without gaps: the server takes the first of its own list that the client
  names, whatever their order.
* A ticket outlives a server checker's rejection, a cached session does not;
  `RejectedStaysOut` says so. A client with a TLS 1.2 ticket and SRP is always
  refused; a server that does without the extended master secret never resumes
  for a default client (`TicketRefused`).
* `requireExtendedMasterSecret` is not checked when the server resumes
  (4023-4043), and makes a TLS 1.3 client fail (1174).
* The resumption uses the newly negotiated version with the suite of the session.
* A CertificateRequest without an RSA algorithm is refused in TLS 1.2 by a client
  that would answer with ECDSA or no certificate (1990-1998). An SRP client with
  the default settings sends no supported_groups and gets missing_extension
  (3713-3717). A TLS 1.0 client and an Ed25519 server certificate crash the
  server. With a verifier database and an RSA certificate the plain SRP suites are
  never chosen. The suites DHE_DSS with SHA-256 are in no list of MACs, and
  DHE_DSS with AES-256-GCM is both in `sha384Suites` and in `aeadSuites`
  (`constants.py:1245-1267`): `macNames` allows it under either name.
* `validate()` changes `cipherImplementations` of its caller in place (812-828)
  and checks groups before it cuts the versions. An SNI mismatch, meant as a
  warning, makes a client of this library fail (`_getMsg`, 1117-1143).
* Two handlers name `AlertDescription.decoder_error`, which does not exist (3689,
  3694), and one passes an `Alert` where a description is expected (4677-4686).

*Messages*

* Where only the bundled Brotli decompressor is available, a certificate
  compressed with it is refused, and without an alert: `CompressedCertificate.parse`
  compresses again what it has decompressed (`messages.py:2577`), which raises
  ValueError, and no handler of `_getMsg` (`tlsrecordlayer.py:1309-1319`) knows that one.
  The default settings offer Brotli (`handshakesettings.py:91`). A curve that
  is not a named one is met with an AssertionError. `Overlooked` in `MessageExchange`
  says which messages these are; `RefusedWithAlert` that they are all.
* `TLSExtension.parse` promises (216-218) what the SRP, TACK and
  DelegatedCredentialCert extensions do not keep; an empty ClientKeyShare is read as
  None and cannot be written. Messages of SSL 2.0 ignore trailing bytes.
  A truncated `SessionTicketPayload` raises DecodeError where its caller (2888-2891) expects
  ValueError.

*Asynchronous integration*

* `select` does not see whole records in the read-ahead buffer: after the reader
  ends they are reported only when more bytes come, although the class says
  (19-21) that `outReadEvent()` is called when a complete record has been received.
  `EachRecordReported` excludes an end that is held back so.
* A handshake flight that a non-blocking socket does not take at once fails the
  handshake with the socket's error (`bufferedsocket.py:44-51`), although the
  connection's generators yield 1 to wait for such a socket elsewhere.
* `send()` or `close()` from outside while an operation is on trips the assertion
  and drops the generator without closing. The asyncio mixin names callbacks that the
  state machine does not have.

*DVNIZK*

* A proof in which the commitment of a branch is the identity can only come from the
  simulator of that branch, since an honest branch with a zero scalar raises
  (`dvnizk.py:120-128`, 223-231): it tells who made the proof. By chance this happens once
  in about n proofs, and `Deniable` leaves it out (`OnceUnless`).

*Session cache.* `time.time()` may go back; then the ring is not in order of time
and an expired session behind a younger one may be handed out. The runs use a
clock that does not (`ClockSteps`).

## 6. What is proved

The theorems hold for every value of the constants that satisfies the named
assumptions of the modules, and the hypotheses stated with three of them: a
clock that does not go back, a group of prime order, no SRP.

| Module of proofs | Theorem | States |
|---|---|---|
| `SessionCacheProofs` | `SessionCacheTypeOK`, `SessionCacheConsistent` | types, `RingMatchesDict` |
| | `SessionCacheRefined` | `ImplementsSessionStore`, if `ClockSteps \subseteq Nat` |
| `TLSRecordLayerProofs` | `RecordLayerTypeOK`, `RecordLayerFreshNonce`, `RecordLayerProtected`, `RecordLayerFailedNotResumable` | `TypeOK`, `FreshNonce`, `NothingUnprotected`, `FailedNotResumable` |
| | `RecordLayerInStep`, `RecordLayerStream` | `ReceiverInStep`, `ImplementsStream` |
| `Handshake13Proofs` | `AgreementRefined`, `ClientIdentified`, `FailedHandshakes` | `ImplementsAgreement`, `ClientIdentity`, `FailedNotResumable` |
| | `InStep`, `FailuresExplained` | `ReadsInStep`, `FailsWithReason` |
| `Handshake12Proofs` | `AgreementRefined`, `ClientIdentified`, `RejectedSessions` | `ImplementsAgreement`, `ClientIdentity`, `RejectedStaysOut` |
| | `SuitesFit`, `HighestAgreed` | `SuiteFits`, `HighestVersion` |
| `KeyExchangeProofs` | `KeyExchangeSame`, `KeyExchangeWellFormed` | `SameSecret`, `OnlyWellFormed` |
| | `KeyExchangeNotForced` | `NotForced`, for setups without SRP |
| `DVNIZKProofs` | `DVNIZKTypeOK`, `DVNIZKComplete`, `DVNIZKSimulation` | types, `Complete`, the simulation with a scalar that was not converted |
| | `DVNIZKDeniable`, `DVNIZKExtractable` | `Deniable`; `Extractable`, if `Prime(n)` |
| `AsyncStateMachineProofs` | `AsyncRaisesForCause`, `AsyncReportedInOrder` | `RaisesForCause`, `ReportedInOrder` |

`Numbers` holds the powers, remainders and primes that `DVNIZK` and
`KeyExchange` share, `NumberTheorems` what is known of them: laws of the
remainder and of `powMod`, the cancelling of a factor modulo a prime, Fermat's
argument as far as it is needed, and two forms of induction for sets of
numbers. The library's induction theorems cannot be used (their parameter is an
operator); induction goes by the least counterexample.

### Along which arguments

* *Session cache.* `RingMatchesDict` needs that the live slots hold
  pairwise different IDs. The refinement needs in addition that the times in the
  ring never decrease from the oldest slot on (`Aging`): the purge stops at the first
  entry that is fresh, so what it leaves is fresh only if the ring is in order.
  Without the hypothesis on the clock the refinement fails: a clock that steps
  back lets an expired session be handed out (section 5).
* *Established connection, safety.* Each helper (`Seal`, `Put`, `Take`, `Finish`,
  `Shutdown`, ...) has a lemma of its effect, each action a lemma by the parts of
  `TypeOK`. For the rest each action is one of four kinds of step for an end: it
  keeps its write state, seals with the next number, switches to the next key, or
  stops. `FreshNonce` is not inductive: the strengthening (`NumbersBelow`) says
  that an open end seals with its latest secret and that all numbers used with
  that key are below the next. It has to exclude closed ends, whose state was
  emptied and whose last switch may come after the shutdown (`SalvageOther`);
  that they are idle is the first half of `NothingUnprotected`.
* *Established connection, stream.* The invariant (`Direction`) is about the
  records under way to an end: the first opens under the end's read state
  (`Begins`), each of the others under what the one before leaves behind
  (`Chained`), and the one its peer seals next, or holds sealed, under what the
  last leaves (`Linked`); the numbers of the application data go along. It holds
  of an end that goes on reading only (`Listening`), and the numbers not of one
  that drops data while it closes (`Counting`). Each action is sorted twice
  (`Moves`): by what it does to the stream its end sends (it seals the next
  record, puts one out, waits, leaves) and to the one it reads (it takes the
  next record or none). An end after a KeyUpdate it could not send (`Salvaging`)
  does seal out of step; that its peer can no longer be reached is part of
  the invariant (`Sender`).
* *TLS 1.3 handshake.* A record that opens was sealed with the reader's key, and
  a key names the transcript it is derived from; so an end that opens the other's
  Finished has the other's transcript as a prefix of its own, and with it the
  other's view. The invariant says of every record, under way or held, that
  its sender had the transcript its key names, and of every end that its session is a
  function of its transcript. Each action is of a kind by what it does to
  the transcript (extends it by what it read or sends, or leaves it), and a lemma
  per kind preserves each part.
* *TLS 1.3 handshake without faults.* The settings and the outcome of the server's
  proof then decide every message, so the transcripts and keys can be written down
  beforehand (`Met`, `Proven`, `HsKey`, `AppKey`). `Situation` lists the
  positions the two ends can be in together: what is on the wire and what is held,
  record by record, under which key and number. Neither property is inductive
  without it: a record opens because it is the next of its speaker under the
  reader's key, and nothing less than the list says so across retry, resumption,
  request for a certificate, tickets and the alerts. From the client's Finished
  on the wire can hold any number of records; there the situation says that each
  carries the number after the one before (`Runs`, `ClientOver`,
  `ServerOver`). `Blamed` says that an end which gave up, or is about to, has a reason.
  One lemma per action leads from a situation to a situation (`...Goes`), or shows
  that the action cannot happen (`...Not`): a refused retry or second hello, a record
  that does not open. Only `Break` and `Damage` count faults (`FaultsCounted`), so
  `Course`, which asks for a situation as long as there are none, is invariant.
* *Earlier handshakes.* The same argument over several meetings: a key names the
  master secret, suite, version and mode of the MAC, a master secret the meeting it
  was made in, and a meeting makes at most one session. Actions are of eleven
  kinds (`Stays`, `Stops`, `Switches`, `Greets`, `HearsHello`, `Verifies`,
  `TakesTicket`, `TakesSession`, `Negotiates`, `HearsClient`, `Concludes`):
  one lemma per action shows its kind, one per conjunct of the invariant that all
  kinds preserve it; the next meeting starts from fresh connections (`Ready`)
  and the sessions that were kept.
* *Earlier handshakes, version.* The transcript of either end begins with the
  client's hello as that end had it (`ClientBegan`, `ServerBegan`). The server's
  version is the one it takes from that hello, so if the hello was not altered it
  is a function of the two settings, and for regular lists the highest of both
  (`BestTaken`). A Finished carries its sender's transcript, and the end that opens
  it compares it with its own: a session is made only if the hello was not
  altered (`Vouched`). Neither the sentinel nor `TLS_FALLBACK_SCSV` is needed
  for this; they are about clients that try again with less.
* *Earlier handshakes, suites.* The client takes a suite only from its own list and for
  the version announced (`ClientSuited`), the server only from the table of its
  credentials; one that resumes looks the session's suite up again
  (`ServerSuited`). That such a suite has keys of the cipher and the MAC that
  the settings named is a fact about the lists of `constants.py`, proved list by list
  (`SuiteCipher`, `SuiteMacs`, `SuiteKeys`, joined by `FitsFromTable`):
  `_getCipherSettings` and `_getMacSettings` ask the lists in an order of their
  own. Encrypt-then-MAC goes with a CBC cipher because the server decides it from
  the suite, and a session keeps the pair (`EtmFits` of every session in a cache, a
  ticket or the client's hands).
* *Key exchange.* For each kind of exchange one lemma without state says that what the
  two ends compute from each other's shares agrees (for finite fields and SRP from
  the laws of `powMod`, for the x curves from the cofactor and the prime order of the
  rest). The invariant (`ExchangeInv`) then says of each phase what the numbers of
  a handshake are, and of the RSA key that the pair in use and the pair kept
  always cancel, whichever thread took which. For `NotForced` the private numbers
  contain two neighbours (`RangeAssumption`: the code draws from all numbers of a
  length); with a share that passes the checks, two neighbours have different
  secrets. SRP is excluded there, since its secret depends on values of a hash that
  the model has only a stand-in for.
* *DVNIZK.* Lemmas on remainders lead to the equations of a real branch
  (`RealBranch`) and of a simulated one (`SimulatedBranch`). `Complete` speaks of
  verdicts only; what makes it inductive (`Fits`) is that the question a proof
  answers was put to the oracle and that the oracle's answer fits the proof.
  The other two need the same of accepted proofs, and that no call of
  `verify_proof` raised (`AcceptedFits`): the equations
  determine the coins, which are other than 0 because the scalars of the proof are
  and the nonce is the commitment; and two answers to one commitment give a linear equation whose
  coefficient can be inverted modulo a prime.
* *Asynchronous integration.* The invariant has two halves. Of an end's machine it
  says that `result` and the operations agree, that at most one is on, and what
  that one can still have to do (`Fit`). Of the bytes on their way to an end that
  goes on reading it says that they are whole records in succession, the first
  the next to report and the last the last written (`Stream`), where the bytes
  are counted from those the suspended generator has, through the read-ahead and
  the wire, to those the peer's generator still has to send (`Way`). A turn of an
  end is taken by itself (`TakesUp`): the peer is a context, the bytes before and
  behind those the end works on. One lemma per list of records that a generator
  can have says what `next()` does with it, one per method of the state machine
  that it leaves the end going in its context (`Goes`), and `PutsBack` joins the
  two ends again. That a closing end's last record is its close_notify
  (`Finishes`) is why the end of the stream never comes within a record. All this is
  for a wire that takes a flight of the handshake, so that an end that raised has a
  peer that closed (`Local`) and makes nobody wait for the rest of a record. On a
  shorter wire the client's first flight fails at its socket, and `Narrow` says that
  the server never has a record: it waits, or fails in its turn. That
  `_doReadOp` is through with the reader before the callback is why `_checkAssert`
  holds when the callback starts a write or a close.

### Only model-checked

* Liveness under fairness (`Converges`, `CloseEnds`, `Terminates` and the others): out of
  the prover's reach.
* `ServedAgain` of `Handshake12`: that a session both ends still like is taken up
  again needs both ends followed through a whole meeting without faults; TLC
  goes through more than two thousand series of meetings instead.
* `NotForced` of `KeyExchange` with SRP.
* `MessageLayer` and `MessageExchange`: their modules describe byte layouts by
  recursive operators.

## 7. Not modelled

* *Connection life cycle, post-handshake authentication, user databases*: open
  points of the plan.
* *In the parts that are modelled in part*: external and several pre-shared keys,
  delegated credentials, certificate compression and ALPN in TLS 1.3;
  renegotiation, ALPN, NPN, SNI, TACK, OCSP, heartbeats and the SSL 2.0 hello in
  the earlier handshakes; `MessageSocket`, which no connection uses; the
  asyncio mixin; PKCS #1 and PSS signatures, key generation and the timing of the
  constant-time code.
* *Key schedule and transcript*: pure derivations; the handshakes contain which
  messages and secrets each value is made from.
* *Ciphers and curves, certificates*: computations on data with test vectors and no
  choice of order for a model to explore.
* *Blocking integration*: adapters without state of their own.
* *The vendored Brotli decoder, the scripts and demonstrations, the tests*: third-party
  code, programs over the library, and documentation of its behaviour.
