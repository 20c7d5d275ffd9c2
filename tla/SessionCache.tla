----------------------------- MODULE SessionCache -----------------------------
(***************************************************************************)
(* tlslite/sessioncache.py: the server's in-memory cache of resumable      *)
(* sessions, a dictionary plus a circular list of (sessionID, timestamp).  *)
(* Every public method runs under one lock, so each is one action; the     *)
(* threads that call it and the callers that invalidate a session they     *)
(* share with the cache show up as the interleaving of those actions.      *)
(***************************************************************************)
EXTENDS Integers, Sequences

CONSTANTS
    SessionIDs,    \* session IDs a server can hand out
    Sessions,      \* Session objects; each is stored at most once
    MaxEntries,    \* SessionCache(maxEntries=...)
    MaxAge,        \* SessionCache(maxAge=...)
    ClockSteps,    \* by how much time.time() may move in one step
    MaxClock,      \* bound on the clock
    KeyError,      \* what a lookup raises when it finds nothing
    NoID           \* the None in a slot that was never written

ASSUME MaxEntriesAssumption == MaxEntries \in Nat \ {0, 1}
ASSUME MaxAgeAssumption == MaxAge \in Nat
ASSUME ClockAssumption == ClockSteps \subseteq Int /\ MaxClock \in Nat
ASSUME KeyErrorAssumption == KeyError \notin Sessions
ASSUME NoIDAssumption == NoID \notin SessionIDs

VARIABLES
    entriesDict,   \* sessionID -> session, defined on the IDs it holds
    entriesList,   \* circular list of [id, at], or Unused
    firstIndex,    \* slot of the oldest entry
    lastIndex,     \* slot the next entry goes to
    resumable,     \* sessions whose resumable flag is set
    clock,         \* time.time()
    returned,      \* outcome of the latest __getitem__
    stored,        \* history: sessions passed to __setitem__
    usedIDs        \* history: IDs passed to __setitem__

vars == <<entriesDict, entriesList, firstIndex, lastIndex, resumable, clock,
          returned, stored, usedIDs>>

Slots == 0..(MaxEntries - 1)
Unused == [id |-> NoID, at |-> 0]
Times == 0..MaxClock

NextSlot(i) == (i + 1) % MaxEntries

\* The slots between two indices of the circular list, the second excluded.
Between(i, j) ==
    IF i <= j THEN i..(j - 1)
    ELSE (i..(MaxEntries - 1)) \cup (0..(j - 1))

Live == Between(firstIndex, lastIndex)
IDsAt(S) == {entriesList[k].id : k \in S}

TypeOK ==
    /\ \E D \in SUBSET SessionIDs : entriesDict \in [D -> Sessions]
    /\ entriesList \in [Slots -> [id : SessionIDs \cup {NoID}, at : Times]]
    /\ firstIndex \in Slots
    /\ lastIndex \in Slots
    /\ resumable \subseteq Sessions
    /\ clock \in Times
    /\ returned \in Sessions \cup {KeyError}
    /\ stored \subseteq Sessions
    /\ usedIDs \subseteq SessionIDs

Init ==
    /\ entriesDict = [id \in {} |-> KeyError]
    /\ entriesList = [k \in Slots |-> Unused]
    /\ firstIndex = 0
    /\ lastIndex = 0
    /\ resumable = Sessions
    /\ clock = 0
    /\ returned = KeyError
    /\ stored = {}
    /\ usedIDs = {}

Without(dict, ids) == [x \in DOMAIN dict \ ids |-> dict[x]]
With(dict, id, s) ==
    [x \in DOMAIN dict \cup {id} |-> IF x = id THEN s ELSE dict[x]]

\* The ring is full once the slot to write next is the oldest entry's.
FullNever(next) == FALSE                       \* mutant: no eviction
Full(next) == next = firstIndex

(***************************************************************************)
(* __setitem__.  The entry is written first; when that fills the ring the  *)
(* oldest entry is deleted.  If its ID is no longer in the dictionary the  *)
(* del raises KeyError out of the method, after the entry and lastIndex    *)
(* were written and before firstIndex moves.  The server draws 32 random   *)
(* bytes for every ID, so that none is stored twice.                       *)
(***************************************************************************)
SetItem(id, s) ==
    /\ s \notin stored
    /\ id \notin usedIDs
    /\ LET dict == With(entriesDict, id, s)
           list == [entriesList EXCEPT ![lastIndex] = [id |-> id, at |-> clock]]
           oldest == list[firstIndex].id
           evict == Full(NextSlot(lastIndex)) /\ oldest \in DOMAIN dict
       IN  /\ entriesList' = list
           /\ entriesDict' = IF evict THEN Without(dict, {oldest}) ELSE dict
           /\ firstIndex' = IF evict THEN NextSlot(firstIndex) ELSE firstIndex
    /\ lastIndex' = NextSlot(lastIndex)
    /\ stored' = stored \cup {s}
    /\ usedIDs' = usedIDs \cup {id}
    /\ UNCHANGED <<resumable, clock, returned>>

\* Session.valid() of a session that has a session ID.
ValidAlways(s) == TRUE                         \* mutant: check left out
Valid(s) == s \in resumable

Expired(k) == clock - entriesList[k].at > MaxAge

(***************************************************************************)
(* The slot at which the loop of _purge stops, walking from firstIndex     *)
(* while the entry is too old, and whether it stops because the del of an  *)
(* entry that left the dictionary earlier raises KeyError.                 *)
(***************************************************************************)
Deletable(k) ==
    /\ entriesList[k].id \in DOMAIN entriesDict
    /\ \A j \in Between(firstIndex, k) : entriesList[j].id # entriesList[k].id

PurgeStop(k) ==
    /\ k \in Live \cup {lastIndex}
    /\ \A j \in Between(firstIndex, k) : Expired(j) /\ Deletable(j)
    /\ k = lastIndex \/ ~Expired(k) \/ ~Deletable(k)

PurgeFails(k) == k # lastIndex /\ Expired(k)

(***************************************************************************)
(* __getitem__: purge, then look the ID up, then check valid().  When the  *)
(* purge raises, what it deleted stays deleted but firstIndex is not set.  *)
(***************************************************************************)
GetItem(id) ==
    /\ \E k \in Slots :
          /\ PurgeStop(k)
          /\ entriesDict' = Without(entriesDict, IDsAt(Between(firstIndex, k)))
          /\ firstIndex' = IF PurgeFails(k) THEN firstIndex ELSE k
          /\ returned' =
                IF /\ ~PurgeFails(k)
                   /\ id \in DOMAIN entriesDict'
                   /\ Valid(entriesDict'[id])
                THEN entriesDict'[id]
                ELSE KeyError
    /\ UNCHANGED <<entriesList, lastIndex, resumable, clock, stored, usedIDs>>

\* A connection that shares the session with the cache fails and clears the
\* session's resumable flag (tlsrecordlayer.py, _shutdown(False)).
Invalidate(s) ==
    /\ s \in stored
    /\ resumable' = resumable \ {s}
    /\ UNCHANGED <<entriesDict, entriesList, firstIndex, lastIndex, clock,
                   returned, stored, usedIDs>>

Tick ==
    /\ \E d \in ClockSteps : clock + d \in Times /\ clock' = clock + d
    /\ UNCHANGED <<entriesDict, entriesList, firstIndex, lastIndex, resumable,
                   returned, stored, usedIDs>>

Next ==
    \/ \E id \in SessionIDs, s \in Sessions : SetItem(id, s)
    \/ \E id \in SessionIDs : GetItem(id)
    \/ \E s \in Sessions : Invalidate(s)
    \/ Tick

Spec == Init /\ [][Next]_vars

-----------------------------------------------------------------------------
(***************************************************************************)
(* Safety.                                                                 *)
(***************************************************************************)

\* The dictionary and the live part of the circular list describe the same
\* sessions, one slot each: the del statements of __setitem__ and _purge
\* never miss, and nothing stays in the dictionary that no slot will evict.
RingMatchesDict ==
    /\ DOMAIN entriesDict = IDsAt(Live)
    /\ \A j, k \in Live : entriesList[j].id = entriesList[k].id => j = k

-----------------------------------------------------------------------------
(***************************************************************************)
(* The cache implements SessionStore.                                      *)
(***************************************************************************)
LiveCount == (lastIndex - firstIndex + MaxEntries) % MaxEntries

HeldEntries ==
    [i \in 1..LiveCount |->
        LET e == entriesList[(firstIndex + i - 1) % MaxEntries]
        IN  [id |-> e.id, session |-> entriesDict[e.id], at |-> e.at]]

Abstract == INSTANCE SessionStore
    WITH held <- HeldEntries, Capacity <- MaxEntries - 1, Miss <- KeyError

\* Every behaviour of the ring and the dictionary is a behaviour of a plain
\* bounded queue of sessions: no session is lost before it is the oldest of
\* MaxEntries or too old, none is handed out after that or once a caller
\* cleared its resumable flag.
ImplementsSessionStore == Abstract!Spec
=============================================================================
