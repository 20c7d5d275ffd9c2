----------------------------- MODULE SessionStore -----------------------------
(***************************************************************************)
(* What a server may expect of its session cache, whatever data structure  *)
(* implements it: a queue of sessions, oldest first, that holds at most    *)
(* Capacity of them, forgets a session MaxAge after it was stored, and     *)
(* hands out exactly the sessions it holds that are still resumable.       *)
(* SessionCache.tla is shown to implement this module.                     *)
(***************************************************************************)
EXTENDS Integers, Sequences

CONSTANTS
    SessionIDs,    \* session IDs a server can hand out
    Sessions,      \* Session objects
    Capacity,      \* number of sessions the store holds
    MaxAge,        \* age beyond which a session is not handed out
    ClockSteps,    \* by how much the clock may move in one step
    MaxClock,      \* bound on the clock
    Miss           \* the answer to a lookup that finds nothing

VARIABLES
    held,          \* sequence of [id, session, at], oldest first
    resumable,     \* sessions whose resumable flag is set
    clock,
    returned       \* the answer to the latest lookup

svars == <<held, resumable, clock, returned>>

Entries == [id : SessionIDs, session : Sessions, at : 0..MaxClock]

Fresh(e) == clock - e.at <= MaxAge

Init ==
    /\ held = <<>>
    /\ resumable = Sessions
    /\ clock = 0
    /\ returned = Miss

\* A new session displaces the oldest one when the store is full.
Store(id, s) ==
    /\ \A i \in DOMAIN held : held[i].id # id
    /\ LET all == Append(held, [id |-> id, session |-> s, at |-> clock])
       IN  held' = IF Len(all) > Capacity THEN Tail(all) ELSE all
    /\ UNCHANGED <<resumable, clock, returned>>

\* A lookup forgets what is too old, which are the oldest sessions, and
\* answers from what is left.
Lookup(id) ==
    /\ \E n \in 0..Len(held) :
          /\ \A i \in DOMAIN held : Fresh(held[i]) <=> i > n
          /\ held' = SubSeq(held, n + 1, Len(held))
    /\ returned' \in
          LET hits == {i \in DOMAIN held' : /\ held'[i].id = id
                                            /\ held'[i].session \in resumable}
          IN  IF hits = {} THEN {Miss} ELSE {held'[i].session : i \in hits}
    /\ UNCHANGED <<resumable, clock>>

Invalidate(s) ==
    /\ resumable' = resumable \ {s}
    /\ UNCHANGED <<held, clock, returned>>

Tick ==
    /\ \E d \in ClockSteps : clock' = clock + d
    /\ UNCHANGED <<held, resumable, returned>>

Next ==
    \/ \E id \in SessionIDs, s \in Sessions : Store(id, s)
    \/ \E id \in SessionIDs : Lookup(id)
    \/ \E s \in Sessions : Invalidate(s)
    \/ Tick

Spec == Init /\ [][Next]_svars
=============================================================================
