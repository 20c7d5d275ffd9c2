----------------------------- MODULE SecureStream -----------------------------
(***************************************************************************)
(* What an established connection promises to the two applications: two    *)
(* streams of records, each delivered in the order it was written, without *)
(* gap or repetition, until the reading end is closed.  A stream may end   *)
(* before all of it was delivered; it never resumes.                       *)
(***************************************************************************)
EXTENDS Integers

CONSTANTS Client, Server

Ends == {Client, Server}
Peer(e) == IF e = Client THEN Server ELSE Client

VARIABLES
    written,     \* per end: records it wrote
    delivered,   \* per end: records its application got from its peer
    closed       \* per end

svars == <<written, delivered, closed>>

Init ==
    /\ written = [e \in Ends |-> 0]
    /\ delivered = [e \in Ends |-> 0]
    /\ closed = [e \in Ends |-> FALSE]

Write(e) ==
    /\ ~closed[e]
    /\ written' = [written EXCEPT ![e] = @ + 1]
    /\ UNCHANGED <<delivered, closed>>

Deliver(e) ==
    /\ ~closed[e]
    /\ delivered[e] < written[Peer(e)]
    /\ delivered' = [delivered EXCEPT ![e] = @ + 1]
    /\ UNCHANGED <<written, closed>>

End(e) ==
    /\ closed' = [closed EXCEPT ![e] = TRUE]
    /\ UNCHANGED <<written, delivered>>

Next == \E e \in Ends : Write(e) \/ Deliver(e) \/ End(e)

Spec == Init /\ [][Next]_svars
=============================================================================
