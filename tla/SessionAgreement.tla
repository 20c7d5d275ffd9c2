--------------------------- MODULE SessionAgreement ---------------------------
(***************************************************************************)
(* What a handshake up to TLS 1.2 promises two ends that meet again and     *)
(* again: an end may conclude on a new session, but the second to do so     *)
(* only on what the first concluded on; and an end may conclude on an       *)
(* earlier session, but only on one that both of them concluded on then.    *)
(***************************************************************************)
CONSTANTS Client, Server, NoView

Ends == {Client, Server}
Other(e) == IF e = Client THEN Server ELSE Client

VARIABLES
    view,      \* per end: the view it concluded on in this meeting
    known      \* per end: the sessions it ever concluded on

Init ==
    /\ view = [e \in Ends |-> NoView]
    /\ known = [e \in Ends |-> {}]

\* A view names its session, the version and the keys.
Concludes(e) ==
    /\ view[e] = NoView
    /\ view'[e] # NoView
    /\ view' = [view EXCEPT ![e] = view'[e]]
    /\ view[Other(e)] \in {NoView, view'[e]}
    /\ known' = [known EXCEPT ![e] = @ \cup {view'[e].session}]

Full(e) == Concludes(e) /\ ~view'[e].resumed

Resumption(e) ==
    /\ Concludes(e)
    /\ view'[e].resumed
    /\ view'[e].session \in known[Client] \cap known[Server]

Meet ==
    /\ view' = [e \in Ends |-> NoView]
    /\ UNCHANGED known

Next == (\E e \in Ends : Full(e) \/ Resumption(e)) \/ Meet

Spec == Init /\ [][Next]_<<view, known>>
=============================================================================
