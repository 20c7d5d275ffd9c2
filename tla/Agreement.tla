------------------------------ MODULE Agreement -------------------------------
(***************************************************************************)
(* What an authenticated handshake promises: the client may conclude on any *)
(* view of the connection (group, keys, secrets, way of authentication),    *)
(* the server only on the view the client already concluded on.  Either may *)
(* fail at any time instead, and no view changes once it was concluded on.  *)
(***************************************************************************)
CONSTANTS Client, Server, NoView

Ends == {Client, Server}

VARIABLE view     \* per end: the view it concluded on

Init == view = [e \in Ends |-> NoView]

ClientConcludes ==
    /\ view[Client] = NoView
    /\ view'[Client] # NoView
    /\ view' = [view EXCEPT ![Client] = view'[Client]]

ServerConcludes ==
    /\ view[Server] = NoView
    /\ view[Client] # NoView
    /\ view' = [view EXCEPT ![Server] = view[Client]]

Next == ClientConcludes \/ ServerConcludes

Spec == Init /\ [][Next]_view
=============================================================================
