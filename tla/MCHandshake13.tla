---------------------------- MODULE MCHandshake13 -----------------------------
\* Settings of the two ends for the runs of Handshake13.
EXTENDS Handshake13

Default == <<"dvnizk_ed25519", "Ed25519", "rsa_pss">>
NoDVNIZK == <<"Ed25519", "rsa_pss">>

PlainClient ==
    [shares |-> <<"x25519">>, groups |-> Groups, schemes |-> Default,
     ticket |-> "none", ticketCert |-> "none", cert |-> "none",
     rejects |-> FALSE]
PlainServer ==
    [groups |-> <<"x25519", "secp256r1">>, schemes |-> Default,
     cert |-> "Ed25519", reqCert |-> FALSE, tickets |-> TRUE,
     rejects |-> FALSE]

\* Shares and groups: at once, after a retry, not at all; resumed or not.
Negotiations ==
    [client : {[PlainClient EXCEPT !.shares = shares, !.groups = groups,
                                   !.schemes = schemes, !.ticket = ticket] :
                  shares \in {<<"x25519">>, <<"secp256r1">>,
                              <<"secp256r1", "x25519">>},
                  groups \in {Groups, {"secp256r1"}},
                  schemes \in {Default, NoDVNIZK},
                  ticket \in {"none", "good", "unknown"}},
     server : {[PlainServer EXCEPT !.groups = groups, !.cert = cert] :
                  groups \in {<<"x25519", "secp256r1">>, <<"secp256r1">>,
                              <<"secp256r1", "x25519">>, <<"x25519">>},
                  cert \in {"Ed25519", "rsa"}}]

\* Client certificates, checkers and tickets.
Identities ==
    [client : {[PlainClient EXCEPT !.cert = cert, !.schemes = schemes,
                                   !.ticket = ticket[1],
                                   !.ticketCert = ticket[2],
                                   !.rejects = rejects] :
                  cert \in Certs,
                  schemes \in {Default, NoDVNIZK, <<"rsa_pss">>},
                  ticket \in {<<"none", "none">>, <<"good", "rsa">>,
                              <<"good", "none">>},
                  rejects \in BOOLEAN},
     server : {[PlainServer EXCEPT !.reqCert = req, !.tickets = tickets,
                                   !.rejects = rejects] :
                  req \in BOOLEAN, tickets \in BOOLEAN,
                  rejects \in BOOLEAN}]

\* A share is sent only for a group that is supported.
Sound(setup_) ==
    ToSet(setup_.client.shares) \subseteq setup_.client.groups

AllSetups == {x \in Negotiations \cup Identities : Sound(x)}

=============================================================================
