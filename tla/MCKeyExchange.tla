---------------------------- MODULE MCKeyExchange ----------------------------
(***************************************************************************)
(* Every kind of key exchange by itself over groups of a few dozen         *)
(* elements, and two RSA key exchanges at the same time on one key.        *)
(***************************************************************************)
EXTENDS KeyExchange, TLC

CONSTANTS h1, h2

FFDH == [kind : {"ffdh"}, version : {"1.2", "1.3"}, prime : {11, 23, 29},
         generator : {2, 5, 13}]

FormatLists == {<<>>, <<"uncompressed">>, <<"compressed", "uncompressed">>,
                <<"uncompressed", "compressed">>}

ECDH == [kind : {"ecdh"}, order : {11}, clientFormats : FormatLists,
         serverFormats : SUBSET Formats]

X == [kind : {"x"}, order : {22}]
KEM == [kind : {"kem"}, order : {22}, pqcFirst : BOOLEAN]

SRP == [kind : {"srp"}, N : {23}, g : {5}, password : {3, 6}, stored : {3, 6},
        knownGroup : BOOLEAN]

RSA == [kind : {"rsa"}, clientVersion : {"1.2", "1.1"},
        serverVersion : {"1.1", "1.0"}]

Alone(s) == (h1 :> s) @@ (h2 :> Idle)

MCSetups ==
    {Alone(s) : s \in UNION {FFDH, ECDH, X, KEM, SRP}}
        \cup {(h1 :> s) @@ (h2 :> s) : s \in RSA}

\* The forms that a decrypted premaster secret may have, one per number.
Form(first, type, zeros, version) ==
    [first |-> first, type |-> type, zeros |-> zeros, version |-> version]

Forms == <<
    Form(0, 2, {10}, "1.2"),         \* well formed
    Form(0, 2, {10}, "1.1"),
    Form(0, 2, {10, 12}, "1.0"),
    Form(0, 2, {10, 11}, "1.2"),
    Form(1, 2, {10}, "1.2"),         \* not of this type
    Form(0, 1, {10}, "1.2"),
    Form(0, 2, {}, "1.2"),           \* no separator
    Form(0, 2, {9}, "1.2"),          \* a short padding
    Form(0, 2, {2, 10}, "1.2"),
    Form(0, 2, {9, 10}, "1.1"),
    Form(0, 2, {11}, "1.2"),         \* a short message
    Form(0, 2, {12}, "1.2")>>

MCEncoded == [m \in 0..KeyN - 1 |-> Forms[(m % Len(Forms)) + 1]]
==============================================================================
