--------------------------- MODULE MCTLSRecordLayer ---------------------------
\* Settings of the two ends for the runs of TLSRecordLayer.
EXTENDS TLSRecordLayer

Never == [e \in Ends |-> FALSE]
ServerOnly == [e \in Ends |-> e = Server]
ClientOnly == [e \in Ends |-> e = Client]
=============================================================================
