------------------------------- MODULE MCDVNIZK -------------------------------
\* A group of order 5 for the runs of DVNIZK.
EXTENDS DVNIZK

Even == {0, 1, 3}     \* 1 and 4, 2 and 3 are opposite
Anybody == {"handshake", "benchmark"}
\* A clamped scalar may exceed the order.
ServerScalars == {1, 7}
ClientScalars == {2, 3, 6}
=============================================================================
