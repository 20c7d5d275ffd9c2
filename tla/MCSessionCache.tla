---------------------------- MODULE MCSessionCache ----------------------------
\* Model values and symmetry for the runs of SessionCache.
EXTENDS SessionCache, TLC

CONSTANTS i1, i2, i3, i4, s1, s2, s3, s4

IDs == {i1, i2, i3, i4}
Objects == {s1, s2, s3, s4}
Forward == {1, 2}
Interchangeable == Permutations(IDs) \cup Permutations(Objects)

=============================================================================
