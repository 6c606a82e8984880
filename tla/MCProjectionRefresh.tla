-------------------------- MODULE MCProjectionRefresh --------------------------
EXTENDS ProjectionRefresh, TLC

Symmetric == Permutations(Refreshes)

\* Of the two sources the second is the reader engagement.
Second == {2}
==============================================================================
