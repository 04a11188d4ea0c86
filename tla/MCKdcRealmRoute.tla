--------------------------- MODULE MCKdcRealmRoute --------------------------
EXTENDS KdcRealmRoute

\* Two labels, one a string prefix of the other, so that the dot-joined
\* reversed names of unrelated realms can share a prefix.
LabelA == <<"a">>
LabelAB == <<"a", "b">>

\* The realms of one to three labels: two trees, rooted at a and at ab.
MCRealms == UNION {[1..n -> {LabelA, LabelAB}] : n \in 1..3}

=============================================================================
