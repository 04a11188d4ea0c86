-------------------------- MODULE MCReplIdentity ---------------------------
EXTENDS ReplIdentity

CONSTANTS dA, dB, tA, g1, g2

\* Two live names, the tombstone name the partner deleted the object under,
\* and the object g1 under dA before anyone runs; g2 is the objectGUID a
\* local add may give a new entry.
MCDNs == {dA, dB}
MCTombDNs == {tA}
MCGuids == {g1, g2}
MCInitDir == [n \in MCDNs |-> IF n = dA THEN g1 ELSE None]

\* The partner's changes to g1, all generated while g1 was under dA there.
MCModRecs == {[dn |-> dA, guid |-> g1]}
MCDelRecs == {[dn |-> tA, guid |-> g1, lastKnownDN |-> dA]}
MCAddRecs == {[dn |-> dA, guid |-> g1]}

=============================================================================
