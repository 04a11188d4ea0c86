---------------------------- MODULE MCKdcClient ----------------------------
(***************************************************************************)
(* The client of MCKdcAsPreauth, in a realm of the forest of              *)
(* MCKdcRealmRoute (realms of one to three labels a and ab, two trees),    *)
(* asking for any realm of the forest.                                     *)
(***************************************************************************)
EXTENDS KdcClient

CONSTANTS c1, DES

MCFold(n) == IF n = "Alice" THEN "alice" ELSE n
MCEtypeLists == {<<AES256, RC4>>, <<RC4, AES256>>, <<DES, RC4>>, <<DES>>}
MCClients == {c1}
MCDirectory == {"Alice"}
MCNames == {"alice", "Alice", "bob"}
MCStoredEtypes == {AES256, RC4}

LabelA == <<"a">>
LabelAB == <<"a", "b">>
MCRealms == UNION {[1..n -> {LabelA, LabelAB}] : n \in 1..3}
=============================================================================
