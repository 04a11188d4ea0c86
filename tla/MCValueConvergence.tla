------------------------- MODULE MCValueConvergence -------------------------
(***************************************************************************)
(* Replicas of a group entry whose multi-valued attribute member      *)
(* holds alice, added at time 1 under the attribute epoch <1, s1>.        *)
(* Changes from two servers: alice deleted at 2 and re-added at 3, bob    *)
(* added at 2 and deleted at 4, and an add of carol generated under an    *)
(* older epoch.  Times are distinct per value (ChangesDistinct), or two   *)
(* servers touch alice at the same time (ChangesTied).                    *)
(***************************************************************************)
EXTENDS ValueConvergence, TLC

CONSTANTS r1, r2, alice, bob, carol

Item(v, op, t, vorig, ver) ==
    [attr |-> "member", usn |-> 7, ver |-> ver, orig |-> 1, vorig |-> vorig,
     time |-> t, op |-> op, val |-> v]

MCInitStore ==
    [vals  |-> [a \in {"member"} |-> {alice}],
     meta  |-> [a \in {"member"} |-> [ver |-> 1, orig |-> 1, usn |-> 0]],
     vmeta |-> {[Item(alice, "add", 1, 1, 1) EXCEPT !.usn = 0]}]

ChangesDistinct ==
    { Item(alice, "del", 2, 2, 1), Item(alice, "add", 3, 1, 1),
      Item(bob, "add", 2, 1, 1),   Item(bob, "del", 4, 2, 1),
      Item(carol, "add", 5, 2, 0) }

ChangesTied ==
    { Item(alice, "del", 3, 2, 1), Item(alice, "add", 3, 1, 1),
      Item(bob, "add", 2, 1, 1) }

\* LastWriterWins is a statement about every order one replica may see, so
\* one replica suffices for it; Convergence compares two.
OneReplica == {r1}
TwoReplicas == {r1, r2}
MCSymmetry == Permutations(TwoReplicas)
=============================================================================
