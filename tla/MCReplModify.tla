--------------------------- MODULE MCReplModify ---------------------------
(***************************************************************************)
(* Two replication workers and one other local writer on a replica whose *)
(* entry has the single-valued attribute cn = alice and the multi-valued *)
(* attribute member = alice (value metadata: alice added at time 1), both *)
(* under the attribute epoch <1, s1>.  Each worker applies one of:       *)
(*   RBoth    cn replaced by bob under <2, s1>, and bob added to member   *)
(*            at time 2 by a value item of the current epoch;            *)
(*   RValue   alice deleted from member at time 2;                        *)
(*   RReplace member replaced by carol under <2, s1> (purges the value   *)
(*            metadata of member);                                        *)
(*   RTomb    a change to an entry that is a tombstone.                   *)
(* A deleter applies DCn, the delete of the entry.  An adder applies     *)
(* ASchema, the add of the entry under the schema naming context from    *)
(* server 2, with a value item for member and one for manager, an        *)
(* attribute the entry does not carry.                                   *)
(***************************************************************************)
EXTENDS ReplModify, TLC

CONSTANTS w1, w2, o1, d1, a1, alice, bob, carol

AttrMeta(ver) == [ver |-> ver, orig |-> 1, usn |-> 0]

Item(v, op, t) ==
    [attr |-> "member", usn |-> 7, ver |-> 1, orig |-> 1, vorig |-> 2,
     time |-> t, op |-> op, val |-> v]

MCInitStore ==
    [vals  |-> [a \in {"cn", "member"} |-> {alice}],
     meta  |-> [a \in {"cn", "member"} |-> AttrMeta(1)],
     vmeta |-> {[Item(alice, "add", 1) EXCEPT !.usn = 0]}]

RBoth == [tombstone |-> FALSE,
          attrs |-> {[attr |-> "cn", ver |-> 2, orig |-> 1, vals |-> {bob}]},
          vm |-> <<Item(bob, "add", 2)>>]
RValue == [tombstone |-> FALSE, attrs |-> {}, vm |-> <<Item(alice, "del", 2)>>]
RReplace == [tombstone |-> FALSE,
             attrs |-> {[attr |-> "member", ver |-> 2, orig |-> 1, vals |-> {carol}]},
             vm |-> <<>>]
RTomb == [tombstone |-> TRUE, attrs |-> {}, vm |-> <<>>]

RCn == [tombstone |-> FALSE,
        attrs |-> {[attr |-> "cn", ver |-> 2, orig |-> 1, vals |-> {bob}]},
        vm |-> <<>>]

\* A delete from server 0: the tombstone's cn carries no value, under the
\* epoch <2, s0>, which beats the stored <1, s1> and loses to RCn's <2, s1>.
DCn == [attrs |-> {[attr |-> "cn", ver |-> 2, orig |-> 0, vals |-> {}]}]

ASchema == [attrs |-> {[attr |-> "cn", ver |-> 1, orig |-> 2, vals |-> {carol}],
                       [attr |-> "member", ver |-> 1, orig |-> 2, vals |-> {carol}]},
             vm |-> <<Item(carol, "add", 1), [Item(alice, "add", 1) EXCEPT !.attr = "manager"]>>]

MCRecs == {RBoth, RValue, RReplace, RTomb}

\* The records that carry no value metadata.
MCAttrRecs == {RCn, RReplace, RTomb}

\* The modify that races the delete on cn.
MCCnRecs == {RCn}
MCWorkers == {w1, w2}
MCWorker == {w1}
MCWriters == {o1}
MCDeleters == {d1}
MCNoThreads == {}
MCDelRecs == {DCn}
MCAdders == {a1}
MCAddRecs == {ASchema}
MCPresence == BOOLEAN
MCPresent == {TRUE}
MCMultiValued == {"member"}
MCSymmetry == Permutations(MCWorkers)
=============================================================================
