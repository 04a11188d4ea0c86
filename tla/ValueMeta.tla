----------------------------- MODULE ValueMeta -----------------------------
(***************************************************************************)
(* Conflict resolution of attribute-value metadata and the building and   *)
(* application of the modify request of one replicated change, from       *)
(* src/vmdir/server/replication2/replentry.c.  Pure operators over a      *)
(* store of one entry; the modules ReplModify and ValueConvergence use    *)
(* them as the steps of their actions.                                     *)
(*                                                                         *)
(* A store is a record                                                     *)
(*   [vals  : [Attrs -> SUBSET Values],      attribute values              *)
(*    meta  : [Attrs -> AttrMeta],           attribute metadata            *)
(*    vmeta : SUBSET VMRec]                  stored value metadata         *)
(* A value-metadata item of the wire format                               *)
(*   <attr>:<local-usn>:<version>:<orig-server>:<value-change-orig-server>*)
(*   :<value-change-time>:<value-change-usn>:<opcode>:<value-size>:<value>*)
(* is a record [attr, usn, ver, orig, vorig, time, op, val]; the colon    *)
(* encoding is abstracted, every field is compared whole, as strcmp and   *)
(* memcmp over the delimited fields do.  Times are naturals: the code     *)
(* compares fixed-length time strings with strncmp, which orders them as  *)
(* numbers.                                                                *)
(***************************************************************************)
EXTENDS Naturals, Sequences, FiniteSets, SequencesExt

\* No metadata: the metadata field of a value-level ADD/DELETE modification.
NoMeta == [none |-> TRUE]

\* The epoch <version, originating-server> of attribute metadata or of a
\* value item, and the order the attribute resolver uses on it.
Epoch(m) == <<m.ver, m.orig>>
EpochGreater(e1, e2) ==
    \/ e1[1] > e2[1]
    \/ e1[1] = e2[1] /\ e1[2] > e2[2]

\* Mutant: the epoch gate dropped, a value item of an older attribute epoch
\* is resolved like a current one.
AttrValueMetaResolveNoEpoch(st, item) ==
    ~\E m \in st.vmeta : /\ m.attr = item.attr
                        /\ m.val = item.val
                        /\ m.time > item.time

(***************************************************************************)
(* _VmDirAttrValueMetaResolve: the supplier item is in scope iff its      *)
(* <version>:<orig-server> equals the local attribute metadata and no     *)
(* stored value metadata of the same attribute and the same value has a   *)
(* strictly later value-change time.                                       *)
(***************************************************************************)
AttrValueMetaResolve(st, item) ==
    /\ Epoch(item) = Epoch(st.meta[item.attr])
    /\ ~\E m \in st.vmeta : /\ m.attr = item.attr
                            /\ m.val = item.val
                            /\ m.time > item.time

\* The modification list of _VmSetupValueMetaData: a winning value is merged
\* into an existing modification on the same attribute with the same
\* operation, or appended at the tail of the list.
MergeValueMod(mods, attr, op, val) ==
    LET same == {k \in 1..Len(mods) : mods[k].attr = attr /\ mods[k].op = op}
    IN  IF same = {}
        THEN Append(mods, [op |-> op, attr |-> attr, vals |-> {val},
                           meta |-> NoMeta])
        ELSE LET k == CHOOSE k \in same : TRUE
             IN  [mods EXCEPT ![k].vals = @ \cup {val}]

\* Mutant: the winning item is stored with the supplier's local-usn instead
\* of the consumer's write-queue usn.
SetupValueMetaDataKeepUsn(st, items, localUsn) ==
    LET Step(acc, item) ==
          IF AttrValueMetaResolve([st EXCEPT !.vmeta = acc.vmeta], item)
          THEN [vmeta |-> acc.vmeta \cup {item},
                mods  |-> MergeValueMod(acc.mods, item.attr, item.op, item.val)]
          ELSE acc
    IN  FoldLeft(Step, [vmeta |-> st.vmeta, mods |-> <<>>], items)

(***************************************************************************)
(* _VmSetupValueMetaData: drop every pending modification, then for each  *)
(* item in order resolve it against the store as updated by the items     *)
(* before it (the backend reads see this transaction's writes); a winner  *)
(* is written to the value-metadata index with its local-usn replaced by  *)
(* localUsn and adds a value modification.  Result: [vmeta, mods].        *)
(***************************************************************************)
SetupValueMetaData(st, items, localUsn) ==
    LET Step(acc, item) ==
          IF AttrValueMetaResolve([st EXCEPT !.vmeta = acc.vmeta], item)
          THEN [vmeta |-> acc.vmeta \cup {[item EXCEPT !.usn = localUsn]},
                mods  |-> MergeValueMod(acc.mods, item.attr, item.op, item.val)]
          ELSE acc
    IN  FoldLeft(Step, [vmeta |-> st.vmeta, mods |-> <<>>], items)

(***************************************************************************)
(* _VmDeleteOldValueMetaData: every REPLACE modification of a multi-      *)
(* valued attribute purges that attribute's stored value metadata.        *)
(***************************************************************************)
DeleteOldValueMetaData(st, mods, MultiValued) ==
    LET purged == {mods[k].attr : k \in {i \in 1..Len(mods) :
                                            mods[i].op = "replace"}}
                  \cap MultiValued
    IN  [st EXCEPT !.vmeta = {m \in @ : m.attr \notin purged}]

(***************************************************************************)
(* VmDirInternalModifyEntry (not under src/, modelled from the spec): the *)
(* modifications are applied in list order.  REPLACE sets the values and  *)
(* the metadata; an attribute-level DELETE (metadata, no values) removes  *)
(* the values and keeps the metadata; value-level ADD and DELETE add and  *)
(* remove single values and leave the metadata alone.                     *)
(***************************************************************************)
ApplyMod(st, m) ==
    CASE m.op = "replace" ->
            [st EXCEPT !.vals[m.attr] = m.vals, !.meta[m.attr] = m.meta]
      [] m.op = "del" /\ m.meta # NoMeta ->
            [st EXCEPT !.vals[m.attr] = {}, !.meta[m.attr] = m.meta]
      [] m.op = "del" ->
            [st EXCEPT !.vals[m.attr] = @ \ m.vals]
      [] m.op = "add" ->
            [st EXCEPT !.vals[m.attr] = @ \cup m.vals]

InternalModifyEntry(st, mods) == FoldLeft(ApplyMod, st, mods)

(***************************************************************************)
(* VmDirReplSetAttrNewMetaData (not under src/, modelled from the spec    *)
(* section 4.3): a supplier attribute wins iff its epoch is greater than  *)
(* the local one, version first, originating server second.               *)
(***************************************************************************)
AttrWins(st, it) == EpochGreater(Epoch(it), Epoch(st.meta[it.attr]))

(***************************************************************************)
(* SetupReplModifyRequest: a REPLACE for every winning attribute that     *)
(* carries values, an attribute-level DELETE for every winning attribute  *)
(* that carries only metadata (its local-usn set to the queue slot's      *)
(* usn), losers skipped.  The modifications are pushed at the head of the *)
(* request's list, in front of whatever the list already holds.           *)
(***************************************************************************)
SetupReplModifyRequest(st, attrItems, localUsn, mods) ==
    LET Mod(it) == [op   |-> IF it.vals = {} THEN "del" ELSE "replace",
                    attr |-> it.attr,
                    vals |-> it.vals,
                    meta |-> [ver |-> it.ver, orig |-> it.orig, usn |-> localUsn]]
    IN  SetToSeq({Mod(it) : it \in {i \in attrItems : AttrWins(st, i)}}) \o mods

=============================================================================
