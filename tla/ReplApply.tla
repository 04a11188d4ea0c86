------------------------------ MODULE ReplApply ------------------------------
(***************************************************************************)
(* What ReplModifyEntry promises its caller, the replication session      *)
(* (spec sections 4.6 and 6): each change record is either applied to the *)
(* entry as one atomic step, with the effect the resolvers compute from    *)
(* the committed entry and the local usn the write queue handed out, or   *)
(* not applied at all; local usns are committed in increasing order; and  *)
(* every record is eventually decided.  A failure reported for an entry  *)
(* under the schema naming context does not mean it was not applied: the  *)
(* schema refresh after the commit may fail.  Other local writers only     *)
(* consume usns here.                                                      *)
(***************************************************************************)
EXTENDS Naturals, Sequences, ValueMeta

CONSTANTS
    Workers, Recs, InitStore, MultiValued,
    SchemaEntry, \* the entry's DN ends with the schema naming context
    Usns        \* the local usns the write queue may hand out

VARIABLES
    rec,        \* rec[w]: the record worker w is given
    store,      \* the committed entry
    status,     \* status[w]: "pending", "applied" or "failed"
    lastUsn     \* the usn of the last committed local write

avars == <<rec, store, status, lastUsn>>

(***************************************************************************)
(* The effect of record r applied as one transaction to entry st under     *)
(* local usn u: the attribute modifications, then the value-metadata pass *)
(* on the entry they produce.                                              *)
(***************************************************************************)
RecordEffect(st, r, u) ==
    LET m  == SetupReplModifyRequest(st, r.attrs, u, <<>>)
        s1 == InternalModifyEntry(DeleteOldValueMetaData(st, m, MultiValued), m)
        vm == SetupValueMetaData(s1, r.vm, u)
    IN  IF r.vm = <<>> THEN s1
        ELSE InternalModifyEntry([s1 EXCEPT !.vmeta = vm.vmeta], vm.mods)

AInit ==
    /\ rec \in [Workers -> Recs]
    /\ store = InitStore
    /\ status = [w \in Workers |-> "pending"]
    /\ lastUsn = 0

Apply(w) ==
    /\ status[w] = "pending"
    /\ \E u \in Usns :
          /\ u > lastUsn
          /\ store' = RecordEffect(store, rec[w], u)
          /\ lastUsn' = u
    /\ status' = [status EXCEPT ![w] = "applied"]
    /\ UNCHANGED rec

Reject(w) ==
    /\ status[w] = "pending"
    /\ status' = [status EXCEPT ![w] = "failed"]
    /\ UNCHANGED <<rec, store, lastUsn>>

\* The record was committed, and the refresh of the replication schema
\* context that follows for a schema entry fails: the caller is told the
\* record failed.
SchemaRefreshFails(w) ==
    /\ status[w] = "applied"
    /\ SchemaEntry
    /\ status' = [status EXCEPT ![w] = "failed"]
    /\ UNCHANGED <<rec, store, lastUsn>>

OtherWrite ==
    /\ \E u \in Usns : u > lastUsn /\ lastUsn' = u
    /\ UNCHANGED <<rec, store, status>>

ANext ==
    \/ \E w \in Workers : Apply(w) \/ Reject(w) \/ SchemaRefreshFails(w)
    \/ OtherWrite

ASpec ==
    /\ AInit /\ [][ANext]_avars
    /\ \A w \in Workers : WF_avars(Apply(w) \/ Reject(w))

=============================================================================
