-------------------------- MODULE ValueConvergence --------------------------
(***************************************************************************)
(* Replicas applying peer value-level changes (group-membership style     *)
(* add/delete of single values of a multi-valued attribute) through the   *)
(* value-metadata pass of ReplModifyEntry, in any order and any number of *)
(* times.  Each delivery is one change record carrying one value item and *)
(* no winning attribute-level item, applied deadlock-free: the            *)
(* transactional retry loop is the subject of the module ReplModify.      *)
(***************************************************************************)
EXTENDS Naturals, FiniteSets, ValueMeta

CONSTANTS
    Replicas,     \* replica ids (model values)
    Changes,      \* the value items originated by the servers
    InitStore,    \* the entry as every replica holds it initially
    MaxDelivery   \* bound on deliveries per replica (each takes a queue usn)

ASSUME MaxDelivery \in Nat /\ MaxDelivery >= Cardinality(Changes)

VARIABLES
    st,        \* st[r]: the entry stored at replica r
    applied,   \* applied[r]: the changes replica r has applied so far
    usn        \* usn[r]: the last local usn replica r has handed out

vars == <<st, applied, usn>>

Init ==
    /\ st = [r \in Replicas |-> InitStore]
    /\ applied = [r \in Replicas |-> {}]
    /\ usn = [r \in Replicas |-> 0]

(***************************************************************************)
(* ReplModifyEntry for a record whose only content is the value item c:   *)
(* the write queue hands out the next usn, the attribute pass produces no *)
(* modification, _VmSetupValueMetaData resolves the item and writes its   *)
(* value metadata, and the resulting value modifications are applied.    *)
(* A change may be delivered again (a replication cycle that failed after *)
(* applying it re-sends the page).                                        *)
(***************************************************************************)
ApplyValueChange(r, c) ==
    \* the delivery bound keeps room for every change not yet applied
    /\ usn[r] + Cardinality(Changes \ (applied[r] \cup {c})) < MaxDelivery
    /\ LET localUsn == usn[r] + 1
           vm       == SetupValueMetaData(st[r], <<c>>, localUsn)
           written  == [st[r] EXCEPT !.vmeta = vm.vmeta]
       IN  st' = [st EXCEPT ![r] = InternalModifyEntry(written, vm.mods)]
    /\ usn' = [usn EXCEPT ![r] = @ + 1]
    /\ applied' = [applied EXCEPT ![r] = @ \cup {c}]

\* All replicas have applied every change: nothing is left to do.
Done ==
    /\ \A r \in Replicas : applied[r] = Changes
    /\ UNCHANGED vars

Next ==
    \/ \E r \in Replicas, c \in Changes : ApplyValueChange(r, c)
    \/ Done

Spec == Init /\ [][Next]_vars

-----------------------------------------------------------------------------
TypeOK ==
    /\ \A r \in Replicas :
          /\ st[r].vmeta \subseteq InitStore.vmeta \cup
                 {[c EXCEPT !.usn = u] : c \in Changes, u \in 1..MaxDelivery}
          /\ DOMAIN st[r].vals = DOMAIN InitStore.vals
          /\ st[r].meta = InitStore.meta
    /\ applied \in [Replicas -> SUBSET Changes]
    /\ usn \in [Replicas -> 0..MaxDelivery]

(***************************************************************************)
(* The order-independent outcome the spec promises (section 8,            *)
(* Convergence): a value is present iff the latest event on it, among the *)
(* value metadata the replicas started with and the changes of the        *)
(* attribute's current epoch, is an ADD; a value without events keeps its *)
(* initial presence.                                                       *)
(***************************************************************************)
Events(a, v) ==
    {e \in InitStore.vmeta \cup Changes :
        /\ e.attr = a /\ e.val = v
        /\ Epoch(e) = Epoch(InitStore.meta[a])}

LastWriterValues(a) ==
    {v \in InitStore.vals[a] \cup
            {e.val : e \in {f \in InitStore.vmeta \cup Changes : f.attr = a}} :
        IF Events(a, v) = {}
        THEN v \in InitStore.vals[a]
        ELSE (CHOOSE e \in Events(a, v) :
                 \A f \in Events(a, v) : f.time <= e.time).op = "add"}

\* Every replica that has applied every change (in whatever order, however
\* often) holds exactly the last-writer values of every attribute, the
\* outcome of _VmDirAttrValueMetaResolve's epoch and timestamp gates.
LastWriterWins ==
    \A r \in Replicas :
        applied[r] = Changes =>
            \A a \in DOMAIN InitStore.vals : st[r].vals[a] = LastWriterValues(a)

\* Spec section 8, Convergence: two replicas that have applied the same set
\* of changes hold the same attribute values.
Convergence ==
    \A r1, r2 \in Replicas :
        (applied[r1] = Changes /\ applied[r2] = Changes) =>
            st[r1].vals = st[r2].vals

=============================================================================
