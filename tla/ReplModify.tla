----------------------------- MODULE ReplModify -----------------------------
(***************************************************************************)
(* ReplModifyEntry (src/vmdir/server/replication2/replentry.c) run by     *)
(* concurrent replication worker threads of one replica, next to other    *)
(* local writers that share the write queue.  Each worker applies one     *)
(* change record to one entry: schema-mod mutex, write-queue slot, the    *)
(* transaction retry loop (txnretry) with its deadlock ceiling, the       *)
(* attribute pass, the value-metadata pass, commit and cleanup.  Every    *)
(* backend call that the code lets fail may report a deadlock; where the  *)
(* code retries it the model retries, where it bails the model bails.    *)
(* Replication threads applying a delete of the same entry run            *)
(* ReplDeleteEntry next to them: no mutex, no retry loop, the modify      *)
(* request built before VmDirInternalDeleteEntry opens its transaction.   *)
(***************************************************************************)
EXTENDS Naturals, Sequences, FiniteSets, Functions, ValueMeta

CONSTANTS
    Workers,        \* replication worker threads, one change record each
    Writers,        \* other local writers (LDAP operations) using the write queue
    Deleters,       \* replication threads applying a delete record
    Recs,           \* change records [tombstone, attrs, vm] a worker may apply
    DelRecs,        \* delete records [attrs]: the tombstone's attributes
    Adders,         \* replication threads applying an add record
    AddRecs,        \* add records [attrs, vm] for the entry's DN
    SchemaEntry,    \* whether the entry's DN ends with the schema naming context
    InitPresent,    \* whether the entry exists before any thread runs
    InitStore,      \* the entry as stored before any worker runs
    MultiValued,    \* the multi-valued attributes (pATDesc->bSingleValue false)
    MAX_DEADLOCK_RETRIES,
    NoOne,          \* mutex holder when free
    NoTxn           \* txn[w] when the worker holds no backend transaction

ASSUME MAX_DEADLOCK_RETRIES \in Nat \ {0}
ASSUME Workers \cap Writers = {} /\ Deleters \cap (Workers \cup Writers) = {}
ASSUME Adders \cap (Workers \cup Writers \cup Deleters) = {}
ASSUME InitPresent \subseteq BOOLEAN /\ SchemaEntry \in BOOLEAN

VARIABLES
    rec,        \* rec[w]: the change record worker w applies
    drec,       \* drec[d]: the delete record deleter d applies
    arec,       \* arec[a]: the add record adder a applies
    aentry,     \* aentry[a]: the entry adder a built for VmDirInternalAddEntry
    present,    \* an entry exists under the DN
    store,      \* the committed entry
    txn,        \* txn[w]: the entry as seen inside w's open write transaction
    pc,         \* pc[w]: where thread w is in its handler
    retries,    \* deadLockRetries
    mods,       \* mr->mods: the pending modification list of worker w
    attached,   \* attrValueMetaData still on the decoded entry e
    pAVM,       \* pAttrAttrValueMetaData != NULL
    result,     \* retVal at return
    slot,       \* usn of the thread's write-queue element (0 before push)
    mutex,      \* schema modification mutex holder
    queue,      \* write queue: threads in push order
    nextUsn,    \* next usn the write queue hands out
    lastCommit  \* usn of the last committed write transaction

vars == <<rec, drec, arec, aentry, present, store, txn, pc, retries, mods, attached, pAVM, result, slot,
          mutex, queue, nextUsn, lastCommit>>

Threads == Workers \cup Writers \cup Deleters \cup Adders

Goto(w, l) == pc' = [pc EXCEPT ![w] = l]
Fail(w, r, l) ==
    /\ result' = [result EXCEPT ![w] = r]
    /\ Goto(w, l)

Init ==
    /\ rec \in [Workers -> Recs]
    /\ drec \in [Deleters -> DelRecs]
    /\ arec \in [Adders -> AddRecs]
    /\ aentry = [a \in Adders |-> NoTxn]
    /\ present \in InitPresent
    /\ store = InitStore
    /\ txn = [w \in Threads |-> NoTxn]
    /\ pc = [w \in Threads |-> CASE w \in Deleters -> "dstart"
                                  [] w \in Adders   -> "astart"
                                  [] OTHER          -> "start"]
    /\ retries = [w \in Workers |-> 0]
    /\ mods = [w \in Workers \cup Deleters |-> <<>>]
    /\ attached = [w \in Workers |-> Len(rec[w].vm) > 0]
    /\ pAVM = [w \in Workers |-> FALSE]
    /\ result = [w \in Threads |-> "none"]
    /\ slot = [w \in Threads |-> 0]
    /\ mutex = NoOne
    /\ queue = <<>>
    /\ nextUsn = 1
    /\ lastCommit = 0

-----------------------------------------------------------------------------
(* The replication worker: ReplModifyEntry.                                *)

\* Decode (or re-decode for retry), refuse a change to a tombstone entry
\* before any lock is taken, fix up the DN.
Start(w) ==
    /\ pc[w] = "start"
    /\ IF rec[w].tombstone
       THEN Fail(w, "error", "cleanup")
       ELSE /\ Goto(w, "lock")
            /\ UNCHANGED result
    /\ UNCHANGED <<rec, drec, arec, aentry, present, store, txn, retries, mods, attached, pAVM, slot,
                   mutex, queue, nextUsn, lastCommit>>

\* Strict locking order: the schema modification mutex before the backend
\* write transaction.
SchemaModMutexAcquire(w) ==
    /\ pc[w] = "lock"
    /\ mutex = NoOne
    /\ mutex' = w
    /\ Goto(w, "push")
    /\ UNCHANGED <<rec, drec, arec, aentry, present, store, txn, retries, mods, attached, pAVM, result, slot,
                   queue, nextUsn, lastCommit>>

\* VmDirWriteQueuePush: allocate the usn and enqueue; a failure bails.
WriteQueuePush(w) ==
    /\ pc[w] = "push"
    /\ \/ /\ queue' = Append(queue, w)
          /\ slot' = [slot EXCEPT ![w] = nextUsn]
          /\ nextUsn' = nextUsn + 1
          /\ Goto(w, "wait")
          /\ UNCHANGED result
       \/ /\ Fail(w, "error", "error")
          /\ UNCHANGED <<queue, slot, nextUsn>>
    /\ UNCHANGED <<rec, drec, arec, aentry, present, store, txn, retries, mods, attached, pAVM, mutex, lastCommit>>

\* Mutant: the wait returns without the element being at the head.
WriteQueueWaitNoHead(w) ==
    /\ pc[w] = "wait"
    /\ Goto(w, "txnretry")
    /\ UNCHANGED <<rec, drec, arec, aentry, present, store, txn, retries, mods, attached, pAVM, result, slot,
                   mutex, queue, nextUsn, lastCommit>>

\* VmDirWriteQueueWait: block until the element is at the head of the queue.
WriteQueueWait(w) ==
    /\ pc[w] = "wait"
    /\ queue # <<>> /\ Head(queue) = w
    /\ Goto(w, "txnretry")
    /\ UNCHANGED <<rec, drec, arec, aentry, present, store, txn, retries, mods, attached, pAVM, result, slot,
                   mutex, queue, nextUsn, lastCommit>>

\* Mutant: deadLockRetries is not incremented.
TxnRetryNoCount(w) ==
    /\ pc[w] = "txnretry"
    /\ txn' = [txn EXCEPT ![w] = store]
    /\ Goto(w, "dntoid")
    /\ UNCHANGED <<rec, drec, arec, aentry, present, store, retries, mods, attached, pAVM, result, slot,
                   mutex, queue, nextUsn, lastCommit>>

\* Mutant: the ceiling test is off by one (>= MAX_DEADLOCK_RETRIES + 2).
TxnRetryOffByOne(w) ==
    /\ pc[w] = "txnretry"
    /\ retries' = [retries EXCEPT ![w] = @ + 1]
    /\ IF retries[w] + 1 > MAX_DEADLOCK_RETRIES + 1
       THEN /\ txn' = [txn EXCEPT ![w] = NoTxn]
            /\ Fail(w, "deadlock", "error")
       ELSE /\ txn' = [txn EXCEPT ![w] = store]
            /\ Goto(w, "dntoid")
            /\ UNCHANGED result
    /\ UNCHANGED <<rec, drec, arec, aentry, present, store, mods, attached, pAVM, slot, mutex, queue, nextUsn,
                   lastCommit>>

\* txnretry: abort an open transaction, count the attempt, give up past the
\* ceiling, begin a write transaction (a failure to begin bails).
TxnRetry(w) ==
    /\ pc[w] = "txnretry"
    /\ retries' = [retries EXCEPT ![w] = @ + 1]
    /\ IF retries[w] + 1 > MAX_DEADLOCK_RETRIES
       THEN /\ txn' = [txn EXCEPT ![w] = NoTxn]
            /\ Fail(w, "deadlock", "error")
       ELSE \/ /\ txn' = [txn EXCEPT ![w] = store]
               /\ Goto(w, "dntoid")
               /\ UNCHANGED result
            \/ /\ txn' = [txn EXCEPT ![w] = NoTxn]
               /\ Fail(w, "error", "error")
    /\ UNCHANGED <<rec, drec, arec, aentry, present, store, mods, attached, pAVM, slot, mutex, queue, nextUsn,
                   lastCommit>>

\* pfnBEDNToEntryId: a deadlock goes back to txnretry, entry-not-found and
\* other errors bail.
DNToEntryId(w) ==
    /\ pc[w] = "dntoid"
    /\ \/ present /\ Goto(w, "setup") /\ UNCHANGED result
       \/ Goto(w, "txnretry") /\ UNCHANGED result
       \/ Fail(w, "error", "error")
    /\ UNCHANGED <<rec, drec, arec, aentry, present, store, txn, retries, mods, attached, pAVM, slot,
                   mutex, queue, nextUsn, lastCommit>>

\* _VmDirDetatchValueMetaData: *pp is set to NULL, then the attribute is
\* unlinked from the entry if it is still there.
DetatchValueMetaData(w) ==
    /\ pAVM' = [pAVM EXCEPT ![w] = attached[w]]
    /\ attached' = [attached EXCEPT ![w] = FALSE]

\* Detach, then SetupReplModifyRequest; a deadlock in its metadata resolver
\* (before any modification is built) goes back to txnretry, other errors
\* (no such object) bail.
Setup(w) ==
    /\ pc[w] = "setup"
    /\ DetatchValueMetaData(w)
    /\ \/ /\ mods' = [mods EXCEPT ![w] =
                 SetupReplModifyRequest(txn[w], rec[w].attrs, slot[w], @)]
          /\ Goto(w, "mod1")
          /\ UNCHANGED result
       \/ /\ Goto(w, "txnretry")
          /\ UNCHANGED <<mods, result>>
       \/ /\ Fail(w, "error", "error")
          /\ UNCHANGED mods
    /\ UNCHANGED <<rec, drec, arec, aentry, present, store, txn, retries, slot, mutex, queue, nextUsn,
                   lastCommit>>

\* If mods are left: _VmDeleteOldValueMetaData (an error bails) and
\* VmDirInternalModifyEntry (a deadlock retries, other errors bail).
ModifyAttrs(w) ==
    /\ pc[w] = "mod1"
    /\ IF mods[w] = <<>>
       THEN Goto(w, "vmsetup") /\ UNCHANGED <<txn, result>>
       ELSE LET purged == DeleteOldValueMetaData(txn[w], mods[w], MultiValued)
            IN  \/ /\ txn' = [txn EXCEPT ![w] = InternalModifyEntry(purged, mods[w])]
                   /\ Goto(w, "vmsetup")
                   /\ UNCHANGED result
                \/ Fail(w, "deadlock", "error") /\ UNCHANGED txn
                \/ Goto(w, "txnretry") /\ UNCHANGED <<txn, result>>
                \/ Fail(w, "error", "error") /\ UNCHANGED txn
    /\ UNCHANGED <<rec, drec, arec, aentry, present, store, retries, mods, attached, pAVM, slot, mutex, queue,
                   nextUsn, lastCommit>>

\* If pAttrAttrValueMetaData: _VmSetupValueMetaData; any error of its
\* backend reads and writes, a deadlock included, bails.
ValueMetaPass(w) ==
    /\ pc[w] = "vmsetup"
    /\ IF ~pAVM[w]
       THEN Goto(w, "commit") /\ UNCHANGED <<txn, mods, result>>
       ELSE LET vm == SetupValueMetaData(txn[w], rec[w].vm, slot[w])
            IN  \/ /\ txn' = [txn EXCEPT ![w].vmeta = vm.vmeta]
                   /\ mods' = [mods EXCEPT ![w] = vm.mods]
                   /\ Goto(w, "mod2")
                   /\ UNCHANGED result
                \/ Fail(w, "deadlock", "error") /\ UNCHANGED <<txn, mods>>
    /\ UNCHANGED <<rec, drec, arec, aentry, present, store, retries, attached, pAVM, slot, mutex, queue, nextUsn,
                   lastCommit>>

\* If value modifications are left: VmDirInternalModifyEntry again; a
\* deadlock retries, other errors bail.
ModifyValues(w) ==
    /\ pc[w] = "mod2"
    /\ IF mods[w] = <<>>
       THEN Goto(w, "commit") /\ UNCHANGED <<txn, result>>
       ELSE \/ /\ txn' = [txn EXCEPT ![w] = InternalModifyEntry(@, mods[w])]
               /\ Goto(w, "commit")
               /\ UNCHANGED result
            \/ Goto(w, "txnretry") /\ UNCHANGED <<txn, result>>
            \/ Fail(w, "error", "error") /\ UNCHANGED txn
    /\ UNCHANGED <<rec, drec, arec, aentry, present, store, retries, mods, attached, pAVM, slot, mutex, queue,
                   nextUsn, lastCommit>>

\* pfnBETxnCommit; a failure bails with the transaction still recorded open.
TxnCommit(w) ==
    /\ pc[w] = "commit"
    /\ \/ /\ store' = txn[w]
          /\ txn' = [txn EXCEPT ![w] = NoTxn]
          /\ lastCommit' = slot[w]
          /\ Fail(w, "success", "schema")
       \/ /\ Fail(w, "error", "error")
          /\ UNCHANGED <<rec, drec, arec, aentry, present, store, txn, lastCommit>>
    /\ UNCHANGED <<rec, drec, arec, aentry, present, retries, mods, attached, pAVM, slot, mutex, queue, nextUsn>>

\* After the loop: an entry whose DN ends with the schema naming context
\* refreshes the replication schema context; VmDirSchemaCtxAcquire failing
\* bails with an error, after the commit.
WorkerSchemaRefresh(w) ==
    /\ pc[w] = "schema"
    /\ \/ Goto(w, "cleanup") /\ UNCHANGED result
       \/ SchemaEntry /\ Fail(w, "error", "error")
    /\ UNCHANGED <<rec, drec, arec, aentry, present, store, txn, retries, mods, attached, pAVM, slot, mutex,
                   queue, nextUsn, lastCommit>>

\* error: abort the transaction if one is open, then cleanup.
ErrorExit(w) ==
    /\ pc[w] = "error"
    /\ txn' = [txn EXCEPT ![w] = NoTxn]
    /\ Goto(w, "cleanup")
    /\ UNCHANGED <<rec, drec, arec, aentry, present, store, retries, mods, attached, pAVM, result, slot, mutex,
                   queue, nextUsn, lastCommit>>

\* Mutant: the cleanup does not pop the write-queue element.
CleanupNoPop(w) ==
    /\ pc[w] = "cleanup"
    /\ mutex' = IF mutex = w THEN NoOne ELSE mutex
    /\ Goto(w, "done")
    /\ UNCHANGED <<rec, drec, arec, aentry, present, store, txn, retries, mods, attached, pAVM, result, slot,
                   queue, nextUsn, lastCommit>>

\* cleanup: VmDirWriteQueuePop, then release the schema modification mutex;
\* both are run on every path, pushed or locked or not.
Cleanup(w) ==
    /\ pc[w] = "cleanup"
    /\ queue' = SelectSeq(queue, LAMBDA t : t # w)
    /\ mutex' = IF mutex = w THEN NoOne ELSE mutex
    /\ Goto(w, "done")
    /\ UNCHANGED <<rec, drec, arec, aentry, present, store, txn, retries, mods, attached, pAVM, result, slot,
                   nextUsn, lastCommit>>

ReplModifyEntry(w) ==
    \/ Start(w) \/ SchemaModMutexAcquire(w) \/ WriteQueuePush(w)
    \/ WriteQueueWait(w) \/ TxnRetry(w) \/ DNToEntryId(w) \/ Setup(w)
    \/ ModifyAttrs(w) \/ ValueMetaPass(w) \/ ModifyValues(w) \/ TxnCommit(w)
    \/ WorkerSchemaRefresh(w) \/ ErrorExit(w) \/ Cleanup(w)

-----------------------------------------------------------------------------
(* Another local writer (not under src/, from the spec, section 6): push, *)
(* wait for the head, one write transaction on another entry, pop.        *)

WriterPush(o) ==
    /\ pc[o] = "start"
    /\ queue' = Append(queue, o)
    /\ slot' = [slot EXCEPT ![o] = nextUsn]
    /\ nextUsn' = nextUsn + 1
    /\ Goto(o, "wait")
    /\ UNCHANGED <<rec, drec, arec, aentry, present, store, txn, retries, mods, attached, pAVM, result, mutex,
                   lastCommit>>

WriterCommit(o) ==
    /\ pc[o] = "wait"
    /\ queue # <<>> /\ Head(queue) = o
    /\ lastCommit' = slot[o]
    /\ queue' = Tail(queue)
    /\ Fail(o, "success", "done")
    /\ UNCHANGED <<rec, drec, arec, aentry, present, store, txn, retries, mods, attached, pAVM, slot, mutex,
                   nextUsn>>

LocalWriter(o) == WriterPush(o) \/ WriterCommit(o)

-----------------------------------------------------------------------------
(* The replication thread of a delete: ReplDeleteEntry.                    *)

\* Two VmDirInitStackOperation, parse (or re-decode for retry), the schema
\* check, ReplFixUpEntryDn (one entry: the guid finds it under the same
\* DN, or the internal search fails), the dup of the target DN; any error
\* bails to cleanup.
DeleteStart(d) ==
    /\ pc[d] = "dstart"
    /\ \/ Goto(d, "dpush") /\ UNCHANGED result
       \/ Fail(d, "error", "dcleanup")
    /\ UNCHANGED <<rec, drec, arec, aentry, present, store, txn, retries, mods, attached, pAVM, slot,
                   mutex, queue, nextUsn, lastCommit>>

\* VmDirWriteQueuePush: allocate the usn and enqueue; a failure bails.  No
\* schema-mod mutex is taken on this path.
DeleteQueuePush(d) ==
    /\ pc[d] = "dpush"
    /\ \/ /\ queue' = Append(queue, d)
          /\ slot' = [slot EXCEPT ![d] = nextUsn]
          /\ nextUsn' = nextUsn + 1
          /\ Goto(d, "dsetup")
          /\ UNCHANGED result
       \/ /\ Fail(d, "error", "dcleanup")
          /\ UNCHANGED <<queue, slot, nextUsn>>
    /\ UNCHANGED <<rec, drec, arec, aentry, present, store, txn, retries, mods, attached, pAVM, mutex,
                   lastCommit>>

\* SetupReplModifyRequest on the delete operation, before any transaction
\* and before the queue element reaches the head: the attribute resolver
\* reads the committed entry.  An error (a deadlock included) bails.
DeleteSetup(d) ==
    /\ pc[d] = "dsetup"
    /\ \/ /\ mods' = [mods EXCEPT ![d] =
                 SetupReplModifyRequest(store, drec[d].attrs, slot[d], <<>>)]
          /\ Goto(d, "ddelete")
          /\ UNCHANGED result
       \/ /\ Fail(d, "error", "dcleanup")
          /\ UNCHANGED mods
    /\ UNCHANGED <<rec, drec, arec, aentry, present, store, txn, retries, attached, pAVM, slot, mutex,
                   queue, nextUsn, lastCommit>>

(***************************************************************************)
(* VmDirInternalDeleteEntry (not under src/; from the spec, sections 4.6  *)
(* and 6): wait for the queue element to reach the head, then one write   *)
(* transaction applies the request's modifications and commits.  Object   *)
(* missing, non-leaf, no such attribute, a deadlock or any other error    *)
(* commits nothing and ReplDeleteEntry bails with it.                     *)
(***************************************************************************)
InternalDeleteEntry(d) ==
    /\ pc[d] = "ddelete"
    /\ queue # <<>> /\ Head(queue) = d
    /\ \/ /\ present
          /\ store' = InternalModifyEntry(store, mods[d])
          /\ lastCommit' = slot[d]
          /\ Fail(d, "success", "dcleanup")
       \/ /\ Fail(d, "error", "dcleanup")
          /\ UNCHANGED <<store, lastCommit>>
    /\ UNCHANGED <<rec, drec, arec, aentry, present, txn, retries, mods, attached, pAVM, slot, mutex,
                   queue, nextUsn>>

\* cleanup: VmDirFreeModifyRequest and VmDirFreeOperationContent; the
\* element is popped there (not under src/; the spec's pop(slot)), as no
\* line of ReplDeleteEntry pops it.
DeleteCleanup(d) ==
    /\ pc[d] = "dcleanup"
    /\ queue' = SelectSeq(queue, LAMBDA t : t # d)
    /\ Goto(d, "done")
    /\ UNCHANGED <<rec, drec, arec, aentry, present, store, txn, retries, mods, attached, pAVM, result,
                   slot, mutex, nextUsn, lastCommit>>

ReplDeleteEntry(d) ==
    \/ DeleteStart(d) \/ DeleteQueuePush(d) \/ DeleteSetup(d)
    \/ InternalDeleteEntry(d) \/ DeleteCleanup(d)

-----------------------------------------------------------------------------
(* The replication thread of an add: ReplAddEntry.                         *)

AU == <<rec, drec, arec, txn, retries, mods, attached, pAVM, mutex>>

\* VmDirInitStackOperation, parse and schema check (or re-decode for
\* retry); any error bails to cleanup.  Then VmDirWriteQueuePush: a
\* failure bails with LDAP_OPERATIONS_ERROR.  No schema-mod mutex.
AddStart(a) ==
    /\ pc[a] = "astart"
    /\ \/ /\ queue' = Append(queue, a)
          /\ slot' = [slot EXCEPT ![a] = nextUsn]
          /\ nextUsn' = nextUsn + 1
          /\ Goto(a, "asetup")
          /\ UNCHANGED result
       \/ /\ Fail(a, "error", "acleanup")
          /\ UNCHANGED <<queue, slot, nextUsn>>
    /\ UNCHANGED <<AU, aentry, present, store, lastCommit>>

\* Mutant: the items are attached with the supplier's local usn kept.
AttachValueMetaDataKeepUsn(items, attrs, localUsn) ==
    {j \in Range(items) : j.attr \in attrs}

\* _VmDirAttachValueMetaData: each value-metadata item whose attribute is
\* on the entry is queued on it with its local usn rewritten to localUsn;
\* an item of an attribute the entry lacks is skipped.
AttachValueMetaData(items, attrs, localUsn) ==
    {[i EXCEPT !.usn = localUsn] : i \in {j \in Range(items) : j.attr \in attrs}}

\* The entry VmDirInternalAddEntry stores: every attribute of the record,
\* those the supplier deleted with no values, with its metadata under the
\* local usn (VmDirReplSetAttrNewMetaData, VmDirMetaDataSetLocalUsn) and
\* the attached value metadata.
AddedEntry(r, localUsn) ==
    LET A == {it.attr : it \in r.attrs}
        It(x) == CHOOSE it \in r.attrs : it.attr = x
    IN  [vals  |-> [x \in A |-> It(x).vals],
         meta  |-> [x \in A |-> [ver |-> It(x).ver, orig |-> It(x).orig,
                                 usn |-> localUsn]],
         vmeta |-> AttachValueMetaData(r.vm, A, localUsn)]

\* Before the queue element reaches the head and outside any transaction:
\* detach the value metadata, resolve the attribute metadata (no entry is
\* read: an existing one makes the add fail below), add the deleted
\* attributes, attach the value metadata, _VmDirPatchData.  An invalid
\* value-metadata item or any other error bails.
AddSetup(a) ==
    /\ pc[a] = "asetup"
    /\ \/ /\ aentry' = [aentry EXCEPT ![a] = AddedEntry(arec[a], slot[a])]
          /\ Goto(a, "aadd")
          /\ UNCHANGED result
       \/ /\ Fail(a, "error", "acleanup")
          /\ UNCHANGED aentry
    /\ UNCHANGED <<AU, present, store, slot, queue, nextUsn, lastCommit>>

(***************************************************************************)
(* VmDirInternalAddEntry (not under src/; from the spec, sections 4.6 and *)
(* 6): wait for the queue element to reach the head, then one write       *)
(* transaction stores the entry and commits.  An entry already under the  *)
(* DN fails with LDAP_ALREADY_EXISTS; a missing parent, a deadlock or any *)
(* other error commits nothing either, and ReplAddEntry bails with it.    *)
(***************************************************************************)
InternalAddEntry(a) ==
    /\ pc[a] = "aadd"
    /\ queue # <<>> /\ Head(queue) = a
    /\ \/ /\ ~present
          /\ store' = aentry[a]
          /\ present' = TRUE
          /\ lastCommit' = slot[a]
          /\ Fail(a, "success", "aschema")
       \/ /\ Fail(a, "error", "acleanup")
          /\ UNCHANGED <<store, present, lastCommit>>
    /\ UNCHANGED <<AU, aentry, slot, queue, nextUsn>>

\* An entry under the schema naming context refreshes the replication
\* schema context; VmDirSchemaCtxAcquire failing bails with an error,
\* after the add committed.
SchemaRefresh(a) ==
    /\ pc[a] = "aschema"
    /\ \/ Goto(a, "acleanup") /\ UNCHANGED result
       \/ SchemaEntry /\ Fail(a, "error", "acleanup")
    /\ UNCHANGED <<AU, aentry, present, store, slot, queue, nextUsn, lastCommit>>

\* cleanup: free the metadata map and the attributes, then
\* VmDirFreeOperationContent, where the element is popped (not under src/;
\* the spec's pop(slot)).
AddCleanup(a) ==
    /\ pc[a] = "acleanup"
    /\ queue' = SelectSeq(queue, LAMBDA t : t # a)
    /\ Goto(a, "done")
    /\ UNCHANGED <<AU, aentry, present, store, result, slot, nextUsn, lastCommit>>

ReplAddEntry(a) ==
    \/ AddStart(a) \/ AddSetup(a) \/ InternalAddEntry(a) \/ SchemaRefresh(a)
    \/ AddCleanup(a)

-----------------------------------------------------------------------------
\* Every thread has returned.
Finished ==
    /\ \A t \in Threads : pc[t] = "done"
    /\ UNCHANGED vars

Next ==
    \/ \E w \in Workers : ReplModifyEntry(w)
    \/ \E o \in Writers : LocalWriter(o)
    \/ \E d \in Deleters : ReplDeleteEntry(d)
    \/ \E a \in Adders : ReplAddEntry(a)
    \/ Finished

\* Threads are scheduled and backend calls return: each thread that can
\* take its next step eventually does.
Fairness ==
    /\ \A w \in Workers : WF_vars(ReplModifyEntry(w))
    /\ \A o \in Writers : WF_vars(LocalWriter(o))
    /\ \A d \in Deleters : WF_vars(ReplDeleteEntry(d))
    /\ \A a \in Adders : WF_vars(ReplAddEntry(a))

Spec == Init /\ [][Next]_vars /\ Fairness

-----------------------------------------------------------------------------
Labels == {"start", "lock", "push", "wait", "txnretry", "dntoid", "setup",
           "mod1", "vmsetup", "mod2", "commit", "schema", "error", "cleanup", "done",
           "dstart", "dpush", "dsetup", "ddelete", "dcleanup",
           "astart", "asetup", "aadd", "aschema", "acleanup"}

TypeOK ==
    /\ rec \in [Workers -> Recs]
    /\ pc \in [Threads -> Labels]
    /\ retries \in [Workers -> 0..MAX_DEADLOCK_RETRIES + 1]
    /\ attached \in [Workers -> BOOLEAN] /\ pAVM \in [Workers -> BOOLEAN]
    /\ result \in [Threads -> {"none", "success", "error", "deadlock"}]
    /\ mutex \in Workers \cup {NoOne}
    /\ queue \in Seq(Threads)
    /\ slot \in [Threads -> 0..Cardinality(Threads)]
    /\ lastCommit \in 0..Cardinality(Threads)
    /\ DOMAIN store.vals = DOMAIN InitStore.vals

\* The write queue serialises local writes: the transactions commit in the
\* order of the usns the queue handed out, whichever replication worker or
\* other writer gets scheduled first.
CommitInUsnOrder == [][lastCommit' # lastCommit => lastCommit' > lastCommit]_vars

\* The attribute resolver's promise over the committed entry: a commit
\* changes an attribute's metadata only to a greater epoch <version,
\* originating server>, so a replicated change never overwrites a newer one
\* another worker committed (spec sections 4.3 and 4.6: resolution runs
\* inside the transaction).  ReplDeleteEntry resolves before its
\* transaction, and a modify of the same entry may commit in between.
MetaOnlyAdvances ==
    [][present => \A a \in DOMAIN store.meta :
         store'.meta[a] # store.meta[a] =>
             EpochGreater(Epoch(store'.meta[a]), Epoch(store.meta[a]))]_vars

\* Partners pull this replica's changes by local usn, so whatever a commit
\* writes into the entry's attribute or value metadata carries the usn of
\* the committing transaction: the add's attached value metadata and
\* attribute metadata, the modify's resolved attributes and value items,
\* the delete's tombstone attributes.  The usn is taken from the queue
\* element long before the element reaches the head and commits.
ChangesCarryCommitUsn ==
    [][/\ \A a \in DOMAIN store'.meta :
           store'.meta[a] # store.meta[a] => store'.meta[a].usn = lastCommit'
       /\ \A i \in store'.vmeta \ store.vmeta : i.usn = lastCommit']_vars

\* A thread that has returned from ReplModifyEntry (on success, on a
\* refused tombstone, on a failed begin or commit, on an exhausted retry
\* budget) or from ReplDeleteEntry (on any of its exits) holds no schema-mod mutex, no write-queue element and no open
\* transaction.
ReleasedOnReturn ==
    \A t \in Threads :
        pc[t] = "done" =>
            /\ \A k \in 1..Len(queue) : queue[k] # t
            /\ mutex # t
            /\ txn[t] = NoTxn

\* Every thread returns: the retry loop is bounded by MAX_DEADLOCK_RETRIES
\* and the mutex and queue head are always passed on.
AllReturn == <>(\A t \in Threads : pc[t] = "done")

\* The entry committed by ReplModifyEntry when the transaction has to be
\* retried is the one a deadlock-free run of the same record produces from
\* the same committed entry (spec section 8, Idempotence of retry).
DeadlockFreeResult(st, w) ==
    LET m  == SetupReplModifyRequest(st, rec[w].attrs, slot[w], <<>>)
        s1 == InternalModifyEntry(DeleteOldValueMetaData(st, m, MultiValued), m)
        vm == SetupValueMetaData(s1, rec[w].vm, slot[w])
    IN  IF rec[w].vm = <<>> THEN s1
        ELSE InternalModifyEntry([s1 EXCEPT !.vmeta = vm.vmeta], vm.mods)

RetryIdempotent ==
    [][\A w \in Workers :
         (pc[w] = "commit" /\ result'[w] = "success") =>
             store' = DeadlockFreeResult(store, w)]_vars

\* Spec section 4.6: a deadlock reported by the backend forces a retry of
\* the whole transaction; ReplModifyEntry reports a deadlock only once the
\* retry budget is spent.
DeadlockAlwaysRetried ==
    \A w \in Workers : result[w] = "deadlock" => retries[w] > MAX_DEADLOCK_RETRIES

-----------------------------------------------------------------------------
(***************************************************************************)
(* Refinement: ReplModifyEntry implements ReplApply.  A worker's record   *)
(* counts as applied from the commit that returns success, as rejected    *)
(* from the step that sets any other result, and as reported failed after *)
(* being applied when the schema refresh bails; the last committed usn is *)
(* lastCommit.                                                            *)
(***************************************************************************)
StatusOf(w) ==
    CASE result[w] = "success" -> "applied"
      [] result[w] = "none"    -> "pending"
      [] OTHER                 -> "failed"

Apply == INSTANCE ReplApply WITH
    status  <- [w \in Workers |-> StatusOf(w)],
    lastUsn <- lastCommit,
    Usns    <- 1..Cardinality(Threads)

\* Seen from its caller, ReplModifyEntry applies each record atomically
\* with the deadlock-free effect or not at all, commits local usns in
\* increasing order across workers and other writers, and decides every
\* record, however workers, writers, deadlocks, retries and errors
\* interleave.
ApplySpec == Apply!ASpec

=============================================================================
