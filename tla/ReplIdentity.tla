---------------------------- MODULE ReplIdentity ----------------------------
(***************************************************************************)
(* Which local object a replicated change lands on.  ReplModifyEntry and  *)
(* ReplDeleteEntry (src/vmdir/server/replication2/replentry.c) first run   *)
(* ReplFixUpEntryDn: the record's objectGUID is searched for locally and, *)
(* if exactly one entry carries it, the decoded entry takes that entry's  *)
(* DN.  The request's target DN is set from there; the schema-mod mutex,  *)
(* the write queue and the transaction follow, and inside the transaction *)
(* the backend resolves the target DN to an entry.  ReplAddEntry adds     *)
(* under the record's DN with no fixup.  Meanwhile local LDAP clients     *)
(* rename, add and delete entries (not under src/; spec section 4.2: the  *)
(* local replica may have renamed the object since the peer's change was  *)
(* generated).                                                             *)
(*                                                                         *)
(* Abstractions: the directory is flat, a DN names at most one entry and  *)
(* an entry is its objectGUID; attributes, metadata, the queue and the    *)
(* retry loop are the subject of ReplModify and are left out, so the      *)
(* transaction of each replicated operation is one step.  DNs are model   *)
(* values: VmDirStringCompareA(.., FALSE) compares them without case, and *)
(* no two names here differ in case only.                                 *)
(***************************************************************************)
EXTENDS Naturals, FiniteSets, Functions

CONSTANTS
    DNs,          \* names of live entries
    TombDNs,      \* tombstone names (cn=...#guid,cn=Deleted Objects,...)
    Guids,        \* objectGUID values
    NoGuid,       \* a record without objectGUID (an older partner)
    None,         \* no entry under a name; no unique local name
    Modifiers,    \* replication threads applying a modify record
    Deleters,     \* replication threads applying a delete record
    Adders,       \* replication threads applying an add record
    Clients,      \* local LDAP clients, one operation each
    ModRecs,      \* modify records [dn, guid]
    DelRecs,      \* delete records [dn, guid, lastKnownDN]
    AddRecs,      \* add records [dn, guid]
    InitDir       \* the entries before any thread runs

ASSUME InitDir \in [DNs -> Guids \cup {None}] /\ DNs \cap TombDNs = {}

VARIABLES
    dir,        \* dir[n]: the objectGUID of the entry under DN n, or None
    rec,        \* rec[t]: the record replication thread t applies
    pc,         \* pc[t]: "start", "apply" or "done"
    target,     \* target[t]: mr->dn, the DN the request is sent to
    delObj,     \* delObj[t]: isDeleteObjReq of SetupReplModifyRequest
    local,      \* local[t]: the record's object's one local DN at the fixup, or None
    hit,        \* hit[t]: the objectGUID of the entry t's change landed on, or None
    result      \* result[t]

vars == <<dir, rec, pc, target, delObj, local, hit, result>>

Repl == Modifiers \cup Deleters \cup Adders

\* The entry under a DN; a tombstone name holds no live entry.
Lookup(d, n) == IF n \in DNs THEN d[n] ELSE None

\* VmDirSimpleEqualFilterInternalSearch on objectGUID over the whole tree:
\* the DNs of the entries that carry g.
Holders(d, g) == {n \in DNs : d[n] = g}

\* The local name the spec's identity resolver maps a record to (section
\* 4.2): the DN of the one local entry carrying its objectGUID.
LocalName(d, g) ==
    IF g # NoGuid /\ Cardinality(Holders(d, g)) = 1
    THEN CHOOSE n \in Holders(d, g) : TRUE
    ELSE None

(***************************************************************************)
(* ReplFixUpEntryDn: objectGUID is unlinked from the entry's attribute    *)
(* list.  No objectGUID (older partner), no match or several matches      *)
(* leave the DN as the partner sent it; one match under another DN        *)
(* replaces it by the local one.                                           *)
(***************************************************************************)
FixUpEntryDn(d, dn, g) ==
    IF g = NoGuid \/ Cardinality(Holders(d, g)) # 1
    THEN dn
    ELSE CHOOSE n \in Holders(d, g) : TRUE

(***************************************************************************)
(* SetupReplModifyRequest on a delete: isDeleted = TRUE among the winning *)
(* attributes makes it a delete-object request, whose target becomes the  *)
(* value of the lastKnownDN modification; otherwise the target stays.     *)
(***************************************************************************)
DeleteTarget(r, isDeleteObjReq) ==
    IF isDeleteObjReq THEN r.lastKnownDN ELSE r.dn

Init ==
    /\ dir = InitDir
    /\ rec \in {f \in [Repl -> ModRecs \cup DelRecs \cup AddRecs] :
                  /\ \A t \in Modifiers : f[t] \in ModRecs
                  /\ \A t \in Deleters : f[t] \in DelRecs
                  /\ \A t \in Adders : f[t] \in AddRecs}
    /\ pc = [t \in Repl \cup Clients |-> "start"]
    /\ target = [t \in Repl |-> None]
    /\ delObj = [t \in Deleters |-> FALSE]
    /\ local = [t \in Repl |-> None]
    /\ hit = [t \in Repl |-> None]
    /\ result = [t \in Repl \cup Clients |-> "none"]


Done(t, r) ==
    /\ pc' = [pc EXCEPT ![t] = "done"]
    /\ result' = [result EXCEPT ![t] = r]

-----------------------------------------------------------------------------
(* ReplModifyEntry.                                                        *)

\* Decode (or re-decode for retry), ReplFixUpEntryDn, whose internal
\* search may fail and bail, then mr->dn = e.dn; all before the schema-mod
\* mutex and the write queue.
ModifyFixUp(t) ==
    /\ pc[t] = "start"
    /\ local' = [local EXCEPT ![t] = LocalName(dir, rec[t].guid)]
    /\ \/ /\ target' = [target EXCEPT ![t] = FixUpEntryDn(dir, rec[t].dn, rec[t].guid)]
          /\ pc' = [pc EXCEPT ![t] = "apply"]
          /\ UNCHANGED result
       \/ Done(t, "error") /\ UNCHANGED target
    /\ UNCHANGED <<dir, rec, delObj, hit>>

\* Mutex, queue wait, then in the transaction pfnBEDNToEntryId on mr->dn:
\* no entry is ERROR_BACKEND_ENTRY_NOTFOUND and bails; the deadlock
\* ceiling or another backend error bails too.  Otherwise the
\* modifications land on the entry found and commit.
ModifyApply(t) ==
    /\ pc[t] = "apply"
    /\ \/ /\ Lookup(dir, target[t]) # None
          /\ hit' = [hit EXCEPT ![t] = Lookup(dir, target[t])]
          /\ Done(t, "success")
       \/ Lookup(dir, target[t]) = None /\ Done(t, "noSuchObject") /\ UNCHANGED hit
       \/ Done(t, "error") /\ UNCHANGED hit
    /\ UNCHANGED <<dir, rec, target, delObj, local>>

ReplModifyEntry(t) == ModifyFixUp(t) \/ ModifyApply(t)

-----------------------------------------------------------------------------
(* ReplDeleteEntry.                                                        *)

\* Decode (or re-decode for retry), ReplFixUpEntryDn on the decoded entry
\* (its search may fail and bail), mr->dn = tmpAddOp.reqDn, the record's
\* own DN, VmDirWriteQueuePush, then SetupReplModifyRequest: the
\* attribute resolver decides whether isDeleted = TRUE wins (read from the
\* local entry, not modelled here: either outcome), and a delete-object
\* request is retargeted to lastKnownDN.  The fixed-up DN of the decoded
\* entry only names the local entry whose metadata the resolver reads.
DeleteFixUp(t) ==
    /\ pc[t] = "start"
    /\ local' = [local EXCEPT ![t] = LocalName(dir, rec[t].guid)]
    /\ \/ \E isDeleteObjReq \in BOOLEAN :
            /\ delObj' = [delObj EXCEPT ![t] = isDeleteObjReq]
            /\ target' = [target EXCEPT ![t] = DeleteTarget(rec[t], isDeleteObjReq)]
            /\ pc' = [pc EXCEPT ![t] = "apply"]
            /\ UNCHANGED result
       \/ Done(t, "error") /\ UNCHANGED <<target, delObj>>
    /\ UNCHANGED <<dir, rec, hit>>

\* VmDirInternalDeleteEntry on mr->dn: no entry there is
\* LDAP_NO_SUCH_OBJECT; a deadlock, a non-leaf or another error commits
\* nothing either.  Otherwise the entry found is deleted.
DeleteApply(t) ==
    /\ pc[t] = "apply"
    /\ \/ /\ Lookup(dir, target[t]) # None
          /\ hit' = [hit EXCEPT ![t] = dir[target[t]]]
          /\ dir' = [dir EXCEPT ![target[t]] = None]
          /\ Done(t, "success")
       \/ Lookup(dir, target[t]) = None /\ Done(t, "noSuchObject") /\ UNCHANGED <<dir, hit>>
       \/ Done(t, "error") /\ UNCHANGED <<dir, hit>>
    /\ UNCHANGED <<rec, target, delObj, local>>

ReplDeleteEntry(t) == DeleteFixUp(t) \/ DeleteApply(t)

-----------------------------------------------------------------------------
(* ReplAddEntry: no fixup; VmDirInternalAddEntry under the record's DN.    *)
(* An entry there already is LDAP_ALREADY_EXISTS; a missing parent or     *)
(* another error commits nothing either.                                  *)

ReplAddEntry(t) ==
    /\ pc[t] = "start"
    /\ \/ /\ dir[rec[t].dn] = None
          /\ dir' = [dir EXCEPT ![rec[t].dn] = rec[t].guid]
          /\ hit' = [hit EXCEPT ![t] = rec[t].guid]
          /\ Done(t, "success")
       \/ dir[rec[t].dn] # None /\ Done(t, "alreadyExists") /\ UNCHANGED <<dir, hit>>
       \/ Done(t, "error") /\ UNCHANGED <<dir, hit>>
    /\ UNCHANGED <<rec, target, delObj, local>>

-----------------------------------------------------------------------------
(* Local LDAP clients (not under src/; spec section 4.2): each renames,   *)
(* adds or deletes one entry in one write transaction.  A new entry gets  *)
(* a fresh objectGUID; a deleted one leaves the live names.               *)

LocalRename(c) ==
    \E from, to \in DNs :
        /\ dir[from] # None /\ dir[to] = None
        /\ dir' = [dir EXCEPT ![from] = None, ![to] = dir[from]]

LocalAdd(c) ==
    \E n \in DNs, g \in Guids \ Range(dir) :
        /\ dir[n] = None
        /\ dir' = [dir EXCEPT ![n] = g]

LocalDelete(c) ==
    \E n \in DNs :
        /\ dir[n] # None
        /\ dir' = [dir EXCEPT ![n] = None]

LocalClient(c) ==
    /\ pc[c] = "start"
    /\ LocalRename(c) \/ LocalAdd(c) \/ LocalDelete(c)
    /\ Done(c, "success")
    /\ UNCHANGED <<rec, target, delObj, local, hit>>

\* Every thread has returned.
Finished ==
    /\ \A t \in Repl \cup Clients : pc[t] = "done"
    /\ UNCHANGED vars

Next ==
    \/ \E t \in Modifiers : ReplModifyEntry(t)
    \/ \E t \in Deleters : ReplDeleteEntry(t)
    \/ \E t \in Adders : ReplAddEntry(t)
    \/ \E c \in Clients : LocalClient(c)
    \/ Finished

Spec == Init /\ [][Next]_vars

-----------------------------------------------------------------------------
TypeOK ==
    /\ dir \in [DNs -> Guids \cup {None}]
    /\ pc \in [Repl \cup Clients -> {"start", "apply", "done"}]
    /\ target \in [Repl -> DNs \cup TombDNs \cup {None}]
    /\ local \in [Repl -> DNs \cup {None}]
    /\ hit \in [Repl -> Guids \cup {None}]

(***************************************************************************)
(* Spec sections 4.2 and 8 (scenario: "a delete-entry change arrives for  *)
(* an object whose identifier resolves locally to a different name than   *)
(* the wire name ... the Identity Resolver rewrites the target name to    *)
(* the local name before the delete modification is built"): a delete-    *)
(* object request for an object the replica holds under exactly one name, *)
(* applied while the object is still under that name, deletes that        *)
(* object.  ReplDeleteEntry fixes up the decoded entry's DN and sends the *)
(* delete to the record's lastKnownDN.                                    *)
(***************************************************************************)
DeleteReachesOwnObject ==
    [][\A t \in Deleters :
         (/\ pc[t] = "apply" /\ pc'[t] = "done" /\ result'[t] # "error"
          /\ delObj[t] /\ local[t] # None /\ dir[local[t]] = rec[t].guid)
             => hit'[t] = rec[t].guid]_vars

=============================================================================
