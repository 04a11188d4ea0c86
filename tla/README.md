# TLA+ models of lightwave: replication apply, KDC and REST head

This directory holds TLA+ models of the code under `src/`, with the TLC
configurations that check them. `PROJECT.json` lists:

- the components;
- the runs, the mutants and the findings;
- the map from every TLA+ definition to the lines of C it models;
- the hazards of the code.

## The system

The repository excerpt has three working parts and some inert files.

1. **Replication apply engine**, in
   `src/vmdir/server/replication2/replentry.c`. This is the core the spec
   describes. A consumer replica applies one peer change record at a time,
   through one of `ReplAddEntry`, `ReplDeleteEntry` or `ReplModifyEntry`.
   Several replication worker threads may do this concurrently. Each apply
   follows the same sequence:
   - take the **schema modification mutex**;
   - push an element on the **write queue**, which hands out the local usn;
   - wait until that element reaches the head of the queue;
   - run the resolution and the modification inside a backend **write
     transaction**, retrying the whole transaction (`goto txnretry`) on a
     deadlock, up to `MAX_DEADLOCK_RETRIES` times;
   - commit, pop the queue element and release the mutex.

   Inside the transaction:
   - `SetupReplModifyRequest` turns the winning attributes into REPLACE and
     attribute-level DELETE modifications. The attribute resolver
     `VmDirReplSetAttrNewMetaData` it uses is not under `src/`.
   - `_VmDeleteOldValueMetaData` purges the per-value history of a REPLACEd
     multi-valued attribute.
   - After the attribute modifications are applied, `_VmSetupValueMetaData`
     resolves every value-level item of the record's `attrValueMetaData`. It
     uses `_VmDirAttrValueMetaResolve`, which applies an epoch gate on
     <version, originating server> and a timestamp gate on the value's
     change time. It writes the winners' metadata and applies the value
     ADD/DELETE modifications in a second modify.
2. **KDC request processing**, in `src/vmdir/server/vmkdc/process.c`: the
   AS and TGS handlers, their ticket-time policy, and realm routing for
   cross-realm TGS (`VmDirGetClosestServer`).
3. **REST server lifecycle**, in `src/lwraft/server/rest-head/libmain.c`:
   init, stop and shutdown of an HTTP and an HTTPS handle.
4. **Inert files**: `testplugin.c` (test stubs) and two headers of
   constants.

The three working parts do not interact in this excerpt, so each is
modelled on its own; inside each part the models compose the threads,
clients or calls that do interact.

## Modules

| module | models | state | actions |
|---|---|---|---|
| `ValueMeta` | pure operators of `replentry.c`: `AttrValueMetaResolve`, `SetupValueMetaData`, `MergeValueMod`, `DeleteOldValueMetaData`, `SetupReplModifyRequest`; plus, from the spec, `InternalModifyEntry`/`ApplyMod` and `AttrWins` | none (operators over a store record `[vals, meta, vmeta]`) | — |
| `ValueConvergence` | replicas applying value-level changes through the value pass of `ReplModifyEntry`, in any order and with redelivery | `st` per replica, `applied`, `usn` | `ApplyValueChange(r, c)`; `Done` |
| `ReplModify` | `ReplModifyEntry` run by concurrent worker threads, next to `ReplDeleteEntry` and `ReplAddEntry` threads and other local writers on the write queue | `store` (committed entry), `present` (an entry exists under the DN), per thread `txn`, `pc`, `retries`, `mods`, `attached`, `pAVM`, `result`, `slot`, `rec`; shared `mutex`, `queue`, `nextUsn`, `lastCommit` | one action per step of the handler: `Start`, `SchemaModMutexAcquire`, `WriteQueuePush`, `WriteQueueWait`, `TxnRetry`, `DNToEntryId`, `Setup` (with `DetatchValueMetaData`), `ModifyAttrs`, `ValueMetaPass`, `ModifyValues`, `TxnCommit`, `WorkerSchemaRefresh`, `ErrorExit`, `Cleanup`; `WriterPush`/`WriterCommit` for the other writers; `DeleteStart`, `DeleteQueuePush`, `DeleteSetup`, `InternalDeleteEntry`, `DeleteCleanup` for the deleters; `AddStart`, `AddSetup` (with `AddedEntry` and `AttachValueMetaData`), `InternalAddEntry`, `SchemaRefresh`, `AddCleanup` for the adders |
| `ReplApply` | the abstract promise of `ReplModifyEntry` to its caller: each record applied atomically with its deadlock-free effect (`RecordEffect`) or rejected, local usns committed in increasing order, every record decided; for a schema entry a failure may be reported after the apply | `rec`, `store`, `status`, `lastUsn` | `Apply(w)`, `Reject(w)`, `SchemaRefreshFails(w)`, `OtherWrite` |
| `ReplIdentity` | which local entry a replicated change lands on: `ReplFixUpEntryDn`, the target DN of `ReplModifyEntry`, `ReplDeleteEntry` (with the lastKnownDN substitution of `SetupReplModifyRequest`) and `ReplAddEntry`, and local LDAP clients writing in between | `dir` (DN to objectGUID), per thread `rec`, `pc`, `target`, `delObj`, `local`, `hit`, `result` | `ModifyFixUp`, `ModifyApply`, `DeleteFixUp`, `DeleteApply`, `ReplAddEntry`; `LocalClient` (`LocalRename`, `LocalAdd`, `LocalDelete`); `Finished` |
| `KdcTicketTimes` | the ticket-time policy of `VmKdcProcessAsReq` and `VmKdcProcessTgsReq` (process.c), with the dispatch of `VmKdcProcessKdcReq` | `now`, the set `tickets` issued, the last `reply`, `crashed` | `Tick`, `AsReq`, `AsReqRejected`, `TgsReq` (fresh or RENEW), `OtherReq` |
| `KdcAsPreauth` | the authentication stage of `VmKdcProcessAsReq`: client lookup, etype loop, `VmKdcMakeSaltForEtype`, `bSaltMatch`, key lookups, pre-authentication verdict, e-data salt, directory outage; and RFC 4120 clients | `cl` (what each client types, knows, offers), `pa` (the salt it pre-authenticates with), `retried`, `reply`, `pc`, `issued`, `faults` | `AsReq(c)`, `DirectoryUnavailable(c)`, `ClientReads(c)` |
| `KdcClient` | composition: a client's AS exchange (`KdcAsPreauth`) and then its referral chain (`KdcRealmRoute`, instantiated as `Route`), which needs the TGT | both modules' variables | `AsStep(c)`, `Outage(c)`, `TgsStep` |
| `KdcRealmRoute` | a client following cross-realm referrals: each KDC's TGS lookup and `VmDirGetClosestServer` (process.c) | `origin`, `target`, `cur`, `status` | `TgsReferral`, `Arrive` |
| `RestServer` | `VmDirRESTServerInit`, `...Stop`, `...Shutdown` and the HTTP/HTTPS handle helpers of `libmain.c` | `pc` of the daemon, `conf`, per listener `handle`/`published`, per global `res`/`ptr`, `doubleFree`, `stopRet` | `LoadVmAfdAPI`, `LoadApiDef`, `InitHTTP`, `InitHTTPS`, `ServerStop`, `ServerShutdown` |
| `MCValueConvergence`, `MCReplModify`, `MCReplIdentity`, `MCKdcTicketTimes`, `MCKdcRealmRoute`, `MCKdcClient` | model values, records and realm sets for TLC | | |

### How `ReplModify` corresponds to the code

- `pc` follows the labels of the C function.
- A transaction is a private copy `txn[w]` of the committed entry:
  - `TxnRetry` takes the copy at `pfnBETxnBegin`;
  - `TxnCommit` publishes it;
  - after the loop, `WorkerSchemaRefresh` is the schema-context refresh of
    762–774: for an entry under the schema naming context (the constant
    `SchemaEntry`, shared with the adder's `SchemaRefresh`),
    `VmDirSchemaCtxAcquire` may fail and the handler returns an error for a
    record it has already committed;
  - `ErrorExit` and `TxnRetry` drop it, as `pfnBETxnAbort` does.
- `attached[w]` says whether the decoded entry still carries
  `attrValueMetaData`. `pAVM[w]` is the local pointer
  `pAttrAttrValueMetaData`. `DetatchValueMetaData` sets the pointer from
  what is still attached and then unlinks it, exactly as
  `_VmDirDetatchValueMetaData` does.
- `mods[w]` is `mr->mods`:
  - `Setup` prepends to it, as `SetupReplModifyRequest` does;
  - `ValueMetaPass` replaces it, since `_VmSetupValueMetaData` frees the old
    list first;
  - nothing resets it at `txnretry`, as in the code.
- Every backend call the code checks may fail. Each failure becomes one more
  disjunct of the action, with the exit the code takes:
  - a deadlock goes to `txnretry` at `pfnBEDNToEntryId`,
    `SetupReplModifyRequest` and both `VmDirInternalModifyEntry` calls;
  - every other failure goes to `error`, including a deadlock in the value
    pass or in the REPLACE purge, which the code bails on.
- Decoding, the schema-attribute check, DN fixup and logging are local to the
  thread and are folded into `Start`. Only the tombstone refusal changes
  control there: it exits to `cleanup` before the mutex is taken, and the
  cleanup then pops and releases resources the thread never took. The model
  lets `Cleanup` remove nothing in that case. What `VmDirWriteQueuePop` and
  `VmDirSchemaModMutexRelease` do for a resource that is not held is outside
  `src/`.
- The other local writers (the LDAP write path, not under `src/`) are
  modelled from spec sections 4.6 and 6. Each one pushes, waits for the head
  and commits a write to another entry, then pops.
- A deleter runs `ReplDeleteEntry` on the same entry, with its own `pc`
  labels (`dstart` … `dcleanup`) and `drec[d]`, the tombstone's attributes.
  It takes no mutex and has no retry loop:
  - `DeleteStart` folds decoding, `ReplFixUpEntryDn` and the DN copy, each
    of which may bail. With one entry, the guid lookup finds it under the
    same DN or fails.
  - `DeleteQueuePush` pushes and takes its usn.
  - `DeleteSetup` runs `SetupReplModifyRequest` against the committed
    `store`, before any transaction, as line 418 does.
  - `InternalDeleteEntry` is `VmDirInternalDeleteEntry`, which is not under
    `src/`. From the spec, it waits for the head, then applies the request
    in one transaction, or returns one of the errors of the switch at
    423–471.
  - `DeleteCleanup` pops the element in `VmDirFreeOperationContent` (the
    spec's `pop(slot)`).
- `present` says whether an entry exists under the DN; `InitPresent` gives
  its initial values. `pfnBEDNToEntryId` and the delete succeed only on an
  existing entry; their not-found errors are the existing error disjuncts.
- An adder runs `ReplAddEntry` for the same DN, with labels `astart` …
  `acleanup`, its record `arec[a]` and the entry it builds, `aentry[a]`:
  - `AddStart` folds parsing and the schema check into the queue push.
  - `AddSetup` runs outside any transaction and before the head. It detaches
    the value metadata and resolves the attributes. It adds the attributes
    the supplier deleted, with metadata and no values, under the slot's usn.
    It then attaches the value metadata (`AttachValueMetaData`: the items of
    attributes the entry carries, with their usn rewritten to the slot's;
    the others skipped) and patches. The resolver reads no local entry: if
    an entry exists, the add fails below.
  - `InternalAddEntry` (not under `src/`, from the spec) waits for the head
    and stores `aentry[a]` if no entry exists. Otherwise it returns
    LDAP_ALREADY_EXISTS, or one of the other errors of the switch at
    261–297.
  - `SchemaRefresh`: for an entry under the schema naming context,
    `VmDirSchemaCtxAcquire` may fail after the commit, and the add returns
    an error for an entry it stored.
  - `AddCleanup`: no line of `ReplAddEntry` pops the queue element. The
    model pops it in `VmDirFreeOperationContent`, as for the delete.

### The refinement of `ReplApply` by `ReplModify`

The end of `ReplModify` instantiates `ReplApply` as `Apply`, with this
mapping:
- `status[w]` is "applied" once `result[w]` is success, "failed" once it is
  any other result, "pending" before;
- `lastUsn` is `lastCommit`;
- `rec` and `store` are the same variables.

`ApplySpec == Apply!ASpec` is checked as a PROPERTY. A worker's commit is
the abstract `Apply`; a returning error is `Reject`; a failed schema
refresh after the commit is `SchemaRefreshFails`, which turns an applied
record into a reported failure without touching the store; a writer's
commit is `OtherWrite`; every other step is a stutter. Without
`SchemaRefreshFails` the mapping breaks: a worker's commit changes the
store and its status then ends "failed", which is neither `Apply` nor
`Reject`. So the promise `ReplApply` states is weaker than "failed means
not applied" for schema entries, and `modify_refines_apply` runs with
`SchemaEntry = TRUE` to include that path.

On a deadlock retry the model re-resolves the record's attribute metadata
from the same record. The code moved each attribute's `pMetaData` into the
first attempt's mods and set it to NULL on the decoded entry (1017–1018).
What `VmDirReplSetAttrNewMetaData`, outside `src/`, does with that NULL is
not known, so the refinement holds under the assumption that it resolves
as on the first attempt (hazard at replentry.c:1017). The weak fairness of
`ASpec` per worker follows from the fairness of the worker's threads.

### How `KdcTicketTimes` corresponds to the code

- A ticket is a record of its times: `start`, `end`, `renewTill`, the
  `renewable` flag and, for TGS tickets, the `tgtEnd` of the presented
  ticket (kept only for the properties).
- `AsTicket` and `TgsTicket` translate the time arithmetic of the handlers
  (process.c 401–427 and 917–969). `StartOk` is the shared starttime rule.
- The requested `from`/`till` are absent (`None`, a NULL pointer), zero, or
  the KDC time plus one of `Offsets`, which covers past, within-skew,
  postdated and beyond-max-life requests.
- `TgsReq` lets the client present any ticket issued so far, with or without
  RENEW. A renewal of a ticket without a renew-till dereferences NULL
  (process.c:936); the model sets `crashed`.
- The client follows RFC 4120 and asks for a renewal only of a ticket
  flagged RENEWABLE. The crash is therefore reached through the TGS's own
  copy of the RENEWABLE option (process.c:958) onto a ticket without a
  renew-till.
- Principals, keys, pre-authentication and ASN.1 have no time; their errors
  are the replies of `AsReqRejected`.

### How `KdcAsPreauth` and `KdcClient` correspond to the code

- `AsReply(c)` is the handler from `VmKdcUnparsePrincipalName` to the
  e-data (process.c 434–527), as one function of the request:
  - `Lookup` is `VmKdcSearchDirectory`. It finds the principal whatever
    case the name is typed in, and returns the stored, case-sensitive UPN.
  - `SelectEtype` is the loop at 450–487. AES256 anywhere in the list wins;
    otherwise RC4; otherwise the first etype offered, which then has no key
    (C_PRINCIPAL_UNKNOWN).
  - `MakeSaltForEtype` turns `user@REALM` into `REALMuser` for AES256
    (226–282). A salt is the pair `<<REALM, user>>`.
  - `bSaltMatch` is the value of the case-sensitive compare of the stored
    name's salt and the presented name's salt. It is non-zero when they
    differ, and the e-data of PREAUTH_FAILED is built when it is zero.
  - `StoredKey` and `ClientKey` stand for the keys. A key is the etype, the
    password (right or wrong) and the salt it was derived under.
    `VmKdcVerifyAsReqPaData` (not under `src/`) accepts exactly the stored
    key.
- `AsReq(c)` is the rest of the handler: the ticket, with a session key of
  the selected etype. `DirectoryUnavailable(c)` is the
  VMKDC_RPC_SERVER_NOTAVAIL case of the error switch (627–635).
- The client is kinit's RFC 4120 flow, which is not in the repository:
  - it asks without pre-authentication, or optimistically under the salt of
    the name it typed;
  - after PREAUTH_REQUIRED it uses the e-data's salt;
  - after PREAUTH_FAILED it retries once if the e-data names a new salt;
  - it asks again after SVC_UNAVAILABLE and gives up on anything else.
- The time checks come before this stage in the handler; they are
  `KdcTicketTimes`, and the clients here ask for no from and no till.
- `KdcClient` extends `KdcAsPreauth` and instantiates `KdcRealmRoute` with
  the same names. `TgsStep` runs a referral step only once every client
  holds its TGT.

### How `KdcRealmRoute` corresponds to the code

- A realm is a sequence of labels, and a label a sequence of characters.
  `GetClosestServer` works on the dot-joined strings (`TokenListToString`,
  `IsPrefix`) exactly as `VmDirGetClosestServer` compares them with
  `VmDirStringNCompareA`.
- `Referral(c)` is the TGS lookup: the target's krbtgt when `c` trusts it
  directly, the closest server otherwise. `TgsReferral` fails the request
  when no krbtgt for the closest server exists at `c` (a realm it does not
  trust).
- `ReferenceClosest` is the DNS-tree hop computed label-wise; it is the
  reference `GetClosestServer` is checked against.

### How `RestServer` corresponds to the code

- `pc` follows `VmDirRESTServerInit` (`afd`, `load`, `http`, `https`,
  `error`) and the daemon's exit sequence (`up`, `failed`,
  `errorShutdown`, `exitShutdown`, `down`).
- Each global (the VmAfd API, the token cache, the API definition) has a
  resource state `res[g]` and a pointer `ptr[g]`. `FreeGlobals` frees what
  the pointers point to and clears only the API definition pointer, as
  libmain.c:151–154 does.
- A listener's handle goes `null → inited → started`, and then `stopped` or
  `stuck` (VmRESTStop timed out with threads running), then `freed`.
  `InitListener` folds the REST library's init, register and start calls
  into one step with each failure exit the code has.
- `ServerStop` or-s the two stop results into `stopRet`; `ServerShutdown`
  runs only when that result is 0, as both Init's error path and the
  daemon do.

### How `ReplIdentity` corresponds to the code

`ReplModify` has one entry under one DN, so it cannot say which entry a
change reaches. `ReplIdentity` keeps a flat directory `dir` from DNs to
objectGUIDs and collapses each handler to the two points where a DN is
chosen and where it is used:

- `FixUpEntryDn` is `ReplFixUpEntryDn` (replentry.c:807-874). A record
  without objectGUID keeps its DN. So does one whose GUID search
  (`Holders`) finds zero or several entries. One match replaces the DN by
  the local one. The search's own failure is the `"error"` disjunct of the
  fixup actions.
- `ModifyFixUp` covers decode, fixup and `mr->dn = e.dn` (511-562).
  `ModifyApply` covers the mutex, the queue and `pfnBEDNToEntryId` on that
  DN (565-648). Any other client's step can run between the two.
- `DeleteFixUp` covers decode, fixup, `mr->dn = tmpAddOp.reqDn`, the queue
  push and `SetupReplModifyRequest` (356-418). `DeleteTarget` is that
  function's retargeting of a delete-object request to the lastKnownDN
  value (1029-1094). Whether isDeleted wins depends on local metadata this
  module does not hold, so it is a free choice. `DeleteApply` is
  `VmDirInternalDeleteEntry` with its error cases (420-472).
- `ReplAddEntry` is one step: `VmDirInternalAddEntry` under the record's
  DN, with `LDAP_ALREADY_EXISTS` when that DN is taken (251-290). It has no
  fixup.
- Local clients are not under `src/`. Each renames, adds (with a fresh
  objectGUID) or deletes one entry in one transaction. `LocalName` is the
  spec's identity resolver (section 4.2): the one DN carrying the record's
  objectGUID. It is what the property compares the code against.

## Runs

| run | cfg | expect | checks |
|---|---|---|---|
| `value_lww` | `MCValueConvergence.cfg` | pass | `TypeOK`, `LastWriterWins` |
| `value_tie` | `MCValueConvergenceTie.cfg` | violation | `Convergence` |
| `modify_loop` | `MCReplModify.cfg` | pass | `TypeOK`, `ReleasedOnReturn`, `CommitInUsnOrder`, `AllReturn`, `ChangesCarryCommitUsn` |
| `modify_retry` | `MCReplModifyRetryIdempotent.cfg` | violation | `RetryIdempotent` |
| `modify_delete_stale` | `MCReplModifyDeleteStale.cfg` | violation | `MetaOnlyAdvances` |
| `delete_identity` | `MCReplIdentity.cfg` | violation | `DeleteReachesOwnObject` |
| `modify_refines_apply` | `MCReplApply.cfg` | pass | `ApplySpec` |
| `kdc_times` | `MCKdcTicketTimes.cfg` | pass | `TypeOK`, `WithinRenewTill` |
| `kdc_renew_crash` | `MCKdcTicketTimesCrash.cfg` | violation | `NoKdcCrash` |
| `kdc_client` | `MCKdcClient.cfg` | pass | `TypeOK`, `TicketOnlyWithPassword`, `ClientGetsTicket`, `ExchangeEnds`, `ReferralsAlongTree` |
| `realm_prefix` | `MCKdcRealmRouteFails.cfg` | violation | `FailsOnlyAcrossRoots` |
| `rest_lifecycle` | `MCRestServer.cfg` | pass | `FreedOnlyWhenStopped` |

- **`value_lww`**: one replica receives five value changes from two servers:
  - alice deleted and re-added;
  - bob added and deleted;
  - an add of carol under an older attribute epoch.

  The changes arrive in every order, with every redelivery that fits
  `MaxDelivery = 6`. After all have been applied, `member` holds exactly the
  last-writer values: a value is present iff its latest event of the current
  epoch is an ADD. That is the order-independence the spec's Convergence
  rests on. It holds (2313 states). One replica suffices: the property is
  about every order a single replica can see.
- **`value_tie`**: two replicas and three changes, where the delete and the
  add of alice carry the same change time and come from different servers.
  TLC finds the two replicas holding different `member` sets. **Finding:**
  the timestamp gate (`rc > 0`, replentry.c:1218) has no tie-break, so
  arrival order decides. This breaks the spec's determinism requirement
  (sections 3 and 8).
- **`modify_loop`**: one worker, one deleter and one adder on the same DN,
  where the entry exists at start or not. The deleter applies `DCn`, the
  tombstone's metadata-only `cn`. The adder applies `ASchema`, an entry
  under the schema naming context from server 2. That entry has a value item
  of `member` and one of `manager`, an attribute the entry does not carry.
  The worker applies one of four records:
  - an attribute REPLACE together with a value ADD;
  - a value DELETE;
  - a REPLACE of the multi-valued `member`, which purges its value history;
  - a change to a tombstone.

  Deadlocks and errors are possible at every call, and
  `MAX_DEADLOCK_RETRIES = 2`, so the run reaches both the exhausted budget
  and a success after a retry. When the entry is missing at start, a modify
  or delete that reaches the head before the add fails with no such object,
  and one after it applies to the added entry. It checks (71,112 states):
  - `CommitInUsnOrder`: commits happen in the order of the write-queue usns;
  - `ReleasedOnReturn`: a returned thread (worker, deleter or adder) holds
    no mutex, queue element or transaction;
  - `AllReturn`: every thread returns;
  - `ChangesCarryCommitUsn`: every attribute or value metadata a commit
    writes carries that commit's usn. Partners pull changes by local usn,
    and the adder and the deleter take theirs from the queue element long
    before they commit.
- **`modify_retry`**: the action property `RetryIdempotent` says a commit
  writes exactly what a deadlock-free run of the same record would write,
  which is spec section 8, "Idempotence of retry". The shortest trace TLC
  finds:
  1. worker w1 applies `RValue` (delete alice from `member`);
  2. the first attempt detaches `attrValueMetaData`;
  3. `SetupReplModifyRequest` reports a deadlock;
  4. the retry's detach finds nothing, so the value pass is skipped;
  5. the commit succeeds with alice still a member.

  The same happens after a deadlock in either modify. After a deadlock in the
  second modify there is one more effect: `mr->mods`, which is never reset,
  re-applies the aborted attempt's value modifications without their value
  metadata.
  **Finding:** `_VmDirDetatchValueMetaData` (replentry.c:650) is inside the
  retry loop, so every retry silently drops the record's value changes.
- **`modify_delete_stale`**: `MetaOnlyAdvances` says a commit changes an
  attribute's metadata only to a greater epoch, so no replicated change
  overwrites a newer one. One worker applies `RCn` (`cn` under <2, s1>) and
  one deleter applies `DCn` (`cn` under <2, s0>); the stored `cn` is at
  <1, s1>. TLC finds this trace:
  1. the worker pushes (usn 1) and runs its transaction up to the commit;
  2. the deleter pushes (usn 2) and resolves: <2, s0> beats the committed
     <1, s1>;
  3. the worker commits <2, s1>;
  4. the deleter reaches the head and writes <2, s0> over it.

  **Finding:** replentry.c:418 resolves the delete before its transaction.
  The SJ-TBD comments at 417 and 421 name the window, and spec section 4.6
  requires resolution inside the transaction. The modify path keeps the
  property: it resolves inside the transaction, under the mutex and at the
  queue head.
- **`modify_refines_apply`**: `ReplModify` with two workers and one other
  local writer, `MAX_DEADLOCK_RETRIES = 2`, on an existing entry, with
  records that carry attribute changes only
  (`MCAttrRecs`: a REPLACE of `cn`, a REPLACE of `member`, a tombstone).
  `SchemaEntry = TRUE`, so a commit may be followed by a failed schema
  refresh. `ApplySpec` holds (52,483 states): seen from the caller, the whole retry
  loop, the mutex, the queue and the interleaving with the writer amount to
  one atomic apply or a rejection, and every record is decided. With the
  value records the same refinement fails, exactly at the
  retry bug of `modify_retry`; the run is therefore restricted to the records
  for which the code's promise is meant to hold.
- **`delete_identity`**: `DeleteReachesOwnObject`, the scenario of spec
  section 8: a delete-object record for an object the replica holds under
  exactly one name deletes that object. The directory starts with g1 under
  `dA`. A modifier, a deleter and an adder carry the partner's changes to
  g1, made while g1 was under `dA` there. Two local clients run beside
  them. TLC finds this trace:
  1. a client renames `dA` to `dB`;
  2. the deleter's fixup finds g1 under `dB`, but the request goes to
     lastKnownDN `dA`;
  3. the delete fails with `LDAP_NO_SUCH_OBJECT`. Had the second client
     added a new entry at `dA`, that entry would have been deleted instead.

  **Finding:** replentry.c:386 and 1089 never use the fixed-up DN for the
  delete. The comment at 420 ("What happens when DN of the entry has
  changed in the meanwhile?") leaves the case open.
- **`kdc_times`**: the clock runs 0..3, up to three tickets are issued, by
  AS requests and TGS requests (fresh or renewals, on any ticket issued so
  far), with `MaxLife = 3`, `MaxRenewableLife = 5`, `ClockSkew = 2`.
  `WithinRenewTill` holds (99,682 states): no ticket, even after a chain of
  renewals of renewals, ends after the renew-till it carries.
- **`kdc_renew_crash`**: `NoKdcCrash`, under clients that renew only tickets
  flagged RENEWABLE. TLC finds an AS ticket, a TGS request with the
  RENEWABLE option but no renewable till, which the TGS flags RENEWABLE
  without a renew-till (process.c:958), and a renewal of it, which
  dereferences the NULL renew-till. **Finding:** process.c:936.
- **`kdc_client`**: the directory holds `Alice@REALM` with AES256 and RC4
  keys. One client types `alice`, `Alice` or `bob`, knows the password or
  not, and offers `<<AES256, RC4>>`, `<<RC4, AES256>>`, `<<DES, RC4>>` or
  `<<DES>>`. It pre-authenticates optimistically or not, meets at most one
  directory outage, and then routes from any realm to any realm of
  one to three labels drawn from `a` and `ab` (two trees). It holds (87,008
  states):
  - `TicketOnlyWithPassword`: no sequence of requests, salt hints and
    retries gets a ticket without the password;
  - `ClientGetsTicket`: a client that knows the password, exists and offers
    a held etype, and starts without pre-authentication as kinit does, gets
    its TGT whatever case it types its name in. The e-data of
    PREAUTH_REQUIRED always names the stored name's salt;
  - `ExchangeEnds` (under weak fairness): the AS exchange fails or the
    referral chain that follows it ends;
  - `ReferralsAlongTree`: each hop is the DNS-tree hop.
- **`realm_prefix`**: `FailsOnlyAcrossRoots`. TLC finds origin `a.a`, target
  `a.ab.a`: the reversed `a.a` is a string prefix of the reversed `a.ab.a`,
  so `VmDirGetClosestServer` takes the child branch and names `ab.a`, which
  `a.a` does not trust, and the request fails though both realms share the
  root. **Finding:** process.c:1256 compares prefixes without a label
  boundary.
- **`rest_lifecycle`**: every configuration of the two listeners, every
  failure of every library call and every stop result. `FreedOnlyWhenStopped`
  holds (256 states): a handle is shut down only after its stop succeeded.
Five more violation properties are defined, and TLC finds each violated,
but the project keeps at most twelve runs and these are not among them:
- `WithinTgtEnd` in `KdcTicketTimes`: the RFC 4120 rule the handler quotes
  (a ticket from the TGS ends no later than the presented ticket). It fails
  on a TGS request without a till, which gets `start + MaxLife` past the
  TGT's end (process.c:943). Till is mandatory in the request's ASN.1, so
  only a client sending a zero time reaches this.
- `DeadlockAlwaysRetried` in `ReplModify`: a value-pass deadlock is
  returned as a failure, because replentry.c:696 and 726 bail instead of
  `goto txnretry`.
- `TgtValidAtIssue` in `KdcTicketTimes`: the TGS never checks the presented
  ticket's endtime. Expiry is checked outside `src/`.
- `OptimisticClientGetsTicket` in `KdcAsPreauth`. The trace:
  1. the client types `alice` for the stored `Alice` and pre-authenticates
     with the salt `REALMalice`;
  2. the KDC answers PREAUTH_FAILED. The salts differ, so `bSaltMatch` is
     non-zero and the e-data is not built (process.c:514);
  3. the client has no salt to retry with and fails, though it knows the
     password.

  The comment at 471 ("Test Canonicalized salt and presented UPN for case
  match") and the name `bSaltMatch` say the hint is meant for exactly this
  case. The test is inverted: the hint is sent only when the salts are
  equal, when it cannot help. This is listed as a hazard.
- `NoDoubleFree` in `RestServer`. The trace:
  1. the VmAfd API loads and the API definition fails to load;
  2. Init's error path stops (success) and shuts down, which frees the VmAfd
     API and leaves its pointer set;
  3. the daemon's exit sequence stops and shuts down again and frees it a
     second time.

  libmain.c:152–153 free the cache and the VmAfd API without clearing their
  pointers. The violation needs the daemon, which is outside `src/`, to call
  Shutdown after a failed Init, so it is listed as a hazard rather than a
  finding.

Every property of a passing run has a mutant in `PROJECT.json`: a plausible
bug in the mapped definition, which TLC must catch.

| property | mutant | kind of bug |
|---|---|---|
| `LastWriterWins` | `AttrValueMetaResolveNoEpoch` | epoch gate dropped |
| `TypeOK` of `value_lww` | `SetupValueMetaDataKeepUsn` | supplier usn kept |
| `TypeOK` of `modify_loop` | `TxnRetryOffByOne` | ceiling off by one |
| `ReleasedOnReturn` | `CleanupNoPop` | no pop in cleanup |
| `CommitInUsnOrder` | `WriteQueueWaitNoHead` | wait ignores the head |
| `AllReturn` | `TxnRetryNoCount` | retry counter not incremented |
| `ChangesCarryCommitUsn` | `AttachValueMetaDataKeepUsn` | add keeps the supplier's usn on value metadata |
| `ApplySpec` | `WriteQueueWaitNoHead` | wait ignores the head |
| `TypeOK` of `kdc_times` | `AsTicketNoMaxrt` | renew-till not limited by max renewable life |
| `WithinRenewTill` | `TgsTicketNoClamp` | renewal end not clamped to renew-till |
| `TypeOK` of `kdc_client` | `AsReplyNoKeyCheck` | no key of the selected etype not an error |
| `TicketOnlyWithPassword` | `AsReplyNoPreauthCheck` | request without pre-authentication not refused |
| `ClientGetsTicket` | `MakeSaltForEtypeUserFirst` | salt built user first |
| `ExchangeEnds` | `GetClosestServerOffByOne` | child branch keeps one label too few |
| `ReferralsAlongTree` | `TgsReferralNoLookup` | closest server's krbtgt not looked up |
| `FreedOnlyWhenStopped` | `ServerStopHttpOnly` | stop result of HTTPS ignored |

## Bounds and why they suffice

- **Values and times.** Two or three values and change times 1 to 5. That is
  enough for an older event, a newer event, a redelivery and a stale epoch on
  the same value. Times are naturals: the code compares fixed-width time
  strings with `strncmp`, which orders them as numbers.
- **`MaxDelivery = 6`** allows one redelivery on top of five changes. The
  action's guard keeps room for the changes not yet applied, so redelivery
  never starves a change.
- **Threads.** The contention patterns are split between two runs:
  - in `modify_refines_apply`, two workers contend for the mutex, with a
    local writer that takes no mutex in the queue;
  - in `modify_loop`, a worker, a deleter and an adder share the queue,
    and the entry's existence depends on the order they reach the head.

  All five threads in one run take 23 minutes (11M states). Two workers
  with the deleter and the adder take four minutes even at one retry. Each
  pattern above needs only its own threads. The stale-delete run has the
  two workers, both given `RCn`, the deleter and no writer or adder. TLC
  finds its counterexample in about a second.
- **`MAX_DEADLOCK_RETRIES = 2`** lets a run succeed after one retry and also
  exhaust the budget. The production constant is larger, but no behaviour
  depends on its size.
- **KDC times.** `MaxTime = 3` and `MaxTickets = 3` allow an AS ticket, a
  ticket from it and a renewal of that, at different KDC times. The offsets
  `{-1, 1, 2, 3, 4, 5, 6}` give a from in the past, within and beyond the
  skew, and a till below the skew, within the max life, exactly at it,
  beyond it, exactly at the max renewable life, and beyond it.
- **Realms.** Two labels where one is a string prefix of the other, and
  depth three, is the smallest forest where a wrong string prefix can name a
  realm of another branch; every origin/target pair is an initial state.
- **AS clients.** One client suffices: clients share only the outage
  budget, and the KDC keeps no per-request state. The names cover a case
  variant of the stored UPN, the exact UPN and an unknown principal. The
  etype lists cover AES256 listed first and listed second, RC4 after an
  unsupported etype, and no supported etype. `MaxFaults = 1` makes an
  outage happen at every point of the exchange.
- **REST.** The lifecycle has no counter: the model is exhaustive.
- **Identity.** Two live DNs and a tombstone DN. Two GUIDs: the
  partner's object and one for a new local entry. Two local clients allow a
  rename followed by an add that reuses the old name. One thread of each
  replicated kind suffices: the question is how one change's target relates
  to local writes, not how replicated changes order among themselves
  (`ReplModify` covers that).
- **Symmetry.** `MCSymmetry` permutes the two replicas in the tie run only.
  The `modify_loop` and `modify_refines_apply` runs check liveness, so they
  use no symmetry.

## Fairness

- `ReplModify` assumes weak fairness of each thread's step. The threads are
  OS threads: the backend calls return, the schema mutex is a blocking
  mutex, and the write-queue wait is a condition wait that the popping thread
  signals. Every thread runs one handler once, so a thread waiting on the
  mutex or on the queue head sees its step enabled continuously after the
  holder leaves. Strong fairness is not needed. The deleters get the same
  weak fairness: their only wait is for the queue head. So do the adders. `ReplApply` asks weak
  fairness of each worker's decision, which that justifies.
- `KdcRealmRoute` assumes weak fairness of the client's next TGS request: a
  client that still wants its ticket keeps following referrals. The KDC
  answers every request; nothing disables the step.
- `KdcClient` assumes weak fairness of each client's AS exchange, KDC
  answer and reading included, and of the referral step. Directory outages
  get no fairness: they are bounded by `MaxFaults`, and a KDC whose
  directory never comes back serves no one.
- `ValueConvergence`, `ReplIdentity`, `KdcTicketTimes` and `RestServer` check only safety.

## Assumptions

- KDC clients follow RFC 4120: a renewal is asked only for a ticket flagged
  RENEWABLE. Without it the crash at process.c:936 is reached trivially.
- The daemon calls `VmDirRESTServerInit` once and, at exit,
  `VmDirRESTServerStop` and then `VmDirRESTServerShutdown` only if Stop
  returned 0, the pattern Init's own error path uses. The daemon is not under
  `src/`.

## Not modelled and why

- **`_VmDirPatchData`** (replentry.c:876-933): it renames
  `vmwSecurityDescriptor` and a `vmwContainer` objectClass value, and drops
  `vmwOrganizationGuid`, in the decoded entry. It is a pure rewrite of
  attribute names with no control that interacts with another step. No
  property tells attribute names apart.
- **A parent entry**: the add's parent check (LDAP_NO_SUCH_OBJECT) is one
  of its error disjuncts; there is no second entry.
- **The fixup inside `ReplModify`**: `ReplModify` keeps one entry under
  one DN. `ReplIdentity` models the fixup and the races it has with local
  renames, without the queue and the retry loop.
- **KDC STARTUP state and the directory**: the KDC's state machine and the
  directory it reads are outside `src/`. The outage is modelled by its reply
  (`DirectoryUnavailable`), and the directory as a key store.
- **`VmKdcCreateAuthzData`**: compiled only with `VMDIR_ENABLE_PAC`, and its
  call in the AS handler is under `#if 0`.
- **Case folding of realm names**: the root compare is case-insensitive and
  the self compare case-sensitive (process.c:1198, 1231); the realms are
  modelled in one case.
- **`VmDirToCRestEngineLogLevel`** and the REST configuration: a pure
  mapping of log levels with no state.
- **Attribute metadata resolver and `VmDirInternalModifyEntry`**: these are
  not under `src/` and are modelled from the spec, marked `spec_modelled`.
- **Logging, encoding, memory management**: no state the properties tell
  apart. The first attempt's detached attribute also leaks on a retry; that
  is a memory matter and is not modelled.
- **Test DB plugin and header constants**: no behaviour.

## Plan

Done: `ValueMeta`, `ReplModify` with the delete and add paths, `ValueConvergence`,
the `ReplApply` refinement, `KdcTicketTimes`, `KdcAsPreauth`,
`KdcRealmRoute`, the `KdcClient` composition, `RestServer`,
`ReplIdentity` (the guid fixup and target DNs).

Next:
1. a parent hierarchy in `ReplIdentity`, for the add's parent check, and
   the stale modify target (replentry.c:552) as its own run, when the run
   budget allows;
2. the KDC's case-folded realm compare, with realms in two cases, and
   clients whose optimistic salt comes from the realm they typed;
3. a realm forest of four labels under `kdc_client`, and three workers in
   `modify_refines_apply`, if the state space allows.
