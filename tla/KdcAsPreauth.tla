---------------------------- MODULE KdcAsPreauth ----------------------------
(***************************************************************************)
(* The authentication stage of VmKdcProcessAsReq                          *)
(* (src/vmdir/server/vmkdc/process.c) and the clients it serves.  The KDC *)
(* looks the client up case-insensitively, selects the encryption type    *)
(* (AES256 preferred, else RC4, else the first one offered), builds the   *)
(* AES salt from the stored, case-sensitive name and from the name as      *)
(* presented, finds the keys, verifies the pre-authentication and, on     *)
(* PREAUTH_REQUIRED or PREAUTH_FAILED, may put the salt into the error's  *)
(* e-data.  A client follows RFC 4120 section 3.1.1 as kinit does: it     *)
(* first asks without pre-authentication (or, optimistically, with its    *)
(* own default salt), then pre-authenticates with the salt the error      *)
(* names, and retries once after PREAUTH_FAILED if the error names a salt *)
(* other than the one it used.  The time checks of the handler come       *)
(* before this stage and are modelled in KdcTicketTimes; the clients here *)
(* ask for no from and no till.  A directory that is unreachable          *)
(* (VMKDC_RPC_SERVER_NOTAVAIL) is a fault, at most MaxFaults of them.     *)
(***************************************************************************)
EXTENDS Naturals, Sequences, FiniteSets, Functions

CONSTANTS
    Clients,        \* client processes, one AS exchange each
    Realm,          \* the KDC's realm
    Directory,      \* the stored (case-sensitive) user parts of the UPNs
    Fold(_),        \* case folding of a user name
    Names,          \* the user names a client may type
    EtypeLists,     \* the etype lists a client may offer, in its order
    StoredEtypes,   \* the etypes of the keys every principal has
    MaxFaults,      \* bound on directory outages
    NoPreauth,      \* no PA-ENC-TIMESTAMP in the request
    NoSalt,         \* no salt string (pszSaltString == NULL)
    NoHint,         \* a KRB-ERROR without e_data
    None

AES256 == "aes256-cts-hmac-sha1-96"
RC4    == "arcfour-hmac-md5"

ASSUME MaxFaults \in Nat

VARIABLES
    cl,         \* cl[c]: what client c types, knows and offers (fixed)
    pa,         \* pa[c]: the salt c pre-authenticates with, or NoPreauth
    retried,    \* c already retried after a PREAUTH_FAILED
    reply,      \* reply[c]: the KDC's last reply to c, or None
    pc,         \* pc[c]: "send", "read", "done" or "failed"
    issued,     \* issued[c]: the session key etype of c's ticket, or None
    faults      \* directory outages so far

vars == <<cl, pa, retried, reply, pc, issued, faults>>

Client == [name : Names, pwOk : BOOLEAN, etypes : EtypeLists, optimistic : BOOLEAN]

\* Mutant: user and realm concatenated in principal-name order.
MakeSaltForEtypeUserFirst(user, etype) ==
    IF etype = AES256 THEN <<user, Realm>> ELSE NoSalt

(***************************************************************************)
(* VmKdcMakeSaltForEtype: for AES256 "user@REALM" becomes "REALMuser";     *)
(* every other etype has no salt.                                          *)
(***************************************************************************)
MakeSaltForEtype(user, etype) ==
    IF etype = AES256 THEN <<Realm, user>> ELSE NoSalt

(***************************************************************************)
(* The etype loop: etype starts as the first one offered; an offered RC4  *)
(* sets it and the loop goes on, an offered AES256 sets it and breaks.     *)
(***************************************************************************)
SelectEtype(list) ==
    IF AES256 \in Range(list) THEN AES256
    ELSE IF RC4 \in Range(list) THEN RC4
    ELSE list[1]

(***************************************************************************)
(* The key store (VmKdcSearchDirectory, VmKdcFindKeyByEType, not under    *)
(* src/): a principal found by its folded name, its stored name, and a    *)
(* key per stored etype derived from the password under the stored name's *)
(* salt, the Kerberos default salt REALM followed by the user name.        *)
(* VmKdcVerifyAsReqPaData (not under src/) accepts a timestamp encrypted  *)
(* under exactly that key.                                                 *)
(***************************************************************************)
DefaultSalt(user, etype) == IF etype = AES256 THEN <<Realm, user>> ELSE NoSalt
Lookup(name) == {p \in Directory : Fold(p) = Fold(name)}
StoredKey(p, etype) ==
    [etype |-> etype, pwOk |-> TRUE, salt |-> DefaultSalt(p, etype)]
ClientKey(c, etype) ==
    [etype |-> etype, pwOk |-> cl[c].pwOk,
     salt |-> IF etype = AES256 THEN pa[c] ELSE NoSalt]

\* Mutant: no key of the selected etype is not an error.
AsReplyNoKeyCheck(c) ==
    LET etype == SelectEtype(cl[c].etypes)
        found == Lookup(cl[c].name)
        p == CHOOSE q \in found : TRUE
        code == CASE found = {} -> "C_PRINCIPAL_UNKNOWN"
                  [] pa[c] = NoPreauth -> "PREAUTH_REQUIRED"
                  [] ClientKey(c, etype) # StoredKey(p, etype) -> "PREAUTH_FAILED"
                  [] OTHER -> "ticket"
    IN  [code |-> code, hint |-> NoHint, etype |-> etype]

\* Mutant: a request without pre-authentication is not refused.
AsReplyNoPreauthCheck(c) ==
    LET etype == SelectEtype(cl[c].etypes)
        found == Lookup(cl[c].name)
        p == CHOOSE q \in found : TRUE
        code == CASE found = {} \/ etype \notin StoredEtypes -> "C_PRINCIPAL_UNKNOWN"
                  [] pa[c] # NoPreauth /\ ClientKey(c, etype) # StoredKey(p, etype)
                       -> "PREAUTH_FAILED"
                  [] OTHER -> "ticket"
    IN  [code |-> code, hint |-> NoHint, etype |-> etype]

(***************************************************************************)
(* VmKdcProcessAsReq from the client lookup to the KRB-ERROR: unknown      *)
(* client or no key of the selected etype is C_PRINCIPAL_UNKNOWN; the      *)
(* server (krbtgt) has a key of every stored etype; a request without      *)
(* pre-authentication is PREAUTH_REQUIRED, one under another key           *)
(* PREAUTH_FAILED.  bSaltMatch is the value of the case-sensitive compare *)
(* of the two AES salts, non-zero when they differ; e_data carries the    *)
(* stored name's salt on PREAUTH_REQUIRED, and on PREAUTH_FAILED when      *)
(* bSaltMatch is zero.                                                     *)
(***************************************************************************)
AsReply(c) ==
    LET etype == SelectEtype(cl[c].etypes)
        found == Lookup(cl[c].name)
        p == CHOOSE q \in found : TRUE
        canon == MakeSaltForEtype(p, etype)
        bSaltMatch == etype = AES256 /\ canon # MakeSaltForEtype(cl[c].name, etype)
        code == CASE found = {} \/ etype \notin StoredEtypes -> "C_PRINCIPAL_UNKNOWN"
                  [] pa[c] = NoPreauth -> "PREAUTH_REQUIRED"
                  [] ClientKey(c, etype) # StoredKey(p, etype) -> "PREAUTH_FAILED"
                  [] OTHER -> "ticket"
        hint == IF \/ code = "PREAUTH_REQUIRED"
                   \/ code = "PREAUTH_FAILED" /\ ~bSaltMatch
                THEN canon ELSE NoHint
    IN  [code |-> code, hint |-> hint, etype |-> etype]

Init ==
    /\ cl \in [Clients -> Client]
    /\ pa = [c \in Clients |->
               IF cl[c].optimistic
               THEN DefaultSalt(cl[c].name, SelectEtype(cl[c].etypes))
               ELSE NoPreauth]
    /\ retried = [c \in Clients |-> FALSE]
    /\ reply = [c \in Clients |-> None]
    /\ pc = [c \in Clients |-> "send"]
    /\ issued = [c \in Clients |-> None]
    /\ faults = 0

\* The KDC handles c's AS-REQ.  A ticket carries a session key of the
\* selected etype (VmKdcRandomKey).
AsReq(c) ==
    /\ pc[c] = "send"
    /\ reply' = [reply EXCEPT ![c] = AsReply(c)]
    /\ issued' = IF reply'[c].code = "ticket"
                 THEN [issued EXCEPT ![c] = reply'[c].etype] ELSE issued
    /\ pc' = [pc EXCEPT ![c] = "read"]
    /\ UNCHANGED <<cl, pa, retried, faults>>

\* A directory search fails with VMKDC_RPC_SERVER_NOTAVAIL: the KDC drops
\* its master key, enters STARTUP and answers KDC_ERR_SVC_UNAVAILABLE.
DirectoryUnavailable(c) ==
    /\ pc[c] = "send" /\ faults < MaxFaults
    /\ reply' = [reply EXCEPT ![c] =
                   [code |-> "SVC_UNAVAILABLE", hint |-> NoHint, etype |-> None]]
    /\ faults' = faults + 1
    /\ pc' = [pc EXCEPT ![c] = "read"]
    /\ UNCHANGED <<cl, pa, retried, issued>>

\* The client reads the reply: a ticket ends the exchange; a salt in the
\* e-data is used for the next request, after PREAUTH_FAILED only once and
\* only if it is new; an unavailable KDC is asked again; anything else
\* ends the exchange in failure.
ClientReads(c) ==
    /\ pc[c] = "read"
    /\ LET r == reply[c]
       IN  CASE r.code = "ticket" ->
                  pc' = [pc EXCEPT ![c] = "done"] /\ UNCHANGED <<pa, retried>>
             [] r.code = "SVC_UNAVAILABLE" ->
                  pc' = [pc EXCEPT ![c] = "send"] /\ UNCHANGED <<pa, retried>>
             [] r.code = "PREAUTH_REQUIRED" /\ r.hint # NoHint ->
                  /\ pa' = [pa EXCEPT ![c] = r.hint]
                  /\ pc' = [pc EXCEPT ![c] = "send"]
                  /\ UNCHANGED retried
             [] r.code = "PREAUTH_FAILED" /\ r.hint \notin {NoHint, pa[c]}
                  /\ ~retried[c] ->
                  /\ pa' = [pa EXCEPT ![c] = r.hint]
                  /\ retried' = [retried EXCEPT ![c] = TRUE]
                  /\ pc' = [pc EXCEPT ![c] = "send"]
             [] OTHER ->
                  pc' = [pc EXCEPT ![c] = "failed"] /\ UNCHANGED <<pa, retried>>
    /\ UNCHANGED <<cl, reply, issued, faults>>

Next ==
    \/ \E c \in Clients : AsReq(c) \/ DirectoryUnavailable(c) \/ ClientReads(c)
    \/ (\A c \in Clients : pc[c] \in {"done", "failed"}) /\ UNCHANGED vars

\* The KDC answers every request and the client reads every reply.
Spec == Init /\ [][Next]_vars /\ \A c \in Clients : WF_vars(AsReq(c) \/ ClientReads(c))

-----------------------------------------------------------------------------
TypeOK ==
    /\ cl \in [Clients -> Client]
    /\ pc \in [Clients -> {"send", "read", "done", "failed"}]
    /\ retried \in [Clients -> BOOLEAN]
    /\ issued \in [Clients -> StoredEtypes \cup {None}]
    /\ faults \in 0..MaxFaults

\* A client that knows its password, exists in the directory and offers an
\* etype the KDC holds a key of, and that starts without pre-authentication
\* as kinit does, gets a ticket whatever case it types its name in and
\* whatever directory outages (within the bound) it meets: the e-data of
\* PREAUTH_REQUIRED names the salt of the stored name.
Entitled(c) ==
    /\ cl[c].pwOk /\ Lookup(cl[c].name) # {}
    /\ SelectEtype(cl[c].etypes) \in StoredEtypes

ClientGetsTicket ==
    \A c \in Clients : (Entitled(c) /\ ~cl[c].optimistic) => <>(pc[c] = "done")

\* The same for a client that pre-authenticates optimistically with the
\* salt of the name it typed: after PREAUTH_FAILED the e-data must name the
\* stored name's salt when the two differ in case (the comment at
\* process.c:471, "Test Canonicalized salt and presented UPN for case
\* match").
OptimisticClientGetsTicket ==
    \A c \in Clients : Entitled(c) => <>(pc[c] = "done")

\* No sequence of requests, errors, salt hints and retries gets a ticket
\* for a client that does not know the password.
TicketOnlyWithPassword ==
    \A c \in Clients : issued[c] # None => cl[c].pwOk

=============================================================================
