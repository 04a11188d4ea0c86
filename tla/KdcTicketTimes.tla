--------------------------- MODULE KdcTicketTimes ---------------------------
(***************************************************************************)
(* Ticket lifetimes issued by the KDC of src/vmdir/server/vmkdc/process.c: *)
(* VmKdcProcessAsReq issues initial tickets, VmKdcProcessTgsReq issues     *)
(* tickets from a ticket the client presents, either fresh or a renewal    *)
(* (KDC option RENEW).  The clock advances; clients present any ticket     *)
(* issued so far, as the code decrypts any ticket whose server key is in   *)
(* the directory.  Clients follow RFC 4120: a renewal is asked only for a  *)
(* ticket flagged RENEWABLE.  Principals, keys, encryption and the ASN.1   *)
(* encoding carry no time and are left out.                                *)
(***************************************************************************)
EXTENDS Integers, FiniteSets

CONSTANTS
    MaxLife,            \* pGlobals->iMaxLife
    MaxRenewableLife,   \* pGlobals->iMaxRenewableLife
    ClockSkew,          \* pGlobals->iClockSkew
    MaxTime,            \* bound on the clock
    MaxTickets,         \* bound on the tickets issued
    Offsets,            \* requested from/till times, relative to the KDC time
    None                \* an absent optional field (NULL pointer)

ASSUME MaxRenewableLife >= MaxLife /\ ClockSkew > 0

VARIABLES
    now,        \* kdc_time = time(NULL)
    tickets,    \* the tickets issued: [start, end, renewTill, renewable, tgtEnd]
    reply,      \* the last reply: "ticket" or the KRB error code
    crashed     \* the KDC process died

vars == <<now, tickets, reply, crashed>>

Min(a, b) == IF a <= b THEN a ELSE b

\* The requested time fields: absent, zero, or KDC time plus an offset.
Requested == {None} \cup {now + d : d \in Offsets}
Till == Requested \cup {0}
TillGiven(till) == till # None /\ till # 0

(***************************************************************************)
(* The starttime rule shared by both handlers: no from, a from in the     *)
(* past, or one within the clock skew gives the KDC time; a later one is   *)
(* KDC_ERR_CANNOT_POSTDATE (postdating is not supported).                  *)
(***************************************************************************)
StartOk(from) == from = None \/ from < now \/ from - now < ClockSkew

\* Mutant: the renew-till is the requested till, not limited by maxrt.
AsTicketNoMaxrt(till, renewableOk) ==
    LET end0 == now + MaxLife
        renewable == TillGiven(till) /\ till > end0 /\ renewableOk
        end == IF TillGiven(till) /\ till <= end0 THEN till ELSE end0
    IN  [start |-> now, end |-> end,
         renewTill |-> IF renewable THEN till ELSE None,
         renewable |-> renewable, tgtEnd |-> None]

(***************************************************************************)
(* VmKdcProcessAsReq: endtime is start + max life, or the requested till  *)
(* if earlier; a till beyond it with RENEWABLE-OK makes the ticket         *)
(* renewable until min(till, start + max renewable life).  A lifetime      *)
(* below the clock skew is KDC_ERR_NEVER_VALID.                            *)
(***************************************************************************)
AsTicket(till, renewableOk) ==
    LET end0 == now + MaxLife
        renewable == TillGiven(till) /\ till > end0 /\ renewableOk
        end == IF TillGiven(till) /\ till <= end0 THEN till ELSE end0
    IN  [start |-> now, end |-> end,
         renewTill |-> IF renewable THEN Min(till, now + MaxRenewableLife) ELSE None,
         renewable |-> renewable, tgtEnd |-> None]

\* Mutant: a renewal's endtime is not limited by the renew-till.
TgsTicketNoClamp(tgt, till, renew, renewableOpt) ==
    IF renew
    THEN [start |-> now, end |-> now + (tgt.end - tgt.start),
          renewTill |-> tgt.renewTill, renewable |-> renewableOpt, tgtEnd |-> tgt.end]
    ELSE [start |-> now,
          end |-> IF TillGiven(till)
                  THEN Min(Min(tgt.start + MaxLife, till), tgt.end)
                  ELSE tgt.start + MaxLife,
          renewTill |-> None, renewable |-> renewableOpt, tgtEnd |-> tgt.end]

(***************************************************************************)
(* VmKdcProcessTgsReq: a renewal keeps the presented ticket's life from    *)
(* now, limited by its renew-till, and carries that renew-till on; other   *)
(* requests end at the presented ticket's start + max life, limited by the *)
(* requested till and, only when a till is given, by the presented         *)
(* ticket's end.  The RENEWABLE flag is copied from the KDC option.        *)
(***************************************************************************)
TgsTicket(tgt, till, renew, renewableOpt) ==
    IF renew
    THEN [start |-> now, end |-> Min(now + (tgt.end - tgt.start), tgt.renewTill),
          renewTill |-> tgt.renewTill, renewable |-> renewableOpt, tgtEnd |-> tgt.end]
    ELSE [start |-> now,
          end |-> IF TillGiven(till)
                  THEN Min(Min(tgt.start + MaxLife, till), tgt.end)
                  ELSE tgt.start + MaxLife,
          renewTill |-> None, renewable |-> renewableOpt, tgtEnd |-> tgt.end]

Init ==
    /\ now = 0
    /\ tickets = {}
    /\ reply = "none"
    /\ crashed = FALSE

Tick ==
    /\ ~crashed /\ now < MaxTime
    /\ now' = now + 1
    /\ UNCHANGED <<tickets, reply, crashed>>

Issue(t) ==
    /\ tickets' = tickets \cup {t}
    /\ reply' = "ticket"

AsReq ==
    /\ ~crashed /\ Cardinality(tickets) < MaxTickets
    /\ \E from \in Requested, till \in Till, renewableOk \in BOOLEAN :
          LET t == AsTicket(till, renewableOk)
          IN  CASE ~StartOk(from) ->
                     reply' = "CANNOT_POSTDATE" /\ UNCHANGED tickets
                [] t.end - t.start < ClockSkew ->
                     reply' = "NEVER_VALID" /\ UNCHANGED tickets
                [] OTHER -> Issue(t)
    /\ UNCHANGED <<now, crashed>>

\* The AS-REQ fails before the time checks or after them: unknown client or
\* server principal or key type, missing or failed pre-authentication, or
\* the directory unreachable; the error label maps each to its KRB error.
AsReqRejected ==
    /\ ~crashed
    /\ reply' \in {"C_PRINCIPAL_UNKNOWN", "PREAUTH_REQUIRED", "PREAUTH_FAILED",
                    "SVC_UNAVAILABLE"}
    /\ UNCHANGED <<now, tickets, crashed>>

\* A renewal dereferences the presented ticket's renew_till: a NULL one
\* (a ticket flagged RENEWABLE without a renew-till) kills the process.
TgsReq ==
    /\ ~crashed /\ Cardinality(tickets) < MaxTickets
    /\ \E tgt \in tickets, from \in Requested, till \in Till,
          renew \in BOOLEAN, renewableOpt \in BOOLEAN :
          /\ renew => tgt.renewable
          /\ CASE ~StartOk(from) ->
                    /\ reply' = "CANNOT_POSTDATE"
                    /\ UNCHANGED <<tickets, crashed>>
               [] renew /\ tgt.renewTill = None ->
                    /\ crashed' = TRUE
                    /\ UNCHANGED <<tickets, reply>>
               [] OTHER ->
                    /\ Issue(TgsTicket(tgt, till, renew, renewableOpt))
                    /\ UNCHANGED crashed
    /\ UNCHANGED now

\* VmKdcProcessKdcReq: a message that is neither AS-REQ nor TGS-REQ.
OtherReq ==
    /\ ~crashed
    /\ reply' = "INVALID_PARAMETER"
    /\ UNCHANGED <<now, tickets, crashed>>

Next == Tick \/ AsReq \/ AsReqRejected \/ TgsReq \/ OtherReq \/ (crashed /\ UNCHANGED vars)

Spec == Init /\ [][Next]_vars

-----------------------------------------------------------------------------
\* No time the KDC issues is later than the clock bound plus the max
\* renewable life.
Time == -1..(MaxTime + MaxRenewableLife)
TicketRec == [start : Time, end : Time, renewTill : Time \cup {None},
              renewable : BOOLEAN, tgtEnd : Time \cup {None}]

TypeOK ==
    /\ now \in 0..MaxTime
    /\ tickets \subseteq TicketRec
    /\ reply \in {"none", "ticket", "CANNOT_POSTDATE", "NEVER_VALID",
                  "INVALID_PARAMETER", "C_PRINCIPAL_UNKNOWN", "PREAUTH_REQUIRED",
                  "PREAUTH_FAILED", "SVC_UNAVAILABLE"}
    /\ crashed \in BOOLEAN

\* No ticket, initial or obtained through any chain of renewals of
\* renewals, ends after the renew-till it carries (RFC 4120 3.3.3: a
\* renewal ends no later than the renew_till of the presented ticket).
WithinRenewTill ==
    \A t \in tickets : t.renewTill # None => t.end <= t.renewTill

\* A ticket issued from a presented ticket ends no later than the presented
\* ticket (RFC 4120 3.3.3, quoted in VmKdcProcessTgsReq: the endtime is at
\* most "the endtime from the TGT").
WithinTgtEnd ==
    \A t \in tickets : t.tgtEnd # None => t.end <= t.tgtEnd

\* A ticket is issued from a presented ticket only while that ticket is
\* still valid (RFC 4120 3.3.3.1: an expired ticket gets
\* KRB_AP_ERR_TKT_EXPIRED); VmKdcProcessTgsReq never reads its endtime
\* except to compute the new one.
TgtValidAtIssue ==
    \A t \in tickets : t.tgtEnd # None => t.start < t.tgtEnd

\* A client that renews only tickets the KDC flagged RENEWABLE never brings
\* the KDC down.
NoKdcCrash == ~crashed

=============================================================================
