------------------------------ MODULE KdcClient ------------------------------
(***************************************************************************)
(* A Kerberos client of process.c from its first AS-REQ to the KDC of the *)
(* realm it wants a service in: the AS exchange at its own realm's KDC    *)
(* (KdcAsPreauth), and once it holds that ticket-granting ticket, the     *)
(* TGS-REQs that follow the cross-realm referrals (KdcRealmRoute).  A     *)
(* TGS-REQ needs the ticket of the previous step, so routing starts only  *)
(* after the AS exchange succeeded.                                        *)
(***************************************************************************)
EXTENDS KdcAsPreauth

CONSTANTS Realms, NONE

VARIABLES origin, target, cur, status

Route == INSTANCE KdcRealmRoute

asVars == <<cl, pa, retried, reply, pc, issued, faults>>
allVars == <<cl, pa, retried, reply, pc, issued, faults, origin, target, cur, status>>

\* Every client holds its ticket-granting ticket.
HasTgt == \A c \in Clients : pc[c] = "done"

ClientInit == Init /\ Route!Init

\* The AS exchange of client c, at its own realm's KDC, and an outage of
\* that KDC's directory.
AsStep(c) ==
    /\ AsReq(c) \/ ClientReads(c)
    /\ UNCHANGED <<origin, target, cur, status>>

Outage(c) ==
    /\ DirectoryUnavailable(c)
    /\ UNCHANGED <<origin, target, cur, status>>

\* A TGS-REQ of the referral chain, made with the ticket of the step before.
TgsStep ==
    /\ HasTgt
    /\ Route!TgsReferral \/ Route!Arrive
    /\ UNCHANGED asVars

ClientNext ==
    \/ \E c \in Clients : AsStep(c) \/ Outage(c)
    \/ TgsStep
    \/ (\A c \in Clients : pc[c] \in {"done", "failed"}) /\ ~(HasTgt /\ status = "routing")
       /\ UNCHANGED allVars

\* The KDCs answer every request, and a client goes on while it can.
ClientSpec ==
    /\ ClientInit /\ [][ClientNext]_allVars
    /\ \A c \in Clients : WF_allVars(AsStep(c))
    /\ WF_allVars(TgsStep)

-----------------------------------------------------------------------------
\* Every exchange ends: the AS exchange fails, or the chain of referrals
\* that follows it ends at the target or with an error; no KDC sends the
\* client round a loop of realms or back to itself.
ExchangeEnds ==
    <>((\E c \in Clients : pc[c] = "failed") \/ status # "routing")

\* Every referral a KDC gives moves the client one step along the DNS tree
\* towards the target.
ReferralsAlongTree == Route!RoutesAlongTree

=============================================================================
