--------------------------- MODULE KdcRealmRoute ----------------------------
(***************************************************************************)
(* Cross-realm referrals of src/vmdir/server/vmkdc/process.c.  A client in *)
(* realm Origin wants a ticket for the krbtgt of realm Target.  The KDC of *)
(* the realm it is at looks up krbtgt/Target@here; when that is missing    *)
(* and the name is a cross-realm krbtgt (isCrossRealmTGT), it asks         *)
(* VmDirGetClosestServer for the next realm on the way and issues a        *)
(* ticket for krbtgt/closest@here, which the client takes to that realm's  *)
(* KDC.  Realms trust along the DNS tree: a KDC holds the cross-realm keys *)
(* of its parent and its children.  A realm is a sequence of labels, the   *)
(* leftmost first, and a label a sequence of characters, since the code    *)
(* compares realm names as strings.                                        *)
(***************************************************************************)
EXTENDS Integers, SequencesExt

CONSTANTS
    Realms,     \* the realms of the forest, each a sequence of labels
    NONE        \* TRUST_NONE: VmDirGetClosestServer fails

VARIABLES
    origin,     \* the client's realm
    target,     \* components[1] of the requested krbtgt principal
    cur,        \* the realm whose KDC the client asks next
    status      \* "routing", "arrived" or "failed"

vars == <<origin, target, cur, status>>

\* VmDirTokenListToString: the labels joined with ".".
RECURSIVE TokenListToString(_)
TokenListToString(l) ==
    IF Len(l) <= 1 THEN FlattenSeq(l)
    ELSE Head(l) \o <<".">> \o TokenListToString(Tail(l))

Root(r) == r[Len(r)]

\* The hierarchical trust: r is the parent realm of s.
ParentOf(r, s) == Len(s) = Len(r) + 1 /\ Tail(s) = r

Trusted(d, c) == c \in Realms /\ (ParentOf(d, c) \/ ParentOf(c, d))

\* Mutant: the child branch keeps one label too few.
GetClosestServerOffByOne(domain, requested) ==
    LET rd == Reverse(domain)
        rr == Reverse(requested)
    IN  CASE requested = domain -> domain
          [] rd[1] # rr[1] -> NONE
          [] Len(rd) < Len(rr)
             /\ IsPrefix(TokenListToString(rd), TokenListToString(rr)) ->
                SubSeq(requested, Len(rr) - Len(rd) + 1, Len(requested))
          [] OTHER -> Tail(domain)

(***************************************************************************)
(* VmDirGetClosestServer: TRUST_SELF for the own realm; TRUST_NONE when    *)
(* the roots differ; TRUST_CHILD when the reversed, dot-joined own realm   *)
(* is a string prefix of the reversed, dot-joined requested one, giving    *)
(* the requested realm without its leftmost count difference - 1 labels;  *)
(* TRUST_PARENT otherwise, giving the own realm without its leftmost      *)
(* label.                                                                  *)
(***************************************************************************)
GetClosestServer(domain, requested) ==
    LET rd == Reverse(domain)
        rr == Reverse(requested)
    IN  CASE requested = domain -> domain
          [] rd[1] # rr[1] -> NONE
          [] Len(rd) < Len(rr)
             /\ IsPrefix(TokenListToString(rd), TokenListToString(rr)) ->
                SubSeq(requested, Len(rr) - Len(rd), Len(requested))
          [] OTHER -> Tail(domain)

(***************************************************************************)
(* The next hop of the DNS tree: the child of domain on the way down to    *)
(* requested when domain is a label-wise suffix of it, the parent of       *)
(* domain otherwise, nothing across roots.                                 *)
(***************************************************************************)
ReferenceClosest(domain, requested) ==
    LET k == Len(requested) - Len(domain)
    IN  CASE requested = domain -> domain
          [] Root(domain) # Root(requested) -> NONE
          [] k > 0 /\ SubSeq(requested, k + 1, Len(requested)) = domain ->
                SubSeq(requested, k, Len(requested))
          [] OTHER -> Tail(domain)

Init ==
    /\ origin \in Realms
    /\ target \in Realms
    /\ cur = origin
    /\ status = "routing"

\* The next realm the KDC of cur refers the client to: the target itself
\* when krbtgt/target@cur is in its directory, the closest server otherwise.
Referral(c) == IF Trusted(c, target) THEN target ELSE GetClosestServer(c, target)

\* Mutant: the lookup of the closest server's krbtgt is not checked.
TgsReferralNoLookup ==
    /\ status = "routing"
    /\ cur # target
    /\ IF Referral(cur) # NONE
       THEN cur' = Referral(cur) /\ UNCHANGED status
       ELSE status' = "failed" /\ UNCHANGED cur
    /\ UNCHANGED <<origin, target>>

(***************************************************************************)
(* One TGS-REQ at cur's KDC for krbtgt/target@cur (VmKdcProcessTgsReq):    *)
(* the principal found directly, or, as it is a cross-realm krbtgt, the    *)
(* closest server looked up instead; a realm the directory holds no key    *)
(* for fails the request (C_PRINCIPAL_UNKNOWN), and a ticket for           *)
(* krbtgt/c@cur sends the client on to realm c.                            *)
(***************************************************************************)
TgsReferral ==
    /\ status = "routing"
    /\ cur # target
    /\ LET c == Referral(cur)
       IN  IF c # NONE /\ (c = cur \/ Trusted(cur, c))
           THEN cur' = c /\ UNCHANGED status
           ELSE status' = "failed" /\ UNCHANGED cur
    /\ UNCHANGED <<origin, target>>

Arrive ==
    /\ status = "routing"
    /\ cur = target
    /\ status' = "arrived"
    /\ UNCHANGED <<origin, target, cur>>

Done == status # "routing" /\ UNCHANGED vars

Next == TgsReferral \/ Arrive \/ Done

Spec == Init /\ [][Next]_vars /\ WF_vars(TgsReferral \/ Arrive)

-----------------------------------------------------------------------------
\* Every chain of referrals ends, at the target or with an error: no KDC
\* sends the client around a loop of realms or back to itself.
RouteEnds == <>(status # "routing")

\* The referrals fail only when origin and target have no common root: the
\* closest server each KDC computes is a realm it trusts, so a client always
\* reaches a realm of its own tree.
FailsOnlyAcrossRoots ==
    status = "failed" => Root(origin) # Root(target)

\* Every referral a KDC gives moves the client one step along the DNS tree
\* towards the target: the step ReferenceClosest names.
RoutesAlongTree ==
    [][cur' # cur => cur' = ReferenceClosest(cur, target)]_vars

=============================================================================
