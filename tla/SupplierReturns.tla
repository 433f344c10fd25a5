---------------------------- MODULE SupplierReturns ----------------------------
(***************************************************************************)
(* Returns of the supplier-sourced items of one paid order.                *)
(*                                                                         *)
(* A buyer asks for the return of an item, administrators decide on it,    *)
(* and every request of the order shares one buyer protection case.  Both  *)
(* are transactions that read first and write later, at READ COMMITTED.    *)
(* Refunds are completed by the payment provider.                          *)
(***************************************************************************)
EXTENDS Naturals, FiniteSets

CONSTANTS
    Items,       \* the items of the order
    Returnable,  \* those whose task is neither awaiting payment nor cancelled
    Buyings,     \* bound: return requests of the buyer at once
    Deciders     \* bound: decisions of administrators at once

ASSUME ReturnsAssumption == Returnable \subseteq Items

VARIABLES
    request,     \* SupplierReturnRequest.status per item, "NONE" before it exists
    refund,      \* the status of the refund keyed by the request
    protection,  \* BuyerProtectionCase.status of the order
    asking,      \* the buyer's requests under way
    deciding     \* the decisions under way

returnsVars == <<request, refund, protection, asking, deciding>>

ReturnStatus == {"REQUESTED", "APPROVED", "ITEM_RETURNED", "REFUND_PENDING",
                 "REJECTED", "RESOLVED", "CANCELLED"}
ClosedReturn == {"REJECTED", "RESOLVED", "CANCELLED"}
OpenReturn   == ReturnStatus \ ClosedReturn
Blames       == {"UNDETERMINED", "BUYER", "SUPPLIER"}
CaseStatus   == {"OPEN", "CLOSED", "RESOLVED_SELLER", "RESOLVED_BUYER"}

SUPPLIER_RETURN_TRANSITIONS ==
    [s \in ReturnStatus |->
        CASE s = "REQUESTED"      -> {"APPROVED", "REJECTED", "CANCELLED"}
          [] s = "APPROVED"       -> {"ITEM_RETURNED", "REJECTED", "CANCELLED"}
          [] s = "ITEM_RETURNED"  -> {"REFUND_PENDING", "RESOLVED", "CANCELLED"}
          [] s = "REFUND_PENDING" -> {"RESOLVED", "CANCELLED"}
          [] OTHER -> {}]

\* What an administrator may decide; the provider alone confirms a refund.
ReturnTransitionAllowed(from, to, refundStatus) ==
    /\ to \in SUPPLIER_RETURN_TRANSITIONS[from]
    /\ from = "REFUND_PENDING" /\ to = "RESOLVED" => refundStatus = "COMPLETED"

\* Mutant of CaseOutcome: a decision that blames nobody leaves the case open.
CaseOutcomeHeld(who) == IF who = "UNDETERMINED" THEN "OPEN" ELSE "CLOSED"

CaseOutcome(who) ==
    CASE who = "BUYER"        -> "RESOLVED_SELLER"
      [] who = "UNDETERMINED" -> "CLOSED"
      [] OTHER                -> "RESOLVED_BUYER"

IdleRequest == [pc |-> "idle"]

ReturnsInit ==
    /\ request = [i \in Items |-> "NONE"]
    /\ refund = [i \in Items |-> "NONE"]
    /\ protection = "NONE"
    /\ asking = [b \in Buyings |-> IdleRequest]
    /\ deciding = [d \in Deciders |-> IdleRequest]

-------------------------------------------------------------------------------
\* The buyer asks: no request of the item is on record, and the case of the
\* order is read.
ReturnRead(b) ==
    /\ asking[b].pc = "idle"
    /\ \E i \in Returnable :
        /\ request[i] = "NONE"
        /\ asking' = [asking EXCEPT ![b] = [pc |-> "write", item |-> i, seen |-> protection]]
    /\ UNCHANGED <<request, refund, protection, deciding>>

\* Item and order are unique in their tables: a second request of the item, or
\* a second case of the order, rolls the transaction back.
AskingCollides(b) ==
    \/ request[asking[b].item] # "NONE"
    \/ asking[b].seen = "NONE" /\ protection # "NONE"

\* The request is recorded; its case is created, or reopened if it was read as
\* closed.
ReturnCommit(b) ==
    /\ asking[b].pc = "write"
    /\ ~AskingCollides(b)
    /\ request' = [request EXCEPT ![asking[b].item] = "REQUESTED"]
    /\ protection' = IF asking[b].seen = "OPEN" THEN protection ELSE "OPEN"
    /\ asking' = [asking EXCEPT ![b] = IdleRequest]
    /\ UNCHANGED <<refund, deciding>>

\* Refused as a duplicate, or lost with its client.
ReturnRefused(b) ==
    /\ asking[b].pc = "write"
    /\ asking' = [asking EXCEPT ![b] = IdleRequest]
    /\ UNCHANGED <<request, refund, protection, deciding>>

-------------------------------------------------------------------------------
\* An administrator decides on what the page shows; the request and its refund
\* are read.
DecideRead(d) ==
    /\ deciding[d].pc = "idle"
    /\ \E i \in Items, to \in ReturnStatus :
        /\ request[i] # "NONE"
        /\ ReturnTransitionAllowed(request[i], to, refund[i])
        /\ deciding' = [deciding EXCEPT ![d] =
               [pc |-> "write", item |-> i, seen |-> request[i], to |-> to,
                ask |-> to = "REFUND_PENDING" /\ refund[i] = "NONE"]]
    /\ UNCHANGED <<request, refund, protection, asking>>

\* Mutant of DecideCommit: the request is updated by its id alone.
DecideCommitUnconditional(d, who) ==
    /\ deciding[d].pc = "write"
    /\ LET i == deciding[d].item  to == deciding[d].to IN
        /\ request' = [request EXCEPT ![i] = to]
        /\ refund' = IF deciding[d].ask THEN [refund EXCEPT ![i] = "PENDING"] ELSE refund
        /\ protection' = IF to \in ClosedReturn THEN CaseOutcome(who) ELSE protection
    /\ deciding' = [deciding EXCEPT ![d] = IdleRequest]
    /\ UNCHANGED asking

\* The request moves if it is still as it was read; a closing decision writes
\* its outcome to the case of the order.  At most one refund is asked for.  The
\* responsibility is the decision's, or what an earlier one recorded: any.
DecideCommit(d, who) ==
    /\ deciding[d].pc = "write"
    /\ LET i == deciding[d].item  to == deciding[d].to IN
        /\ request[i] = deciding[d].seen
        /\ deciding[d].ask => refund[i] = "NONE"
        /\ request' = [request EXCEPT ![i] = to]
        /\ refund' = IF deciding[d].ask THEN [refund EXCEPT ![i] = "PENDING"] ELSE refund
        /\ protection' = IF to \in ClosedReturn THEN CaseOutcome(who) ELSE protection
    /\ deciding' = [deciding EXCEPT ![d] = IdleRequest]
    /\ UNCHANGED asking

\* The request has moved meanwhile, the refund exists, or the decision is lost.
DecideRefused(d) ==
    /\ deciding[d].pc = "write"
    /\ deciding' = [deciding EXCEPT ![d] = IdleRequest]
    /\ UNCHANGED <<request, refund, protection, asking>>

\* The provider completes or refuses a refund.
RefundSettles(i) ==
    /\ refund[i] = "PENDING"
    /\ \E outcome \in {"COMPLETED", "FAILED"} :
           refund' = [refund EXCEPT ![i] = outcome]
    /\ UNCHANGED <<request, protection, asking, deciding>>

ReturnsNext ==
    \/ \E b \in Buyings : ReturnRead(b) \/ ReturnCommit(b) \/ ReturnRefused(b)
    \/ \E d \in Deciders :
        \/ DecideRead(d) \/ DecideRefused(d)
        \/ \E who \in Blames : DecideCommit(d, who)
    \/ \E i \in Items : RefundSettles(i)

ReturnsSpec == ReturnsInit /\ [][ReturnsNext]_returnsVars

-------------------------------------------------------------------------------
\* Every variable has its type.
ReturnsTypeOK ==
    /\ request \in [Items -> ReturnStatus \cup {"NONE"}]
    /\ refund \in [Items -> {"NONE", "PENDING", "COMPLETED", "FAILED"}]
    /\ protection \in CaseStatus \cup {"NONE"}
    /\ \A b \in Buyings : asking[b].pc \in {"idle", "write"}
    /\ \A d \in Deciders : deciding[d].pc \in {"idle", "write"}

\* The case of the order never stays open after its last return was closed: no
\* payout is held for ever by two services that passed each other.
OpenCaseHasOpenReturn ==
    protection = "OPEN" => \E i \in Items : request[i] \in OpenReturn

\* Two administrators decide on one return at once: only one of the two counts,
\* and a closed return stays as it is.  A return that waited for a refund is
\* resolved by a refund the provider has completed, whoever else decides
\* meanwhile; and a pending one has its refund.
DecisionsAreFinal ==
    [][\A i \in Items :
          /\ request'[i] # request[i] /\ request[i] # "NONE" =>
                request'[i] \in SUPPLIER_RETURN_TRANSITIONS[request[i]]
          /\ request[i] = "REFUND_PENDING" /\ request'[i] = "RESOLVED" =>
                refund[i] = "COMPLETED"
          /\ request'[i] = "REFUND_PENDING" => refund'[i] # "NONE"]_returnsVars

\* DROPSHIPPING-OPERATIONS.md:186 "The request opens (or reopens) the existing
\* single BuyerProtectionCase for the order": a return that is recorded leaves
\* the case of its order open.
NewReturnOpensCase ==
    [][\A i \in Items : request[i] = "NONE" /\ request'[i] = "REQUESTED" =>
          protection' = "OPEN"]_returnsVars
===============================================================================
