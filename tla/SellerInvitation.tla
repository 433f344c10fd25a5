---------------------------- MODULE SellerInvitation ----------------------------
(***************************************************************************)
(* The one-time invitation of a seller an administrator registered.        *)
(*                                                                         *)
(* Its row holds the hash of the current link, an expiry, a claim and a    *)
(* consumption.  Redeeming a link claims the row, makes the identity at    *)
(* the provider, then links it and consumes the row in one transaction;    *)
(* an administrator may rotate the link meanwhile, and the server may die. *)
(***************************************************************************)
EXTENDS Naturals

CONSTANTS
    Redeemers,   \* bound: activations under way
    Admins,      \* bound: resends under way
    MaxLinks,    \* bound: links ever made
    MaxClaims    \* bound: claims ever made

ASSUME InvitationAssumption == MaxLinks \in Nat \ {0} /\ MaxClaims \in Nat

VARIABLES
    linked,      \* User.authUserId is set
    registered,  \* the provider holds an identity for the email
    invitation,  \* the row
    linksMade,   \* links made so far; link n was handed out n-th
    claims,      \* claims made so far: claimedAt differs from claim to claim
    redeem,
    resend

invitationVars == <<linked, registered, invitation, linksMade, claims, redeem, resend>>

Unclaimed == 0
Invitation ==
    [link : 1 .. MaxLinks, expired : BOOLEAN, claim : 0 .. MaxClaims,
     stale : BOOLEAN, consumed : BOOLEAN]

\* createAdminSellerAccount: the user, the seller and the row, at once.
Fresh(n) == [link |-> n, expired |-> FALSE, claim |-> Unclaimed,
             stale |-> FALSE, consumed |-> FALSE]

InvitationInit ==
    /\ linked = FALSE
    /\ registered = FALSE
    /\ invitation = Fresh(1)
    /\ linksMade = 1
    /\ claims = 0
    /\ redeem = [p \in Redeemers |-> [pc |-> "idle"]]
    /\ resend = [a \in Admins |-> [pc |-> "idle"]]

-------------------------------------------------------------------------------
RedeemAt(p, pc) == redeem[p].pc = pc

RedeemEnds(p) ==
    redeem' = [redeem EXCEPT ![p] = [pc |-> "idle"]]

Open(link) ==
    /\ invitation.link = link
    /\ ~invitation.expired
    /\ invitation.claim = Unclaimed
    /\ ~invitation.consumed

\* The row is found by the hash of the link presented.
FindInvitation(p) ==
    /\ RedeemAt(p, "idle")
    /\ \E n \in 1 .. linksMade :
          /\ Open(n)
          /\ redeem' = [redeem EXCEPT ![p] = [pc |-> "claim", link |-> n]]
    /\ UNCHANGED <<linked, registered, invitation, linksMade, claims, resend>>

\* Mutant of ClaimInvitation: the row is claimed by its id when it is unclaimed.
ClaimInvitationById(p) ==
    /\ RedeemAt(p, "claim")
    /\ IF invitation.claim = Unclaimed
       THEN /\ claims < MaxClaims
            /\ claims' = claims + 1
            /\ invitation' = [invitation EXCEPT !.claim = claims + 1, !.stale = FALSE]
            /\ redeem' = [redeem EXCEPT ![p] =
                  [pc |-> "register", link |-> @.link, claim |-> claims + 1]]
       ELSE RedeemEnds(p) /\ UNCHANGED <<claims, invitation>>
    /\ UNCHANGED <<linked, registered, linksMade, resend>>

\* A conditional update: nobody claimed, rotated or outlived it meanwhile.
ClaimInvitation(p) ==
    /\ RedeemAt(p, "claim")
    /\ IF Open(redeem[p].link)
       THEN /\ claims < MaxClaims
            /\ claims' = claims + 1
            /\ invitation' = [invitation EXCEPT !.claim = claims + 1, !.stale = FALSE]
            /\ redeem' = [redeem EXCEPT ![p] =
                  [pc |-> "register", link |-> @.link, claim |-> claims + 1]]
       ELSE RedeemEnds(p) /\ UNCHANGED <<claims, invitation>>
    /\ UNCHANGED <<linked, registered, linksMade, resend>>

\* providerSignUp: refused when the email has an identity.  An identity may
\* be made although the answer says otherwise.
Register(p) ==
    /\ RedeemAt(p, "register")
    /\ \/ ~registered /\ registered' = TRUE /\ redeem' = [redeem EXCEPT ![p].pc = "link"]
       \/ registered' \in {registered, TRUE} /\ redeem' = [redeem EXCEPT ![p].pc = "release"]
    /\ UNCHANGED <<linked, invitation, linksMade, claims, resend>>

Mine(p) == invitation.claim = redeem[p].claim /\ ~invitation.consumed

\* Mutant of Release: the claim is given back by the row's id alone.
ReleaseUnowned(p) ==
    /\ RedeemAt(p, "release")
    /\ invitation' = [invitation EXCEPT !.claim = Unclaimed]
    /\ RedeemEnds(p)
    /\ UNCHANGED <<linked, registered, linksMade, claims, resend>>

\* No identity: the claim is given back, if it is still this one's.
Release(p) ==
    /\ RedeemAt(p, "release")
    /\ invitation' = IF Mine(p) THEN [invitation EXCEPT !.claim = Unclaimed] ELSE invitation
    /\ RedeemEnds(p)
    /\ UNCHANGED <<linked, registered, linksMade, claims, resend>>

\* One transaction: both updates count one row, or neither is made.
LinkAndConsume(p) ==
    /\ RedeemAt(p, "link")
    /\ IF ~linked /\ Mine(p)
       THEN /\ linked' = TRUE
            /\ invitation' = [invitation EXCEPT !.consumed = TRUE]
       ELSE UNCHANGED <<linked, invitation>>
    /\ RedeemEnds(p)
    /\ UNCHANGED <<registered, linksMade, claims, resend>>

\* The server dies; the claim stays on the row.
Die(p) ==
    /\ redeem[p].pc \in {"claim", "register", "release", "link"}
    /\ RedeemEnds(p)
    /\ UNCHANGED <<linked, registered, invitation, linksMade, claims, resend>>

-------------------------------------------------------------------------------
(* Resending: the administrator reads whether the account is linked, then  *)
(* rotates the link.                                                       *)

ResendRead(a) ==
    /\ resend[a].pc = "idle"
    /\ ~linked
    /\ resend' = [resend EXCEPT ![a] = [pc |-> "rotate"]]
    /\ UNCHANGED <<linked, registered, invitation, linksMade, claims, redeem>>

\* Not while a claim younger than fifteen minutes is on the row.
Rotate(a) ==
    /\ resend[a].pc = "rotate"
    /\ resend' = [resend EXCEPT ![a] = [pc |-> "idle"]]
    /\ IF invitation.claim = Unclaimed \/ invitation.consumed \/ invitation.stale
       THEN /\ linksMade < MaxLinks
            /\ linksMade' = linksMade + 1
            /\ invitation' = Fresh(linksMade + 1)
       ELSE UNCHANGED <<linksMade, invitation>>
    /\ UNCHANGED <<linked, registered, claims, redeem>>

-------------------------------------------------------------------------------
(* Time.                                                                   *)

Expire ==
    /\ ~invitation.expired
    /\ invitation' = [invitation EXCEPT !.expired = TRUE]
    /\ UNCHANGED <<linked, registered, linksMade, claims, redeem, resend>>

\* Fifteen minutes pass over the claim, whether its activation lives or not.
ClaimGrowsStale ==
    /\ invitation.claim # Unclaimed
    /\ ~invitation.stale
    /\ invitation' = [invitation EXCEPT !.stale = TRUE]
    /\ UNCHANGED <<linked, registered, linksMade, claims, redeem, resend>>

-------------------------------------------------------------------------------
InvitationNext ==
    \/ \E p \in Redeemers :
          \/ FindInvitation(p)
          \/ ClaimInvitation(p)
          \/ Register(p)
          \/ Release(p)
          \/ LinkAndConsume(p)
          \/ Die(p)
    \/ \E a \in Admins : ResendRead(a) \/ Rotate(a)
    \/ Expire
    \/ ClaimGrowsStale

InvitationSpec == InvitationInit /\ [][InvitationNext]_invitationVars

-------------------------------------------------------------------------------
InvitationTypeOK ==
    /\ linked \in BOOLEAN /\ registered \in BOOLEAN
    /\ invitation \in Invitation
    /\ linksMade \in 1 .. MaxLinks
    /\ claims \in 0 .. MaxClaims
    /\ invitation.link <= linksMade /\ invitation.claim <= claims
    /\ \A p \in Redeemers :
          \/ RedeemAt(p, "idle")
          \/ RedeemAt(p, "claim") /\ redeem[p].link \in 1 .. linksMade
          \/ /\ redeem[p].pc \in {"register", "release", "link"}
             /\ redeem[p].link \in 1 .. linksMade
             /\ redeem[p].claim \in 1 .. claims
    /\ \A a \in Admins : resend[a].pc \in {"idle", "rotate"}

(***************************************************************************)
(* Only one activation at a time stands on the invitation: whoever holds   *)
(* the claim got it with the link that is current, so a link rotated away  *)
(* can neither go on with, nor give back, the claim of the new one.        *)
(***************************************************************************)
ClaimIsOfCurrentLink ==
    \A p, q \in Redeemers :
        /\ redeem[p].pc \in {"register", "release", "link"}
        /\ Mine(p)
        => /\ redeem[p].link = invitation.link
           /\ q # p /\ redeem[q].pc \in {"register", "release", "link"} => ~Mine(q)

(***************************************************************************)
(* While an activation that holds its claim lives and the claim is young,  *)
(* the claim stays: nobody else may redeem or rotate the invitation under  *)
(* it.  And the account is linked only by consuming the invitation that is *)
(* current: an activation overtaken by a rotation links nothing.           *)
(***************************************************************************)
ClaimIsHonoured ==
    [][/\ \A p \in Redeemers :
            /\ redeem[p].pc \in {"register", "link"}
            /\ redeem'[p] = redeem[p]
            /\ Mine(p)
            /\ ~invitation.stale
            => Mine(p)'
       /\ linked' /\ ~linked => invitation'.consumed /\ invitation'.link = linksMade
      ]_invitationVars
===============================================================================
