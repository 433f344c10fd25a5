---------------------------- MODULE People_proofs -----------------------------
(***************************************************************************)
(* Proofs about the people of the marketplace: an invited seller, the age  *)
(* of a session, accounts and sign-in, the payment page of a buyer, and    *)
(* the recovery of an account. Each part has an inductive invariant of its *)
(* own.                                                                    *)
(***************************************************************************)
EXTENDS SellerInvitation, SessionActivity, Accounts, PaymentScreen, AccountRecovery, TLAPS

-------------------------------------------------------------------------------
(***************************************************************************)
(* An invited seller (SellerInvitation). Whoever holds the invitation is   *)
(* bound to it before the link is spent, and one claim at most is under    *)
(* way for an account.                                                     *)
(***************************************************************************)
Holding == {"register", "release", "link"}

RedeemRecords ==
    {Idle} \cup [pc : {"claim"}, link : 1 .. linksMade]
           \cup [pc : Holding, link : 1 .. linksMade, claim : 1 .. claims]

RowTyped ==
    /\ invitation \in Invitation
    /\ linksMade \in 1 .. MaxLinks /\ claims \in 0 .. MaxClaims
    /\ invitation.link = linksMade
    /\ invitation.claim <= claims

RedeemTyped == redeem \in [Redeemers -> RedeemRecords]

\* No claim was made twice.
ClaimsDiffer ==
    \A p, q \in Redeemers :
        redeem[p].pc \in Holding /\ redeem[q].pc \in Holding /\ p # q =>
            redeem[p].claim # redeem[q].claim

\* The claim on the row was made with the link of the row.
ClaimMatchesLink ==
    \A p \in Redeemers :
        redeem[p].pc \in Holding /\ redeem[p].claim = invitation.claim =>
            redeem[p].link = invitation.link

InvitationInv == RowTyped /\ RedeemTyped /\ ClaimsDiffer /\ ClaimMatchesLink

-------------------------------------------------------------------------------
LEMMA InvitationStart == InvitationInit => InvitationInv
  BY InvitationAssumption
     DEF InvitationInit, InvitationInv, RowTyped, RedeemTyped, RedeemRecords, ClaimsDiffer,
         ClaimMatchesLink, Idle, Holding, Invitation, Fresh, Unclaimed

\* What is known of an activation at its step.
LEMMA AtClaim ==
    ASSUME RedeemTyped, NEW p \in Redeemers, redeem[p].pc = "claim"
    PROVE  redeem[p] \in [pc : {"claim"}, link : 1 .. linksMade]
  BY DEF RedeemTyped, RedeemRecords, Idle, Holding

LEMMA AtHolding ==
    ASSUME RedeemTyped, NEW p \in Redeemers, redeem[p].pc \in Holding
    PROVE  redeem[p] \in [pc : Holding, link : 1 .. linksMade, claim : 1 .. claims]
  BY DEF RedeemTyped, RedeemRecords, Idle, Holding

\* An activation that ends, or starts, holds no claim.
LEMMA NotHolding ==
    ASSUME InvitationInv, NEW p \in Redeemers,
           NEW next \in {Idle} \cup [pc : {"claim"}, link : 1 .. linksMade],
           redeem' = [redeem EXCEPT ![p] = next],
           UNCHANGED <<linksMade, claims>>
    PROVE  /\ RedeemTyped' /\ ClaimsDiffer'
           /\ \A q \in Redeemers : redeem'[q].pc \in Holding => redeem'[q] = redeem[q]
<1>1. next.pc \notin Holding
  BY DEF Idle, Holding
<1>2. next \in RedeemRecords /\ RedeemRecords' = RedeemRecords
  BY DEF RedeemRecords
<1>3. RedeemTyped'
  BY <1>2 DEF InvitationInv, RedeemTyped
<1>4. \A q \in Redeemers : redeem'[q].pc \in Holding => redeem'[q] = redeem[q] /\ q # p
  BY <1>1 DEF InvitationInv, RedeemTyped
<1>. QED
  BY <1>3, <1>4 DEF InvitationInv, ClaimsDiffer

\* The row keeps its link and loses at most its claim.
LinkKept ==
    /\ invitation' \in Invitation
    /\ invitation'.link = invitation.link
    /\ invitation'.claim \in {invitation.claim, Unclaimed}

LEMMA RowStays ==
    ASSUME InvitationInv, LinkKept, UNCHANGED <<linksMade, claims>>,
           RedeemTyped', ClaimsDiffer',
           \A q \in Redeemers : redeem'[q].pc \in Holding => redeem[q].pc \in Holding
              /\ redeem'[q].claim = redeem[q].claim /\ redeem'[q].link = redeem[q].link
    PROVE  InvitationInv'
<1>1. RowTyped'
  BY DEF InvitationInv, RowTyped, LinkKept, Unclaimed
<1>2. \A q \in Redeemers : redeem'[q].pc \in Holding => redeem[q].claim # Unclaimed
  BY AtHolding DEF InvitationInv, Unclaimed, RowTyped
<1>3. ClaimMatchesLink'
  BY <1>2 DEF InvitationInv, ClaimMatchesLink, LinkKept
<1>. QED
  BY <1>1, <1>3 DEF InvitationInv

LEMMA RowSame == ASSUME InvitationInv, UNCHANGED invitation PROVE LinkKept
  BY DEF InvitationInv, RowTyped, LinkKept

LEMMA IdleEnds ==
    ASSUME InvitationInv, NEW p \in Redeemers, RedeemEnds(p), LinkKept,
           UNCHANGED <<linksMade, claims>>
    PROVE  InvitationInv'
  BY NotHolding, RowStays DEF RedeemEnds, Idle

-------------------------------------------------------------------------------
LEMMA FindStep == ASSUME InvitationInv, NEW p \in Redeemers, FindInvitation(p) PROVE InvitationInv'
<1>1. PICK n \in 1 .. linksMade : redeem' = [redeem EXCEPT ![p] = [pc |-> "claim", link |-> n]]
  BY DEF FindInvitation
<1>2. UNCHANGED <<invitation, linksMade, claims>>
  BY DEF FindInvitation
<1>3. [pc |-> "claim", link |-> n] \in [pc : {"claim"}, link : 1 .. linksMade]
  OBVIOUS
<1>. QED
  BY <1>1, <1>2, <1>3, NotHolding, RowSame, RowStays

LEMMA ClaimSet ==
    ASSUME NEW Links, NEW Claims, NEW claim \in Claims,
           NEW row \in [link : Links, expired : BOOLEAN, claim : Claims,
                        stale : BOOLEAN, consumed : BOOLEAN]
    PROVE  [row EXCEPT !.claim = claim, !.stale = FALSE] \in
               [link : Links, expired : BOOLEAN, claim : Claims,
                stale : BOOLEAN, consumed : BOOLEAN]
  OBVIOUS

\* The claim made is larger than any other.
LEMMA ClaimInvitationStep == ASSUME InvitationInv, NEW p \in Redeemers, ClaimInvitation(p) PROVE InvitationInv'
<1>1. redeem[p] \in [pc : {"claim"}, link : 1 .. linksMade] /\ linksMade' = linksMade
  BY AtClaim DEF InvitationInv, ClaimInvitation, RedeemAt
<1>2. CASE ~Open(redeem[p].link)
  BY <1>1, <1>2, RowSame, IdleEnds DEF ClaimInvitation
<1>3. CASE Open(redeem[p].link)
  <2>. DEFINE mine == [pc |-> "register", link |-> redeem[p].link, claim |-> claims + 1]
  <2>1. /\ claims < MaxClaims /\ claims' = claims + 1
        /\ invitation' = [invitation EXCEPT !.claim = claims + 1, !.stale = FALSE]
        /\ redeem' = [redeem EXCEPT ![p] = mine]
        /\ invitation.link = redeem[p].link
    BY <1>3 DEF ClaimInvitation, Open
  <2>2. claims \in Nat /\ MaxClaims \in Nat /\ linksMade \in Nat
    BY InvitationAssumption DEF InvitationInv, RowTyped
  <2>3. /\ invitation'.link = invitation.link /\ invitation'.claim = claims + 1
        /\ invitation' \in Invitation
    <3>1. claims + 1 \in 0 .. MaxClaims
      BY <2>1, <2>2
    <3>2. invitation' \in Invitation
      BY <2>1, <3>1, ClaimSet DEF InvitationInv, RowTyped, Invitation
    <3>. QED
      BY <2>1, <3>2 DEF InvitationInv, RowTyped, Invitation
  <2>4. RowTyped'
    BY <1>1, <2>1, <2>2, <2>3 DEF InvitationInv, RowTyped
  <2>5. mine \in RedeemRecords' /\ RedeemRecords \subseteq RedeemRecords'
    BY <1>1, <2>1, <2>2 DEF RedeemRecords, Holding
  <2>6. redeem'[p] = mine /\ \A q \in Redeemers \ {p} : redeem'[q] = redeem[q]
    BY <2>1 DEF InvitationInv, RedeemTyped
  <2>7. RedeemTyped'
    BY <2>1, <2>5 DEF InvitationInv, RedeemTyped
  <2>8. \A q \in Redeemers \ {p} : redeem'[q].pc \in Holding =>
            redeem[q].pc \in Holding /\ redeem'[q].claim = redeem[q].claim
            /\ redeem[q].claim \in 1 .. claims
    BY <2>6, AtHolding DEF InvitationInv
  <2>9. ClaimsDiffer'
    BY <2>2, <2>6, <2>8 DEF InvitationInv, ClaimsDiffer
  <2>10. ClaimMatchesLink'
    BY <2>1, <2>2, <2>3, <2>6, <2>8 DEF ClaimMatchesLink
  <2>. QED
    BY <2>4, <2>7, <2>9, <2>10 DEF InvitationInv
<1>. QED
  BY <1>2, <1>3

LEMMA RegisterStep == ASSUME InvitationInv, NEW p \in Redeemers, Register(p) PROVE InvitationInv'
<1>1. PICK pc \in {"link", "release"} : redeem' = [redeem EXCEPT ![p].pc = pc]
  BY DEF Register
<1>2. UNCHANGED <<invitation, linksMade, claims>> /\ redeem[p].pc \in Holding
  BY DEF Register, RedeemAt, Holding
<1>3. redeem[p] \in [pc : Holding, link : 1 .. linksMade, claim : 1 .. claims]
  BY <1>2, AtHolding DEF InvitationInv
<1>4. [redeem[p] EXCEPT !.pc = pc] \in [pc : Holding, link : 1 .. linksMade, claim : 1 .. claims]
  BY <1>3 DEF Holding
<1>5. RedeemTyped'
  BY <1>1, <1>2, <1>4 DEF InvitationInv, RedeemTyped, RedeemRecords
<1>6. \A q \in Redeemers : redeem'[q].pc \in Holding =>
          redeem[q].pc \in Holding
          /\ redeem'[q].claim = redeem[q].claim /\ redeem'[q].link = redeem[q].link
  BY <1>1, <1>2, <1>3 DEF InvitationInv, RedeemTyped
<1>7. ClaimsDiffer'
  BY <1>6 DEF InvitationInv, ClaimsDiffer
<1>. QED
  BY <1>2, <1>5, <1>6, <1>7, RowSame, RowStays

LEMMA ReleaseStep == ASSUME InvitationInv, NEW p \in Redeemers, Release(p) PROVE InvitationInv'
<1>1. LinkKept
  <2>1. CASE invitation' = invitation
    BY <2>1, RowSame
  <2>2. CASE invitation' = [invitation EXCEPT !.claim = Unclaimed]
    BY <2>2, InvitationAssumption DEF InvitationInv, RowTyped, LinkKept, Invitation, Unclaimed
  <2>. QED
    BY <2>1, <2>2 DEF Release
<1>. QED
  BY <1>1, IdleEnds DEF Release

LEMMA LinkStep == ASSUME InvitationInv, NEW p \in Redeemers, LinkAndConsume(p) PROVE InvitationInv'
<1>1. LinkKept
  <2>1. CASE invitation' = invitation
    BY <2>1, RowSame
  <2>2. CASE invitation' = [invitation EXCEPT !.consumed = TRUE]
    BY <2>2 DEF InvitationInv, RowTyped, LinkKept, Invitation
  <2>. QED
    BY <2>1, <2>2 DEF LinkAndConsume
<1>. QED
  BY <1>1, IdleEnds DEF LinkAndConsume

LEMMA DieStep == ASSUME InvitationInv, NEW p \in Redeemers, Die(p) PROVE InvitationInv'
  BY RowSame, IdleEnds DEF Die

\* Steps that leave every activation as it is.
LEMMA RowStep ==
    ASSUME InvitationInv, LinkKept, UNCHANGED <<linksMade, claims, redeem>>
    PROVE  InvitationInv'
<1>1. RedeemTyped' /\ ClaimsDiffer'
  BY DEF InvitationInv, RedeemTyped, RedeemRecords, ClaimsDiffer
<1>. QED
  BY <1>1, RowStays

\* A new link takes the claim off the row.
LEMMA RotateStep == ASSUME InvitationInv, NEW a \in Admins, Rotate(a) PROVE InvitationInv'
<1>1. claims' = claims /\ redeem' = redeem
  BY DEF Rotate
<1>2. CASE UNCHANGED <<linksMade, invitation>>
  BY <1>1, <1>2, RowSame, RowStep
<1>3. CASE /\ linksMade < MaxLinks /\ linksMade' = linksMade + 1
           /\ invitation' = Fresh(linksMade + 1)
  <2>1. linksMade \in Nat /\ claims \in Nat /\ MaxClaims \in Nat /\ MaxLinks \in Nat
    BY InvitationAssumption DEF InvitationInv, RowTyped
  <2>2. RowTyped'
    BY <1>1, <1>3, <2>1 DEF InvitationInv, RowTyped, Invitation, Fresh, Unclaimed
  <2>3. RedeemRecords \subseteq RedeemRecords'
    BY <1>1, <1>3, <2>1 DEF RedeemRecords
  <2>4. RedeemTyped'
    BY <1>1, <2>3 DEF InvitationInv, RedeemTyped
  <2>5. \A p \in Redeemers : redeem[p].pc \in Holding => redeem[p].claim # Unclaimed
    BY AtHolding, <2>1 DEF InvitationInv, Unclaimed
  <2>6. ClaimsDiffer' /\ ClaimMatchesLink'
    BY <1>1, <1>3, <2>5 DEF InvitationInv, ClaimsDiffer, ClaimMatchesLink, Fresh
  <2>. QED
    BY <2>2, <2>4, <2>6 DEF InvitationInv
<1>. QED
  BY <1>2, <1>3 DEF Rotate

LEMMA TimeStep == ASSUME InvitationInv, Expire \/ ClaimGrowsStale PROVE InvitationInv'
<1>1. LinkKept
  BY DEF InvitationInv, RowTyped, LinkKept, Invitation, Expire, ClaimGrowsStale
<1>. QED
  BY <1>1, RowStep DEF Expire, ClaimGrowsStale

\* The invariant is inductive.
LEMMA InvitationStep == InvitationInv /\ [InvitationNext]_invitationVars => InvitationInv'
<1>. SUFFICES ASSUME InvitationInv, [InvitationNext]_invitationVars PROVE InvitationInv'
  OBVIOUS
<1>1. CASE UNCHANGED invitationVars
  BY <1>1, RowSame, RowStep DEF invitationVars
<1>2. ASSUME NEW a \in Admins, ResendRead(a) PROVE InvitationInv'
  BY <1>2, RowSame, RowStep DEF ResendRead
<1>. QED
  BY <1>1, <1>2, FindStep, ClaimInvitationStep, RegisterStep, ReleaseStep, LinkStep, DieStep, RotateStep,
     TimeStep DEF InvitationNext

(***************************************************************************)
(* The inductive invariant: claims differ, the claim on the row was made   *)
(* with the link of the row, and that link is the latest one.              *)
(***************************************************************************)
THEOREM InvitationInvariant == InvitationSpec => []InvitationInv
  BY InvitationStart, InvitationStep, PTL DEF InvitationSpec

(***************************************************************************)
(* At most one activation stands on the invitation, and with the link that *)
(* is current (seller-invitation-service.ts, claimInvitation).             *)
(***************************************************************************)
THEOREM OneClaimant == InvitationSpec => []ClaimIsOfCurrentLink
<1>1. InvitationInv => ClaimIsOfCurrentLink
  BY DEF InvitationInv, ClaimsDiffer, ClaimMatchesLink, ClaimIsOfCurrentLink, Mine, Holding
<1>. QED
  BY InvitationInvariant, <1>1, PTL

(***************************************************************************)
(* A young claim stays while its activation lives, and the account is      *)
(* linked by consuming the current invitation alone.                       *)
(***************************************************************************)
THEOREM ClaimHonoured == InvitationSpec => ClaimIsHonoured
<1>. DEFINE Kept(p) ==
              /\ redeem[p].pc \in {"register", "link"}
              /\ redeem'[p] = redeem[p]
              /\ Mine(p)
              /\ ~invitation.stale
              => Mine(p)'
            LinkedRightly ==
              linked' /\ ~linked => invitation'.consumed /\ invitation'.link = linksMade
<1>1. ASSUME InvitationInv, InvitationNext, NEW p \in Redeemers,
             redeem[p].pc \in {"register", "link"}, redeem'[p] = redeem[p],
             Mine(p), ~invitation.stale
      PROVE  Mine(p)'
  <2>1. /\ redeem[p].pc \in Holding /\ redeem[p].claim # Unclaimed
        /\ invitation.claim = redeem[p].claim /\ ~invitation.consumed
    BY <1>1, AtHolding DEF InvitationInv, RowTyped, Holding, Mine, Unclaimed
  <2>2. ASSUME NEW q \in Redeemers, redeem[q].pc \in Holding, Mine(q) PROVE q = p
    BY <1>1, <2>1, <2>2 DEF InvitationInv, ClaimsDiffer, Mine
  <2>3. redeem'[p].pc # "idle"
    BY <1>1
  <2>4. invitation' = invitation => Mine(p)'
    BY <1>1 DEF Mine
  <2>5. ASSUME NEW q \in Redeemers,
               FindInvitation(q) \/ ClaimInvitation(q) \/ Register(q) \/ Die(q)
        PROVE  invitation' = invitation
    BY <2>1, <2>5 DEF FindInvitation, ClaimInvitation, Register, Die, Open
  <2>6. ASSUME NEW q \in Redeemers, Release(q) \/ LinkAndConsume(q) PROVE invitation' = invitation
    <3>1. CASE Mine(q)
      <4>1. q = p
        BY <2>2, <2>6, <3>1 DEF Release, LinkAndConsume, RedeemAt, Holding
      <4>. QED
        BY <1>1, <2>3, <2>6, <4>1 DEF Release, LinkAndConsume, RedeemEnds, InvitationInv, RedeemTyped
    <3>2. CASE ~Mine(q)
      BY <2>6, <3>2 DEF Release, LinkAndConsume
    <3>. QED
      BY <3>1, <3>2
  <2>7. ASSUME NEW a \in Admins, ResendRead(a) \/ Rotate(a) PROVE invitation' = invitation
    BY <1>1, <2>1, <2>7 DEF ResendRead, Rotate
  <2>8. ASSUME Expire \/ ClaimGrowsStale PROVE Mine(p)'
    <3>1. invitation'.claim = invitation.claim /\ invitation'.consumed = invitation.consumed
      BY <1>1, <2>8 DEF InvitationInv, RowTyped, Invitation, Expire, ClaimGrowsStale
    <3>. QED
      BY <1>1, <3>1 DEF Mine
  <2>. QED
    BY <1>1, <2>4, <2>5, <2>6, <2>7, <2>8 DEF InvitationNext
<1>2. ASSUME InvitationInv, InvitationNext PROVE LinkedRightly
  <2>1. ASSUME NEW p \in Redeemers, LinkAndConsume(p), linked' # linked
        PROVE  invitation'.consumed /\ invitation'.link = linksMade
    <3>1. invitation' = [invitation EXCEPT !.consumed = TRUE]
      BY <2>1 DEF LinkAndConsume
    <3>. QED
      BY <1>2, <3>1 DEF InvitationInv, RowTyped, Invitation
  <2>2. ASSUME NEW p \in Redeemers,
               FindInvitation(p) \/ ClaimInvitation(p) \/ Register(p) \/ Release(p) \/ Die(p)
        PROVE  linked' = linked
    BY <2>2 DEF FindInvitation, ClaimInvitation, Register, Release, Die
  <2>3. ASSUME NEW a \in Admins, ResendRead(a) \/ Rotate(a) PROVE linked' = linked
    BY <2>3 DEF ResendRead, Rotate
  <2>4. ASSUME Expire \/ ClaimGrowsStale PROVE linked' = linked
    BY <2>4 DEF Expire, ClaimGrowsStale
  <2>. QED
    BY <1>2, <2>1, <2>2, <2>3, <2>4 DEF InvitationNext
<1>3. InvitationInv /\ [InvitationNext]_invitationVars =>
        [(\A p \in Redeemers : Kept(p)) /\ LinkedRightly]_invitationVars
  BY <1>1, <1>2
<1>. QED
  BY InvitationInvariant, <1>3, PTL DEF InvitationSpec, ClaimIsHonoured

\* Who has registered and who resends, besides the row and its activations.
RegistrationTyped ==
    /\ linked \in BOOLEAN /\ registered \in BOOLEAN
    /\ resend \in [Admins -> [pc : {"idle", "rotate"}]]

LEMMA RegistrationStart == InvitationInit => RegistrationTyped
<1>. SUFFICES ASSUME InvitationInit PROVE RegistrationTyped
  OBVIOUS
<1>1. linked \in BOOLEAN /\ registered \in BOOLEAN
  BY DEF InvitationInit
<1>2. resend \in [Admins -> [pc : {"idle", "rotate"}]]
  BY DEF InvitationInit
<1>. QED
  BY <1>1, <1>2 DEF RegistrationTyped

LEMMA RegistrationStep ==
    RegistrationTyped /\ [InvitationNext]_invitationVars => RegistrationTyped'
<1>. SUFFICES ASSUME RegistrationTyped, [InvitationNext]_invitationVars PROVE RegistrationTyped'
  OBVIOUS
<1>1. CASE UNCHANGED invitationVars
  BY <1>1 DEF RegistrationTyped, invitationVars
<1>2. ASSUME NEW p \in Redeemers,
             \/ FindInvitation(p) \/ ClaimInvitation(p) \/ Register(p)
             \/ Release(p) \/ LinkAndConsume(p) \/ Die(p)
      PROVE  RegistrationTyped'
  BY <1>2 DEF RegistrationTyped, FindInvitation, ClaimInvitation, Register, Release, LinkAndConsume, Die
<1>3. ASSUME NEW a \in Admins, ResendRead(a) \/ Rotate(a) PROVE RegistrationTyped'
  BY <1>3 DEF RegistrationTyped, ResendRead, Rotate
<1>4. CASE Expire \/ ClaimGrowsStale
  BY <1>4 DEF RegistrationTyped, Expire, ClaimGrowsStale
<1>. QED
  BY <1>1, <1>2, <1>3, <1>4 DEF InvitationNext

\* Every variable of an invitation has its type.
THEOREM InvitationTyped == InvitationSpec => []InvitationTypeOK
<1>1. InvitationInv /\ RegistrationTyped => InvitationTypeOK
  <2>. SUFFICES ASSUME InvitationInv, RegistrationTyped PROVE InvitationTypeOK
    OBVIOUS
  <2>1. linksMade \in 1 .. MaxLinks /\ invitation.link <= linksMade
    BY InvitationAssumption DEF InvitationInv, RowTyped
  <2>2. ASSUME NEW p \in Redeemers
        PROVE  \/ RedeemAt(p, "idle")
               \/ RedeemAt(p, "claim") /\ redeem[p].link \in 1 .. linksMade
               \/ /\ redeem[p].pc \in {"register", "release", "link"}
                  /\ redeem[p].link \in 1 .. linksMade
                  /\ redeem[p].claim \in 1 .. claims
    <3>1. redeem[p] \in RedeemRecords
      BY DEF InvitationInv, RedeemTyped
    <3>. QED
      BY <3>1 DEF RedeemRecords, Idle, Holding, RedeemAt
  <2>3. \A a \in Admins : resend[a].pc \in {"idle", "rotate"}
    BY DEF RegistrationTyped
  <2>. QED
    BY <2>1, <2>2, <2>3 DEF InvitationInv, RowTyped, RegistrationTyped, InvitationTypeOK
<1>. QED
  BY InvitationInvariant, RegistrationStart, RegistrationStep, <1>1, PTL DEF InvitationSpec

-------------------------------------------------------------------------------
(***************************************************************************)
(* The record of activity of a session (SessionActivity). What is recorded *)
(* was true when it was read, and clocks do not run back.                  *)
(***************************************************************************)
\* A request about to write read an older record than its own time.
WritesForward == \A v \in Visits : visit[v].pc = "write" => visit[v].last < visit[v].now

VisitsTyped ==
    visit \in [Visits -> {Away} \cup [pc : {"read", "create"}, now : 0 .. clock]
                                \cup [pc : {"write"}, now : 0 .. clock, last : 0 .. clock]]

ActivityInv ==
    /\ clock \in 0 .. MaxTime
    /\ activity \in 0 .. clock \/ activity = NoRecord
    /\ admitted \in 0 .. clock
    /\ VisitsTyped /\ WritesForward

LEMMA ActivityStart == ActivityInit => ActivityInv
  BY ActivityAssumption DEF ActivityInit, ActivityInv, VisitsTyped, WritesForward, Away

LEMMA TickStep == ASSUME ActivityInv, Tick PROVE ActivityInv'
<1>1. clock' \in 0 .. MaxTime /\ 0 .. clock \subseteq 0 .. clock'
  BY ActivityAssumption DEF ActivityInv, Tick
<1>2. VisitsTyped'
  BY <1>1 DEF ActivityInv, Tick, VisitsTyped
<1>. QED
  BY <1>1, <1>2 DEF ActivityInv, Tick, WritesForward, NoRecord

\* A request that goes away, to "read" or to "create".
LEMMA VisitMoves ==
    ASSUME ActivityInv, NEW v \in Visits,
           NEW next \in {Away} \cup [pc : {"read", "create"}, now : 0 .. clock],
           visit' = [visit EXCEPT ![v] = next], clock' = clock
    PROVE  VisitsTyped' /\ WritesForward'
<1>1. next.pc # "write"
  BY DEF Away
<1>2. VisitsTyped'
  BY DEF ActivityInv, VisitsTyped
<1>3. ASSUME NEW w \in Visits, visit'[w].pc = "write" PROVE visit'[w] = visit[w]
  BY <1>1, <1>3 DEF ActivityInv, VisitsTyped
<1>. QED
  BY <1>2, <1>3 DEF ActivityInv, WritesForward

LEMMA AdmitTyped ==
    ASSUME ActivityInv, NEW now \in 0 .. clock, AdmitAt(now)
    PROVE  admitted' \in now .. clock
  BY ActivityAssumption DEF ActivityInv, AdmitAt

LEMMA ArriveStep == ASSUME ActivityInv, NEW v \in Visits, Arrive(v) PROVE ActivityInv'
<1>1. [pc |-> "read", now |-> clock] \in [pc : {"read", "create"}, now : 0 .. clock]
  BY ActivityAssumption DEF ActivityInv
<1>2. VisitsTyped' /\ WritesForward'
  BY <1>1, VisitMoves DEF Arrive
<1>. QED
  BY <1>2 DEF ActivityInv, Arrive, NoRecord

LEMMA ReadActivityStep == ASSUME ActivityInv, NEW v \in Visits, ReadActivity(v) PROVE ActivityInv'
<1>1. visit[v] \in [pc : {"read"}, now : 0 .. clock] /\ clock' = clock /\ activity' = activity
  BY DEF ActivityInv, VisitsTyped, ReadActivity, Away
<1>2. CASE visit' = [visit EXCEPT ![v].pc = "create"] /\ admitted' = admitted
  <2>1. VisitsTyped' /\ WritesForward'
    BY <1>1, <1>2, VisitMoves
  <2>. QED
    BY <1>1, <1>2, <2>1 DEF ActivityInv, NoRecord
<1>3. CASE Leaves(v) /\ (admitted' = admitted \/ AdmitAt(visit[v].now))
  <2>1. VisitsTyped' /\ WritesForward'
    BY <1>1, <1>3, VisitMoves DEF Leaves
  <2>2. admitted' \in 0 .. clock
    BY <1>1, <1>3, AdmitTyped DEF ActivityInv
  <2>. QED
    BY <1>1, <2>1, <2>2 DEF ActivityInv, NoRecord
<1>4. CASE /\ activity < visit[v].now
           /\ ActivityAge(v, activity) \in WriteInterval .. IdleTimeout - 1
           /\ visit' = [visit EXCEPT ![v] = [pc |-> "write", now |-> @.now, last |-> activity]]
           /\ admitted' = admitted
  <2>1. activity \in 0 .. clock
    BY <1>1, <1>4, ActivityAssumption DEF ActivityInv, NoRecord
  <2>2. VisitsTyped' /\ WritesForward'
    BY <1>1, <1>4, <2>1 DEF ActivityInv, VisitsTyped, WritesForward, Away
  <2>. QED
    BY <1>1, <1>4, <2>2 DEF ActivityInv, NoRecord
<1>. QED
  BY <1>2, <1>3, <1>4 DEF ReadActivity

\* The two ways the record changes, each honest.
LEMMA CreateStep ==
    ASSUME ActivityInv, NEW v \in Visits, CreateActivity(v)
    PROVE  /\ ActivityInv'
           /\ activity' # activity => activity = NoRecord /\ activity' \in 0 .. admitted'
<1>1. visit[v] \in [pc : {"create"}, now : 0 .. clock] /\ clock' = clock
  BY DEF ActivityInv, VisitsTyped, CreateActivity, Away
<1>2. CASE activity = NoRecord
  <2>1. VisitsTyped' /\ WritesForward'
    BY <1>1, <1>2, VisitMoves DEF CreateActivity, Leaves
  <2>2. admitted' \in visit[v].now .. clock /\ activity' = visit[v].now
    BY <1>1, <1>2, AdmitTyped DEF CreateActivity
  <2>. QED
    BY <1>1, <1>2, <2>1, <2>2 DEF ActivityInv, NoRecord
<1>3. CASE activity # NoRecord
  <2>1. VisitsTyped' /\ WritesForward'
    BY <1>1, <1>3, VisitMoves DEF CreateActivity
  <2>. QED
    BY <1>1, <1>3, <2>1 DEF ActivityInv, NoRecord, CreateActivity
<1>. QED
  BY <1>2, <1>3

LEMMA WriteActivityStep ==
    ASSUME ActivityInv, NEW v \in Visits, WriteActivity(v)
    PROVE  /\ ActivityInv'
           /\ activity' # activity => activity' > activity /\ activity' \in 0 .. admitted'
<1>1. /\ visit[v] \in [pc : {"write"}, now : 0 .. clock, last : 0 .. clock]
      /\ visit[v].last < visit[v].now /\ clock' = clock
  BY DEF ActivityInv, VisitsTyped, WritesForward, WriteActivity, Away
<1>2. VisitsTyped' /\ WritesForward'
  BY <1>1, VisitMoves DEF WriteActivity, Leaves
<1>3. admitted' \in visit[v].now .. clock
  BY <1>1, AdmitTyped DEF WriteActivity
<1>4. activity' = IF activity = visit[v].last THEN visit[v].now ELSE activity
  BY DEF WriteActivity
<1>. QED
  BY <1>1, <1>2, <1>3, <1>4, ActivityAssumption DEF ActivityInv, NoRecord

\* The invariant is inductive.
LEMMA ActivityStep == ActivityInv /\ [ActivityNext]_activityVars => ActivityInv'
<1>1. ActivityInv /\ UNCHANGED activityVars => ActivityInv'
  BY DEF activityVars, ActivityInv, VisitsTyped, WritesForward, NoRecord
<1>. QED
  BY <1>1, TickStep, ArriveStep, ReadActivityStep, CreateStep, WriteActivityStep DEF ActivityNext

(***************************************************************************)
(* The inductive invariant: types, and that a request about to write read  *)
(* a record older than its own time.                                       *)
(***************************************************************************)
THEOREM ActivityInvariant == ActivitySpec => []ActivityInv
  BY ActivityStart, ActivityStep, PTL DEF ActivitySpec

(***************************************************************************)
(* However late an overtaken request writes, the record of a session moves *)
(* forward only, and never beyond the latest request that was let in       *)
(* (session-activity.ts).                                                  *)
(***************************************************************************)
THEOREM RecordHonest == ActivitySpec => RecordIsHonest
<1>. DEFINE Honest == activity' # activity =>
                          /\ activity # NoRecord => activity' > activity
                          /\ activity' \in 0 .. admitted'
<1>1. ActivityInv /\ [ActivityNext]_activityVars => [Honest]_activityVars
  <2>. SUFFICES ASSUME ActivityInv, ActivityNext PROVE Honest
    OBVIOUS
  <2>1. ASSUME Tick \/ \E v \in Visits : Arrive(v) \/ ReadActivity(v) PROVE activity' = activity
    BY <2>1 DEF Tick, Arrive, ReadActivity
  <2>. QED
    BY <2>1, CreateStep, WriteActivityStep DEF ActivityNext
<1>. QED
  BY ActivityInvariant, <1>1, PTL DEF ActivitySpec, RecordIsHonest

\* No record of a session lies in the future, nor does what a request has read.
THEOREM ActivityTyped == ActivitySpec => []ActivityTypeOK
<1>1. ActivityInv => ActivityTypeOK
  <2>. SUFFICES ASSUME ActivityInv PROVE ActivityTypeOK
    OBVIOUS
  <2>1. ASSUME NEW v \in Visits
        PROVE  \/ visit[v] = Away
               \/ visit[v].pc \in {"read", "create"} /\ visit[v].now \in 0 .. clock
               \/ /\ visit[v].pc = "write"
                  /\ visit[v].now \in 0 .. clock
                  /\ visit[v].last \in 0 .. clock
    BY DEF ActivityInv, VisitsTyped
  <2>. QED
    BY <2>1 DEF ActivityInv, ActivityTypeOK
<1>. QED
  BY <1>1, ActivityInvariant, PTL

-------------------------------------------------------------------------------
(***************************************************************************)
(* Accounts and sign-in (Accounts). Once a row is there it stays, and once *)
(* it is onboarded it stays so: what a request found is still true when it *)
(* writes.                                                                 *)
(***************************************************************************)
RequestKinds == {"sign-up", "sign-in", "page", "action", "profile"}
AskStages == {"find", "byEmail", "claim", "create", "fill", "state", "clear", "access", "save"}
AskRecords == [pc : AskStages, kind : RequestKinds, who : Identities, had : BOOLEAN]
AnswerRecords == [pc : {"answered"}, kind : RequestKinds, who : Identities, had : BOOLEAN,
                  answer : {"complete", "dashboard", "refused", "unavailable", "banned", "served"}]

UserRows == [auth : Identities \cup {NoIdentity}, profile : BOOLEAN, onboarded : BOOLEAN,
         role : Role, shop : BOOLEAN, banned : BOOLEAN]

\* What is known of a request: past the claim there is a row, only a profile
\* form saves one, and a sign-in that answers "dashboard" read an onboarded row.
RequestOK(q) ==
    \/ q = Idle
    \/ /\ q \in AskRecords \cup AnswerRecords
       /\ q.who \in known
       /\ q.pc \in {"claim", "fill", "state"} => Exists
       /\ q.pc = "save" => q.kind = "profile"
       /\ q.pc = "answered" /\ q.kind = "sign-in" /\ q.answer = "dashboard"
            => Exists /\ user.onboarded

RequestsOK ==
    /\ request = [r \in Requests |-> request[r]]
    /\ \A r \in Requests : RequestOK(request[r])

WorldTyped ==
    /\ user \in User
    /\ identity \in known \cup {NoIdentity}
    /\ known \subseteq Identities
    /\ session \in [Identities -> {"none", "live"}]
    /\ links \in BOOLEAN
    /\ made \in 0 .. MaxRequests

SessionsKnown == \A i \in Identities : session[i] = "live" => i \in known

AccountInv == WorldTyped /\ SessionsKnown /\ RequestsOK /\ SellerHasShop

-------------------------------------------------------------------------------
LEMMA RowOrNone == ASSUME WorldTyped PROVE Exists <=> user \in UserRows
<1>1. user \in {NoUser} \cup UserRows
  BY DEF WorldTyped, User, UserRows
<1>2. NoUser \notin UserRows
  BY DEF NoUser, UserRows
<1> QED
  BY <1>1, <1>2 DEF Exists

\* Identities are only added, the row never goes, and stays onboarded.
RowGoesOn ==
    /\ known \subseteq known'
    /\ Exists => Exists'
    /\ Exists /\ user.onboarded => user'.onboarded

LEMMA RequestStays == ASSUME NEW q, RequestOK(q), RowGoesOn PROVE RequestOK(q)'
<1>1. CASE q = Idle
  BY <1>1 DEF RequestOK
<1>2. CASE q # Idle
  BY <1>2 DEF RequestOK, RowGoesOn
<1> QED
  BY <1>1, <1>2

LEMMA OneAccountRequest ==
    ASSUME RequestsOK, RowGoesOn, NEW r \in Requests, NEW q, RequestOK(q)',
           request' = [request EXCEPT ![r] = q]
    PROVE  RequestsOK'
<1>1. request' = [s \in Requests |-> request'[s]]
  BY DEF RequestsOK
<1>2. ASSUME NEW s \in Requests PROVE RequestOK(request[s])'
  <2>1. CASE s = r
    <3>1. request'[s] = q
      BY <2>1 DEF RequestsOK
    <3> QED
      BY <3>1 DEF RequestOK
  <2>2. CASE s # r
    <3>1. request'[s] = request[s]
      BY <2>2 DEF RequestsOK
    <3>2. PICK p : p = request[s]
      OBVIOUS
    <3>3. RequestOK(p)'
      BY <3>2, RequestStays DEF RequestsOK
    <3> QED
      BY <3>1, <3>2, <3>3 DEF RequestOK
  <2> QED
    BY <2>1, <2>2
<1> QED
  BY <1>1, <1>2 DEF RequestsOK

LEMMA NotAsking ==
    ASSUME RequestsOK, RowGoesOn, UNCHANGED request PROVE RequestsOK'
<1>1. request' = [s \in Requests |-> request'[s]]
  BY DEF RequestsOK
<1>2. ASSUME NEW s \in Requests PROVE RequestOK(request[s])'
  <2>1. PICK p : p = request[s]
    OBVIOUS
  <2>2. RequestOK(p)'
    BY <2>1, RequestStays DEF RequestsOK
  <2> QED
    BY <2>1, <2>2 DEF RequestOK
<1> QED
  BY <1>1, <1>2 DEF RequestsOK

\* A request that is under way.
LEMMA Asking ==
    ASSUME RequestsOK, NEW r \in Requests, NEW pc \in AskStages, At(r, pc)
    PROVE  /\ request[r] \in AskRecords
           /\ request[r].pc = pc
           /\ request[r].who \in known
           /\ pc \in {"claim", "fill", "state"} => Exists
           /\ pc = "save" => request[r].kind = "profile"
<1>1. RequestOK(request[r]) /\ request[r].pc = pc
  BY DEF RequestsOK, At
<1>2. request[r] # Idle
  <2>1. Idle.pc = "idle"
    BY DEF Idle
  <2> QED
    BY <1>1, <2>1 DEF AskStages
<1>3. request[r] \notin AnswerRecords
  BY <1>1 DEF AnswerRecords, AskStages
<1> QED
  BY <1>1, <1>2, <1>3 DEF RequestOK

\* It moves on to a step that needs no more than it has.
LEMMA GotoKeeps ==
    ASSUME RequestsOK, RowGoesOn, NEW r \in Requests, request[r] \in AskRecords,
           request[r].who \in known,
           NEW pc \in AskStages, Goto(r, pc),
           pc \in {"claim", "fill", "state"} => Exists',
           pc = "save" => request[r].kind = "profile"
    PROVE  RequestsOK'
<1>1. PICK q : q = [request[r] EXCEPT !.pc = pc]
  OBVIOUS
<1>2. q \in AskRecords /\ q.pc = pc /\ q.kind = request[r].kind /\ q.who = request[r].who
  BY <1>1 DEF AskRecords
<1>3. pc # "answered"
  BY DEF AskStages
<1>4. RequestOK(q)'
  BY <1>2, <1>3 DEF RequestOK, RowGoesOn
<1>5. request' = [request EXCEPT ![r] = q]
  BY <1>1 DEF Goto, RequestsOK
<1> QED
  BY <1>4, <1>5, OneAccountRequest

LEMMA AnswerKeeps ==
    ASSUME RequestsOK, RowGoesOn, NEW r \in Requests, request[r] \in AskRecords,
           request[r].who \in known,
           NEW a \in {"complete", "dashboard", "refused", "unavailable", "banned", "served"},
           Answer(r, a),
           a = "dashboard" /\ request[r].kind = "sign-in" => Exists' /\ user'.onboarded
    PROVE  RequestsOK'
<1>1. PICK q : q = [pc |-> "answered", kind |-> request[r].kind, who |-> request[r].who,
                    had |-> request[r].had, answer |-> a]
  OBVIOUS
<1>2. q \in AnswerRecords /\ q.pc = "answered" /\ q.kind = request[r].kind
      /\ q.who = request[r].who /\ q.answer = a
  BY <1>1 DEF AskRecords, AnswerRecords
<1>4. RequestOK(q)'
  BY <1>2 DEF RequestOK, RowGoesOn
<1>5. request' = [request EXCEPT ![r] = q]
  BY <1>1 DEF Answer, RequestsOK
<1> QED
  BY <1>4, <1>5, OneAccountRequest

LEMMA BeginKeeps ==
    ASSUME RequestsOK, RowGoesOn, WorldTyped, NEW r \in Requests, NEW kind \in RequestKinds,
           NEW i \in Identities, NEW pc \in {"find", "access"}, Begin(r, kind, i, pc), i \in known'
    PROVE  RequestsOK' /\ made' \in 0 .. MaxRequests
<1>0. PICK h \in BOOLEAN : h = Onboarded(i)
  BY DEF Onboarded
<1>1. PICK q : q = [pc |-> pc, kind |-> kind, who |-> i, had |-> h]
  OBVIOUS
<1>2. q \in AskRecords /\ q.pc = pc /\ q.who = i
  BY <1>1 DEF AskRecords, AskStages
<1>4. RequestOK(q)'
  BY <1>2 DEF RequestOK
<1>5. request' = [request EXCEPT ![r] = q]
  BY <1>0, <1>1 DEF Begin
<1>6. made' \in 0 .. MaxRequests
  BY AccountAssumption DEF Begin, WorldTyped
<1> QED
  BY <1>4, <1>5, <1>6, OneAccountRequest

-------------------------------------------------------------------------------
LEMMA RowRests == ASSUME UNCHANGED <<user, known>> PROVE RowGoesOn
BY DEF RowGoesOn, Exists

LEMMA AccountStart == AccountInit => AccountInv
<1> SUFFICES ASSUME AccountInit PROVE AccountInv
  OBVIOUS
<1>1. user \in User /\ SellerHasShop
  BY DEF AccountInit, User, NewRow, Role, SellerHasShop, Exists
<1>2. WorldTyped /\ SessionsKnown
  BY <1>1, AccountAssumption DEF AccountInit, WorldTyped, SessionsKnown
<1>3. RequestsOK
  BY DEF AccountInit, RequestsOK, RequestOK
<1> QED
  BY <1>1, <1>2, <1>3 DEF AccountInv

\* Steps that leave the row, the identities and the sessions alone.
Resting == UNCHANGED <<user, identity, known, session, links, made>>

LEMMA RestingKeeps ==
    ASSUME AccountInv, Resting, RequestsOK' PROVE AccountInv'
BY DEF AccountInv, Resting, WorldTyped, SessionsKnown, SellerHasShop, Exists

LEMMA SignUpStep == ASSUME AccountInv, NEW r \in Requests, SignUp(r) PROVE AccountInv'
<1>0. WorldTyped /\ SessionsKnown /\ RequestsOK /\ SellerHasShop
  BY DEF AccountInv
<1>1. PICK i \in Identities \ known :
          /\ identity' = i
          /\ known' = known \cup {i}
          /\ session' \in {session, [session EXCEPT ![i] = "live"]}
          /\ Begin(r, "sign-up", i, "find")
  BY DEF SignUp
<1>2. RowGoesOn /\ user' = user /\ links' = links
  BY <1>1 DEF RowGoesOn, SignUp, Exists
<1>3. RequestsOK' /\ made' \in 0 .. MaxRequests
  BY <1>0, <1>1, <1>2, BeginKeeps DEF RequestKinds
<1>4. session' \in [Identities -> {"none", "live"}] /\ SessionsKnown'
  BY <1>0, <1>1 DEF WorldTyped, SessionsKnown
<1>5. WorldTyped'
  BY <1>0, <1>1, <1>2, <1>3, <1>4 DEF WorldTyped
<1> QED
  BY <1>0, <1>2, <1>3, <1>4, <1>5 DEF AccountInv, SellerHasShop, Exists

LEMMA SignInStep == ASSUME AccountInv, NEW r \in Requests, SignIn(r) PROVE AccountInv'
<1>0. WorldTyped /\ SessionsKnown /\ RequestsOK /\ SellerHasShop
  BY DEF AccountInv
<1>1. identity \in Identities /\ identity \in known
  BY <1>0 DEF SignIn, WorldTyped
<1>2. RowGoesOn
  BY RowRests DEF SignIn
<1>3. RequestsOK' /\ made' \in 0 .. MaxRequests
  BY <1>0, <1>1, <1>2, BeginKeeps DEF RequestKinds, SignIn
<1>4. session' \in [Identities -> {"none", "live"}] /\ SessionsKnown'
  BY <1>0, <1>1 DEF WorldTyped, SessionsKnown, SignIn
<1>5. WorldTyped'
  BY <1>0, <1>3, <1>4 DEF WorldTyped, SignIn
<1> QED
  BY <1>0, <1>3, <1>4, <1>5 DEF AccountInv, SellerHasShop, Exists, SignIn

LEMMA GuardedStep ==
    ASSUME AccountInv, NEW r \in Requests, NEW kind \in {"page", "action", "profile"},
           NEW i \in Identities, Guarded(r, kind, i)
    PROVE  AccountInv'
<1>0. WorldTyped /\ SessionsKnown /\ RequestsOK /\ SellerHasShop
  BY DEF AccountInv
<1>1. i \in known /\ known' = known
  BY <1>0 DEF Guarded, SessionsKnown
<1>2. RowGoesOn
  BY RowRests DEF Guarded
<1>3. RequestsOK' /\ made' \in 0 .. MaxRequests
  BY <1>0, <1>1, <1>2, BeginKeeps DEF RequestKinds, Guarded
<1>4. WorldTyped' /\ SessionsKnown'
  BY <1>0, <1>3 DEF WorldTyped, Guarded, SessionsKnown
<1> QED
  BY <1>0, <1>3, <1>4 DEF AccountInv, SellerHasShop, Exists, Guarded

LEMMA UnprovisionedKeeps ==
    ASSUME RequestsOK, RowGoesOn, NEW r \in Requests, request[r] \in AskRecords,
           request[r].who \in known, Unprovisioned(r)
    PROVE  RequestsOK'
<1>1. CASE request[r].kind = "sign-in"
  BY <1>1, GotoKeeps DEF Unprovisioned, AskStages
<1>2. CASE request[r].kind # "sign-in"
  BY <1>2, AnswerKeeps DEF Unprovisioned
<1> QED
  BY <1>1, <1>2

\* Steps that only ask or only answer.
LEMMA AccountQuietSteps ==
    ASSUME AccountInv, NEW r \in Requests,
           ProvisionFails(r) \/ FindMapped(r) \/ FindByEmail(r) \/ ReadState(r)
           \/ AccessFails(r) \/ ReadAccess(r) \/ MaySave(r) \/ SaveFails(r)
    PROVE  AccountInv'
<1>0. WorldTyped /\ SessionsKnown /\ RequestsOK /\ SellerHasShop
  BY DEF AccountInv
<1>1. Resting
  BY DEF ProvisionFails, FindMapped, FindByEmail, ReadState, AccessFails, ReadAccess, MaySave,
         SaveFails, Resting
<1>2. RowGoesOn /\ (Exists => Exists') /\ user' = user
  BY <1>1, RowRests DEF Resting, Exists
<1>3. PICK pc \in AskStages : At(r, pc)
  BY DEF ProvisionFails, FindMapped, FindByEmail, ReadState, AccessFails, ReadAccess, MaySave,
         SaveFails, AskStages
<1>4. request[r] \in AskRecords /\ request[r].who \in known
  BY <1>0, <1>3, Asking
<1>5. RequestsOK'
  <2>1. CASE ProvisionFails(r)
    BY <1>0, <1>2, <1>4, <2>1, UnprovisionedKeeps DEF ProvisionFails
  <2>2. CASE FindMapped(r)
    <3>1. CASE MappedTo(request[r].who)
      BY <1>0, <1>2, <1>4, <2>2, <3>1, GotoKeeps DEF FindMapped, AskStages, MappedTo
    <3>2. CASE ~MappedTo(request[r].who)
      BY <1>0, <1>2, <1>4, <2>2, <3>2, GotoKeeps DEF FindMapped, AskStages
    <3> QED
      BY <3>1, <3>2
  <2>3. CASE FindByEmail(r)
    <3>1. CASE Goto(r, "create")
      BY <1>0, <1>2, <1>4, <3>1, GotoKeeps DEF AskStages
    <3>2. CASE MappedTo(NoIdentity) /\ Goto(r, "claim")
      BY <1>0, <1>2, <1>4, <3>2, GotoKeeps DEF AskStages, MappedTo
    <3> QED
      BY <2>3, <3>1, <3>2 DEF FindByEmail
  <2>4. CASE ReadState(r)
    <3>0. Exists
      BY <1>0, <2>4, Asking DEF ReadState, AskStages
    <3>1. CASE Goto(r, "clear")
      BY <1>0, <1>2, <1>4, <3>1, GotoKeeps DEF AskStages
    <3>2. CASE user.onboarded /\ Answer(r, "dashboard")
      BY <1>0, <1>2, <1>4, <3>0, <3>2, AnswerKeeps
    <3>3. CASE Answer(r, "complete")
      BY <1>0, <1>2, <1>4, <3>3, AnswerKeeps
    <3> QED
      BY <2>4, <3>1, <3>2, <3>3 DEF ReadState
  <2>5. CASE AccessFails(r)
    <3>1. Answer(r, "complete") \/ Answer(r, "unavailable")
      BY <2>5 DEF AccessFails
    <3> QED
      BY <1>0, <1>2, <1>4, <3>1, AnswerKeeps
  <2>6. CASE ReadAccess(r)
    <3>1. Answer(r, "complete") \/ Answer(r, "banned") \/ Answer(r, "served")
      BY <2>6 DEF ReadAccess
    <3> QED
      BY <1>0, <1>2, <1>4, <3>1, AnswerKeeps
  <2>7. CASE MaySave(r)
    <3>1. CASE Answer(r, "banned")
      BY <1>0, <1>2, <1>4, <3>1, AnswerKeeps
    <3>2. CASE Goto(r, "save")
      BY <1>0, <1>2, <1>4, <2>7, <3>2, GotoKeeps DEF AskStages, MaySave
    <3> QED
      BY <2>7, <3>1, <3>2 DEF MaySave
  <2>8. CASE SaveFails(r)
    BY <1>0, <1>2, <1>4, <2>8, AnswerKeeps DEF SaveFails
  <2> QED
    BY <2>1, <2>2, <2>3, <2>4, <2>5, <2>6, <2>7, <2>8
<1> QED
  BY <1>1, <1>5, RestingKeeps

LEMMA ClearStep == ASSUME AccountInv, NEW r \in Requests, ClearSession(r) PROVE AccountInv'
<1>0. WorldTyped /\ SessionsKnown /\ RequestsOK /\ SellerHasShop
  BY DEF AccountInv
<1>1. request[r] \in AskRecords /\ request[r].who \in known
  BY <1>0, Asking DEF ClearSession, AskStages
<1>2. RequestsOK'
  BY <1>0, <1>1, RowRests, AnswerKeeps DEF ClearSession
<1>3. session' \in [Identities -> {"none", "live"}] /\ SessionsKnown'
  BY <1>0 DEF WorldTyped, SessionsKnown, ClearSession
<1> QED
  BY <1>0, <1>2, <1>3 DEF AccountInv, WorldTyped, SellerHasShop, Exists, ClearSession

LEMMA DoneStep == ASSUME AccountInv, NEW r \in Requests, Done(r) PROVE AccountInv'
<1>1. RequestOK(Idle)' /\ Resting
  BY DEF RequestOK, Done, Resting
<1>2. RequestsOK'
  BY <1>1, RowRests, OneAccountRequest DEF AccountInv, Done
<1> QED
  BY <1>1, <1>2, RestingKeeps

\* The row changes: it stays a row, and onboarded.
LEMMA RowKept ==
    ASSUME WorldTyped, user' \in UserRows, Exists /\ user.onboarded => user'.onboarded,
           UNCHANGED <<identity, known, session, links, made>>
    PROVE  WorldTyped' /\ RowGoesOn /\ Exists'
<1>1. user' \in User
  BY DEF User, UserRows
<1>2. WorldTyped'
  BY <1>1 DEF WorldTyped
<1>3. Exists'
  BY DEF Exists, NoUser, UserRows
<1> QED
  BY <1>2, <1>3 DEF RowGoesOn

LEMMA ClaimRowStep == ASSUME AccountInv, NEW r \in Requests, Claim(r) PROVE AccountInv'
<1>0. WorldTyped /\ SessionsKnown /\ RequestsOK /\ SellerHasShop
  BY DEF AccountInv
<1>1. request[r] \in AskRecords /\ request[r].who \in known /\ Exists
  BY <1>0, Asking DEF Claim, AskStages
<1>2. user \in UserRows
  BY <1>0, <1>1, RowOrNone
<1>3. /\ user' \in UserRows /\ user'.onboarded = user.onboarded
      /\ user'.role = user.role /\ user'.shop = user.shop
  BY <1>1, <1>2 DEF Claim, UserRows, AskRecords
<1>4. WorldTyped' /\ RowGoesOn /\ Exists'
  BY <1>0, <1>3, RowKept DEF Claim
<1>5. RequestsOK'
  BY <1>0, <1>1, <1>4, GotoKeeps DEF Claim, AskStages
<1>6. SellerHasShop'
  BY <1>0, <1>1, <1>3 DEF SellerHasShop
<1> QED
  BY <1>0, <1>4, <1>5, <1>6 DEF AccountInv, SessionsKnown, Claim

LEMMA CreateRowStep == ASSUME AccountInv, NEW r \in Requests, CreateRow(r) PROVE AccountInv'
<1>0. WorldTyped /\ SessionsKnown /\ RequestsOK /\ SellerHasShop
  BY DEF AccountInv
<1>1. request[r] \in AskRecords /\ request[r].who \in known /\ ~Exists
  BY <1>0, Asking DEF CreateRow, AskStages
<1>3. user' \in UserRows /\ user'.role = "BUYER"
  BY <1>1 DEF CreateRow, NewRow, UserRows, Role, AskRecords
<1>4. WorldTyped' /\ RowGoesOn /\ Exists'
  BY <1>0, <1>1, <1>3, RowKept DEF CreateRow
<1>5. RequestsOK'
  BY <1>0, <1>1, <1>4, GotoKeeps DEF CreateRow, AskStages
<1>6. SellerHasShop'
  BY <1>3 DEF SellerHasShop
<1> QED
  BY <1>0, <1>4, <1>5, <1>6 DEF AccountInv, SessionsKnown, CreateRow

LEMMA FillStep == ASSUME AccountInv, NEW r \in Requests, Fill(r) PROVE AccountInv'
<1>0. WorldTyped /\ SessionsKnown /\ RequestsOK /\ SellerHasShop
  BY DEF AccountInv
<1>1. request[r] \in AskRecords /\ request[r].who \in known /\ Exists
  BY <1>0, Asking DEF Fill, AskStages
<1>2. user \in UserRows
  BY <1>0, <1>1, RowOrNone
<1>3. /\ user' \in UserRows /\ user'.onboarded = user.onboarded
      /\ user'.role = user.role /\ user'.shop = user.shop
  BY <1>2 DEF Fill, UserRows
<1>4. WorldTyped' /\ RowGoesOn /\ Exists'
  BY <1>0, <1>3, RowKept DEF Fill
<1>5. RequestsOK'
  <2>1. CASE request[r].kind = "sign-in"
    BY <1>0, <1>1, <1>4, <2>1, GotoKeeps DEF Fill, AskStages
  <2>2. CASE request[r].kind # "sign-in"
    BY <1>0, <1>1, <1>4, <2>2, AnswerKeeps DEF Fill
  <2> QED
    BY <2>1, <2>2
<1>6. SellerHasShop'
  BY <1>0, <1>1, <1>3 DEF SellerHasShop
<1> QED
  BY <1>0, <1>4, <1>5, <1>6 DEF AccountInv, SessionsKnown, Fill

LEMMA ResolvedRow ==
    ASSUME WorldTyped, NEW i \in Identities,
           ~Exists \/ MappedTo(i) \/ (MappedTo(NoIdentity) /\ links)
    PROVE  Resolved(i) \in UserRows
<1>1. CASE ~Exists
  BY <1>1 DEF Resolved, NewRow, UserRows, Role, MappedTo
<1>2. CASE MappedTo(i)
  <2>1. user \in UserRows /\ Exists
    BY <1>2, RowOrNone DEF MappedTo
  <2>2. Resolved(i) = user
    BY <1>2, <2>1, AccountAssumption DEF Resolved, MappedTo
  <2> QED
    BY <2>1, <2>2
<1>3. CASE MappedTo(NoIdentity) /\ links
  <2>1. user \in UserRows /\ Exists
    BY <1>3, RowOrNone DEF MappedTo
  <2>2. ~MappedTo(i)
    BY <1>3, AccountAssumption DEF MappedTo
  <2>3. Resolved(i) = [user EXCEPT !.auth = i]
    BY <1>3, <2>1, <2>2 DEF Resolved
  <2> QED
    BY <2>1, <2>3 DEF UserRows
<1> QED
  BY <1>1, <1>2, <1>3

LEMMA SaveStep == ASSUME AccountInv, NEW r \in Requests, SaveProfile(r) PROVE AccountInv'
<1>0. WorldTyped /\ SessionsKnown /\ RequestsOK /\ SellerHasShop
  BY DEF AccountInv
<1>1. request[r] \in AskRecords /\ request[r].who \in known /\ request[r].kind = "profile"
  BY <1>0, Asking DEF SaveProfile, AskStages
<1>2. PICK row \in UserRows : row = Resolved(request[r].who)
  BY <1>0, <1>1, ResolvedRow DEF SaveProfile, AskRecords
<1>3. PICK sells \in BOOLEAN :
          user' = [row EXCEPT !.profile = TRUE, !.onboarded = TRUE,
                              !.role = IF sells THEN "SELLER" ELSE "BUYER",
                              !.shop = @ \/ sells]
  BY <1>2 DEF SaveProfile
<1>4. /\ user' \in UserRows /\ user'.onboarded = TRUE
      /\ user'.role = IF sells THEN "SELLER" ELSE "BUYER"
      /\ sells => user'.shop
  BY <1>2, <1>3 DEF UserRows, Role
<1>5. WorldTyped' /\ RowGoesOn /\ Exists'
  BY <1>0, <1>4, RowKept DEF SaveProfile
<1>6. RequestsOK'
  BY <1>0, <1>1, <1>5, AnswerKeeps DEF SaveProfile
<1>7. SellerHasShop'
  BY <1>4 DEF SellerHasShop
<1> QED
  BY <1>0, <1>5, <1>6, <1>7 DEF AccountInv, SessionsKnown, SaveProfile

LEMMA OutsideSteps ==
    ASSUME AccountInv, (\E i \in Identities : SignOut(i)) \/ Unregister \/ Ban \/ Appoint
    PROVE  AccountInv'
<1>0. WorldTyped /\ SessionsKnown /\ RequestsOK /\ SellerHasShop
  BY DEF AccountInv
<1>1. CASE \E i \in Identities : SignOut(i)
  <2>1. RequestsOK'
    BY <1>0, <1>1, RowRests, NotAsking DEF SignOut
  <2>2. session' \in [Identities -> {"none", "live"}] /\ SessionsKnown'
    BY <1>0, <1>1 DEF WorldTyped, SessionsKnown, SignOut
  <2> QED
    BY <1>0, <1>1, <2>1, <2>2 DEF AccountInv, WorldTyped, SellerHasShop, Exists, SignOut
<1>2. CASE Unregister
  <2>1. RequestsOK'
    BY <1>0, <1>2, RowRests, NotAsking DEF Unregister
  <2> QED
    BY <1>0, <1>2, <2>1 DEF AccountInv, WorldTyped, SessionsKnown, SellerHasShop, Exists, Unregister
<1>3. CASE Ban \/ Appoint
  <2>1. user \in UserRows
    BY <1>0, <1>3, RowOrNone DEF Ban, Appoint
  <2>2. /\ user' \in UserRows /\ user'.onboarded = user.onboarded
        /\ user'.role = "SELLER" => user.role = "SELLER"
        /\ user'.shop = user.shop
    BY <1>3, <2>1 DEF Ban, Appoint, UserRows, Role
  <2>3. WorldTyped' /\ RowGoesOn /\ Exists'
    BY <1>0, <1>3, <2>2, RowKept DEF Ban, Appoint
  <2>4. RequestsOK'
    BY <1>0, <1>3, <2>3, NotAsking DEF Ban, Appoint
  <2>5. SellerHasShop'
    BY <1>0, <1>3, <2>2 DEF SellerHasShop, Ban, Appoint
  <2> QED
    BY <1>0, <1>3, <2>3, <2>4, <2>5 DEF AccountInv, SessionsKnown, Ban, Appoint
<1> QED
  BY <1>1, <1>2, <1>3

LEMMA AccountStep == AccountInv /\ [AccountNext]_accountVars => AccountInv'
<1> SUFFICES ASSUME AccountInv, [AccountNext]_accountVars PROVE AccountInv'
  OBVIOUS
<1>1. ASSUME NEW r \in Requests, RequestSteps(r) PROVE AccountInv'
  BY <1>1, SignUpStep, SignInStep, GuardedStep, AccountQuietSteps, ClearStep, DoneStep, ClaimRowStep,
     CreateRowStep, FillStep, SaveStep DEF RequestSteps
<1>2. CASE UNCHANGED accountVars
  <2>1. RequestsOK' /\ Resting
    BY <1>2, RowRests, NotAsking DEF accountVars, AccountInv, Resting
  <2> QED
    BY <2>1, RestingKeeps
<1> QED
  BY <1>1, <1>2, OutsideSteps DEF AccountNext

LEMMA AccountShows == AccountInv => AccountTypeOK /\ AccountsSound
<1> SUFFICES ASSUME AccountInv PROVE AccountTypeOK /\ AccountsSound
  OBVIOUS
<1>0. WorldTyped /\ RequestsOK /\ SellerHasShop
  BY DEF AccountInv
<1>1. ASSUME NEW r \in Requests
      PROVE  /\ At(r, "idle") \/ (request[r].who \in known /\ request[r].had \in BOOLEAN)
             /\ At(r, "answered") /\ request[r].kind = "sign-in" /\ request[r].answer = "dashboard"
                  => user.onboarded
  <2>1. RequestOK(request[r])
    BY <1>0 DEF RequestsOK
  <2>2. CASE request[r] = Idle
    BY <2>2 DEF Idle, At
  <2>3. CASE request[r] # Idle
    <3>1. request[r] \in AskRecords \cup AnswerRecords /\ request[r].who \in known
          /\ (request[r].pc = "answered" /\ request[r].kind = "sign-in"
                /\ request[r].answer = "dashboard" => user.onboarded)
      BY <2>1, <2>3 DEF RequestOK
    <3>2. request[r].had \in BOOLEAN
      BY <3>1 DEF AskRecords, AnswerRecords
    <3> QED
      BY <3>1, <3>2 DEF At
  <2> QED
    BY <2>2, <2>3
<1>2. AccountTypeOK
  BY <1>0, <1>1 DEF WorldTyped, AccountTypeOK
<1> QED
  BY <1>0, <1>1, <1>2 DEF AccountsSound, SignInFailsClosed

THEOREM AccountInvariant == AccountSpec => []AccountInv
BY AccountStart, AccountStep, PTL DEF AccountSpec

THEOREM AccountsAreSound == AccountSpec => []AccountsSound
<1>1. AccountInv => AccountsSound
  BY AccountShows
<1> QED
  BY <1>1, AccountInvariant, PTL

-------------------------------------------------------------------------------
(***************************************************************************)
(* The payment page of a buyer (PaymentScreen). It says that the payment   *)
(* succeeded only from an answer of the server of which that was true, and *)
(* what was collected stays collected, whatever becomes of the order.      *)
(***************************************************************************)
FetchKinds == {"leave", "confirm", "check", "tick"}
Sent == [kind : FetchKinds, at : {"sent"}]
FetchAnswers == [kind : FetchKinds, at : {"back"}, seen : Seen]

ScreenFetches == fetch \in [Fetches -> {NoFetch} \cup Sent \cup FetchAnswers]

\* A success was read of an order of which a payment had been collected.
PaidAnswersTrue ==
    \A f \in Fetches : fetch[f] \in FetchAnswers /\ fetch[f].seen \in Collected => taken

\* What the server would answer, and what the page says, is of a payment collected.
TakenTrue == (order \in Collected => taken) /\ SuccessIsServers

ScreenInv == ScreenTypeOK /\ ScreenFetches /\ PaidAnswersTrue /\ TakenTrue

\* What a step does to the fetches when it does not answer any.
LEMMA FetchCases ==
    ASSUME ScreenFetches, NEW f \in Fetches
    PROVE  /\ fetch[f] = NoFetch \/ fetch[f] \in Sent \/ fetch[f] \in FetchAnswers
           /\ fetch[f] = NoFetch <=> fetch[f].kind = "free"
           /\ fetch[f].kind \in FetchKinds /\ fetch[f].at = "sent" => fetch[f] \in Sent
           /\ fetch[f].kind \in FetchKinds /\ fetch[f].at = "back" => fetch[f] \in FetchAnswers
BY DEF ScreenFetches, NoFetch, Sent, FetchAnswers, FetchKinds

\* A change of one request keeps what is known of all of them.
LEMMA OneFetch ==
    ASSUME ScreenFetches, PaidAnswersTrue, NEW f \in Fetches, NEW x,
           x \in {NoFetch} \cup Sent \cup FetchAnswers,
           x \in FetchAnswers /\ x.seen \in Collected => taken,
           taken => taken',
           fetch' = [fetch EXCEPT ![f] = x]
    PROVE  ScreenFetches' /\ PaidAnswersTrue'
<1>1. ScreenFetches'
  BY DEF ScreenFetches
<1>2. ASSUME NEW g \in Fetches, fetch'[g] \in FetchAnswers, fetch'[g].seen \in Collected PROVE taken'
  <2>1. CASE g = f
    <3>1. fetch'[g] = x
      BY <2>1 DEF ScreenFetches
    <3> QED
      BY <1>2, <3>1
  <2>2. CASE g # f
    <3>1. fetch'[g] = fetch[g]
      BY <2>2 DEF ScreenFetches
    <3> QED
      BY <1>2, <3>1 DEF PaidAnswersTrue
  <2> QED
    BY <2>1, <2>2
<1> QED
  BY <1>1, <1>2 DEF PaidAnswersTrue

LEMMA FetchesStay ==
    ASSUME ScreenFetches, PaidAnswersTrue, UNCHANGED fetch, taken => taken'
    PROVE  ScreenFetches' /\ PaidAnswersTrue'
BY DEF ScreenFetches, PaidAnswersTrue

LEMMA FetchesGone ==
    ASSUME fetch' = [f \in Fetches |-> NoFetch] PROVE ScreenFetches' /\ PaidAnswersTrue'
<1>1. \A f \in Fetches : fetch'[f] = NoFetch
  OBVIOUS
<1>2. NoFetch \notin FetchAnswers
  BY DEF NoFetch, FetchAnswers
<1>3. PaidAnswersTrue'
  BY <1>1, <1>2 DEF PaidAnswersTrue
<1> QED
  BY <1>3 DEF ScreenFetches

\* A page sends a request, or is done with an answer.
LEMMA SendKeeps ==
    ASSUME ScreenFetches, PaidAnswersTrue, NEW k \in FetchKinds, Send(k), UNCHANGED taken
    PROVE  ScreenFetches' /\ PaidAnswersTrue'
<1>1. PICK f \in Fetches : fetch' = [fetch EXCEPT ![f] = [kind |-> k, at |-> "sent"]]
  BY DEF Send
<1>2. [kind |-> k, at |-> "sent"] \in Sent /\ [kind |-> k, at |-> "sent"] \notin FetchAnswers
  BY DEF Sent, FetchAnswers
<1> QED
  BY <1>1, <1>2, OneFetch

LEMMA GotKeeps ==
    ASSUME ScreenFetches, PaidAnswersTrue, NEW f \in Fetches, Got(f), UNCHANGED taken
    PROVE  ScreenFetches' /\ PaidAnswersTrue'
<1>1. NoFetch \notin FetchAnswers
  BY DEF NoFetch, FetchAnswers
<1> QED
  BY <1>1, OneFetch DEF Got

\* What of the type invariant concerns the fetches.
FetchPart ==
    \A f \in Fetches :
          \/ fetch[f] = NoFetch
          \/ /\ fetch[f].kind \in {"leave", "confirm", "check", "tick"}
             /\ fetch[f].at = "back" => fetch[f].seen \in Seen

TimersTyped == timers \in Nat /\ (held => timers > 0)
FlagsTyped == held \in BOOLEAN /\ expired \in BOOLEAN

RestPart ==
    /\ order \in OrderState /\ taken \in BOOLEAN
    /\ stage \in {"review", "creating", "opening", "paying", "closed"}
    /\ phase \in {"idle", "initiating", "awaiting", "succeeded", "failed", "timed_out"}
    /\ busy \in {"no", "paying", "checking"}
    /\ popups \in [Screens -> Nat]
    /\ TimersTyped /\ FlagsTyped
    /\ presses \in 0 .. MaxPresses

LEMMA FetchesTyped == ASSUME ScreenFetches PROVE FetchPart
BY DEF ScreenFetches, FetchPart, NoFetch, Sent, FetchAnswers, FetchKinds

LEMMA Parts == ScreenTypeOK <=> FetchPart /\ RestPart
BY DEF ScreenTypeOK, FetchPart, RestPart, TimersTyped, FlagsTyped

LEMMA Conclude ==
    ASSUME ScreenFetches', PaidAnswersTrue', RestPart', TakenTrue' PROVE ScreenInv'
<1>1. FetchPart'
  BY DEF ScreenFetches, FetchPart, NoFetch, Sent, FetchAnswers, FetchKinds
<1> QED
  BY <1>1 DEF ScreenInv, ScreenTypeOK, FetchPart, RestPart, TimersTyped, FlagsTyped

\* The counting of timers: a timer the ref holds is one of them.
LEMMA TimersLeftTyped ==
    ASSUME TimersTyped PROVE TimersLeft \in Nat
BY DEF TimersTyped, TimersLeft

LEMMA TimersKept ==
    ASSUME TimersTyped, UNCHANGED <<timers, held>> \/ StopPolling \/ StartPolling \/ NextTick
    PROVE  TimersTyped'
<1>1. CASE UNCHANGED <<timers, held>>
  BY <1>1 DEF TimersTyped
<1>2. CASE StopPolling
  <2>1. timers' \in Nat
    BY <1>2, TimersLeftTyped DEF StopPolling
  <2> QED
    BY <1>2, <2>1 DEF StopPolling, TimersTyped
<1>3. CASE StartPolling
  <2>1. timers' \in Nat /\ timers' > 0
    BY <1>3, TimersLeftTyped DEF StartPolling
  <2> QED
    BY <2>1 DEF TimersTyped
<1>4. CASE NextTick
  <2>1. timers' \in Nat /\ timers' > 0
    BY <1>4 DEF NextTick, TimersTyped
  <2> QED
    BY <2>1 DEF TimersTyped
<1> QED
  BY <1>1, <1>2, <1>3, <1>4

LEMMA FlagsKept ==
    ASSUME FlagsTyped, UNCHANGED <<held, expired>> \/ (StopPolling /\ UNCHANGED expired)
                       \/ StartPolling \/ NextTick
    PROVE  FlagsTyped'
BY DEF FlagsTyped, StopPolling, StartPolling, NextTick

LEMMA PhaseTyped ==
    ASSUME NEW s \in OrderState
    PROVE  PhaseOf(s) \in {"idle", "awaiting", "succeeded", "failed"}
           /\ (PhaseOf(s) = "succeeded" <=> s \in Collected)
BY DEF PhaseOf, OrderState, Payable, Cancelled, Collected

\* Applying an answer shows success for "paid" only.
LEMMA ApplyKeeps ==
    ASSUME RestPart, TakenTrue, NEW s \in Seen, ApplySnapshot(s), UNCHANGED <<order, taken>>,
           s \in Collected => taken
    PROVE  /\ phase' \in {"idle", "initiating", "awaiting", "succeeded", "failed", "timed_out"}
           /\ TakenTrue'
<1>1. CASE s \in Settled \cup {"awaiting"}
  BY <1>1, PhaseTyped DEF ApplySnapshot, TakenTrue, SuccessIsServers, Settled, OrderState, Payable, Cancelled, Collected
<1>2. CASE s \notin Settled \cup {"awaiting"}
  BY <1>2 DEF ApplySnapshot, TakenTrue, SuccessIsServers, RestPart
<1> QED
  BY <1>1, <1>2

LEMMA MountKeeps ==
    ASSUME RestPart, TakenTrue, Mount, presses' \in 0 .. MaxPresses PROVE ScreenInv'
<1>1. ScreenFetches' /\ PaidAnswersTrue'
  BY FetchesGone DEF Mount
<1>2. /\ phase' \in {"idle", "initiating", "awaiting", "succeeded", "failed", "timed_out"}
      /\ phase' = "succeeded" => taken'
  BY PhaseTyped DEF Mount, RestPart, TakenTrue, OrderState, Payable
<1>3. RestPart'
  <2>1. TimersTyped'
    <3>1. held' => order = "awaiting"
      BY Zenon DEF Mount
    <3>2. timers' = IF order = "awaiting" THEN 1 ELSE 0
      BY Zenon DEF Mount
    <3> QED
      BY <3>1, <3>2 DEF TimersTyped
  <2>2. FlagsTyped'
    BY DEF Mount, FlagsTyped
  <2>3. popups' \in [Screens -> Nat]
    BY DEF Mount
  <2> QED
    BY <1>2, <2>1, <2>2, <2>3 DEF RestPart, Mount
<1>4. TakenTrue'
  <2>1. UNCHANGED <<order, taken>>
    BY DEF Mount
  <2> QED
    BY <1>2, <2>1 DEF TakenTrue, SuccessIsServers
<1> QED
  BY <1>1, <1>3, <1>4, Conclude

\* What an answer that came back says.
LEMMA BackSays ==
    ASSUME ScreenFetches, PaidAnswersTrue, NEW f \in Fetches, NEW k \in FetchKinds, Back(f, k)
    PROVE  /\ fetch[f] \in FetchAnswers
           /\ fetch[f].seen \in Seen
           /\ fetch[f].seen \in Collected => taken
<1>1. fetch[f] \in FetchAnswers
  BY FetchCases DEF Back
<1> QED
  BY <1>1 DEF FetchAnswers, PaidAnswersTrue

LEMMA PressTyped == ASSUME RestPart, Press PROVE presses' \in 0 .. MaxPresses
BY ScreenAssumption DEF RestPart, Press

LEMMA ScreenStart == ScreenInit => ScreenInv
<1> SUFFICES ASSUME ScreenInit PROVE ScreenInv
  OBVIOUS
<1>1. ScreenFetches /\ PaidAnswersTrue
  <2>1. \A f \in Fetches : fetch[f] = NoFetch
    BY DEF ScreenInit
  <2>2. NoFetch \notin FetchAnswers
    BY DEF NoFetch, FetchAnswers
  <2>3. PaidAnswersTrue
    BY <2>1, <2>2 DEF PaidAnswersTrue
  <2> QED
    BY <2>3 DEF ScreenFetches, ScreenInit
<1>2. RestPart
  <2>1. TimersTyped /\ FlagsTyped
    BY DEF TimersTyped, FlagsTyped, ScreenInit
  <2>2. popups \in [Screens -> Nat]
    BY DEF ScreenInit
  <2>3. presses \in 0 .. MaxPresses
    BY ScreenAssumption DEF ScreenInit
  <2> QED
    BY <2>1, <2>2, <2>3 DEF RestPart, ScreenInit, OrderState, Payable, Cancelled, Collected
<1> QED
  BY <1>1, <1>2, FetchesTyped, Parts
     DEF ScreenInv, TakenTrue, SuccessIsServers, ScreenInit, Collected

LEMMA PageSteps ==
    ASSUME ScreenInv, ServerMoves \/ PlaceOrder \/ OrderAnswered \/ OpenFirst \/ PressPay
                      \/ PayAnswered \/ CheckNow \/ WindowEnds \/ TimerFires
    PROVE  ScreenInv'
<1> USE ScreenAssumption DEF ScreenInv
<1>0. RestPart
  BY Parts
<1>1. CASE ServerMoves
  <2>1. ScreenFetches' /\ PaidAnswersTrue'
    BY <1>1, FetchesStay DEF ServerMoves
  <2>2. order' \in OrderState /\ taken' = (taken \/ order' \in Collected)
    BY <1>1 DEF ServerMoves, OrderState, Payable, Cancelled, Collected
  <2>3. UNCHANGED <<stage, phase, busy, popups, fetch, timers, held, expired, presses>>
    BY <1>1 DEF ServerMoves
  <2>4. TakenTrue'
    BY <2>2, <2>3 DEF TakenTrue, SuccessIsServers
  <2>5. RestPart'
    BY <1>0, <2>2, <2>3 DEF RestPart, TimersTyped, FlagsTyped
  <2> QED
    BY <2>1, <2>4, <2>5, Conclude
<1>2. CASE PlaceOrder
  <2>1. ScreenFetches' /\ PaidAnswersTrue'
    BY <1>2, FetchesStay DEF PlaceOrder
  <2>2. RestPart' /\ TakenTrue'
    BY <1>0, <1>2, PressTyped DEF RestPart, TakenTrue, SuccessIsServers, PlaceOrder, TimersTyped, FlagsTyped
  <2> QED
    BY <2>1, <2>2, Conclude
<1>3. CASE OrderAnswered
  <2>1. ScreenFetches' /\ PaidAnswersTrue'
    BY <1>3, FetchesStay DEF OrderAnswered
  <2>2. RestPart' /\ TakenTrue'
    BY <1>0, <1>3 DEF RestPart, TakenTrue, SuccessIsServers, OrderAnswered, OrderState, Payable, Cancelled, Collected, TimersTyped, FlagsTyped
  <2> QED
    BY <2>1, <2>2, Conclude
<1>4. CASE OpenFirst
  <2>1. ScreenFetches' /\ PaidAnswersTrue'
    BY <1>4, FetchesStay DEF OpenFirst, MayInitialize
  <2>2. popups' \in [Screens -> Nat]
    BY <1>0, <1>4 DEF RestPart, OpenFirst, Screens
  <2>3. RestPart' /\ TakenTrue'
    BY <1>0, <1>4, <2>2 DEF RestPart, TakenTrue, SuccessIsServers, OpenFirst, OrderState, Payable, Cancelled, Collected, MayInitialize, TimersTyped, FlagsTyped
  <2> QED
    BY <2>1, <2>3, Conclude
<1>5. CASE PressPay
  <2>1. ScreenFetches' /\ PaidAnswersTrue'
    BY <1>5, FetchesStay DEF PressPay
  <2>2. RestPart' /\ TakenTrue'
    BY <1>0, <1>5, PressTyped DEF RestPart, TakenTrue, SuccessIsServers, PressPay, TimersTyped, FlagsTyped
  <2> QED
    BY <2>1, <2>2, Conclude
<1>6. CASE PayAnswered
  <2>1. ScreenFetches' /\ PaidAnswersTrue'
    BY <1>6, FetchesStay DEF PayAnswered, MayInitialize
  <2>2. popups' \in [Screens -> Nat] /\ phase' \in {"failed", "awaiting"}
    BY <1>0, <1>6 DEF RestPart, PayAnswered, PayFailed, PayOpened
  <2>5. TimersTyped' /\ FlagsTyped'
    <3>1. UNCHANGED <<timers, held, expired>> \/ StartPolling
      BY <1>6 DEF PayAnswered, PayFailed, PayOpened
    <3> QED
      BY <1>0, <3>1, TimersKept, FlagsKept DEF RestPart
  <2>3. order' \in OrderState
    BY <1>0, <1>6 DEF RestPart, PayAnswered, OrderState, Payable
  <2>4. RestPart'
    BY <1>0, <1>6, <2>2, <2>3, <2>5 DEF RestPart, PayAnswered
  <2>6. TakenTrue'
    <3>1. taken' = taken /\ order' \in {order, "awaiting"}
      BY <1>6 DEF PayAnswered
    <3> QED
      BY <2>2, <3>1 DEF TakenTrue, SuccessIsServers, Collected
  <2> QED
    BY <2>1, <2>4, <2>6, Conclude
<1>7. CASE CheckNow
  <2>1. ScreenFetches' /\ PaidAnswersTrue'
    BY <1>7, SendKeeps DEF CheckNow, FetchKinds
  <2>2. RestPart' /\ TakenTrue'
    BY <1>0, <1>7, PressTyped DEF RestPart, TakenTrue, SuccessIsServers, CheckNow, TimersTyped, FlagsTyped
  <2> QED
    BY <2>1, <2>2, Conclude
<1>8. CASE WindowEnds
  <2>1. ScreenFetches' /\ PaidAnswersTrue'
    BY <1>8, FetchesStay DEF WindowEnds
  <2>2. RestPart' /\ TakenTrue'
    BY <1>0, <1>8 DEF RestPart, TakenTrue, SuccessIsServers, WindowEnds, TimersTyped, FlagsTyped
  <2> QED
    BY <2>1, <2>2, Conclude
<1>9. CASE TimerFires
  <2>1. ScreenFetches' /\ PaidAnswersTrue'
    BY <1>9, SendKeeps DEF TimerFires, FetchKinds
  <2>2. RestPart' /\ TakenTrue'
    <3>1. TimersTyped'
      BY <1>0, <1>9 DEF RestPart, TimersTyped, TimerFires, TimersLeft
    <3>2. FlagsTyped'
      BY <1>0, <1>9 DEF RestPart, FlagsTyped, TimerFires
    <3> QED
      BY <1>0, <1>9, <3>1, <3>2 DEF RestPart, TakenTrue, SuccessIsServers, TimerFires
  <2> QED
    BY <2>1, <2>2, Conclude
<1> QED
  BY <1>1, <1>2, <1>3, <1>4, <1>5, <1>6, <1>7, <1>8, <1>9

LEMMA PopupStep == ASSUME ScreenInv, NEW s \in Screens, PopupReports(s) PROVE ScreenInv'
<1>0. RestPart /\ ScreenFetches /\ PaidAnswersTrue /\ TakenTrue
  BY Parts DEF ScreenInv
<1>1. ScreenFetches' /\ PaidAnswersTrue'
  BY <1>0, FetchesStay, SendKeeps DEF PopupReports, FetchKinds
<1>2. popups' \in [Screens -> Nat]
  BY <1>0 DEF RestPart, PopupReports
<1>3. phase' \in {phase, "awaiting", "failed"}
  BY DEF PopupReports
<1>4. RestPart' /\ TakenTrue'
  BY <1>0, <1>2, <1>3 DEF RestPart, TakenTrue, SuccessIsServers, PopupReports, TimersTyped, FlagsTyped
<1> QED
  BY <1>1, <1>4, Conclude

LEMMA AnsweredStep == ASSUME ScreenInv, NEW f \in Fetches, Answered(f) PROVE ScreenInv'
<1>0. RestPart /\ ScreenFetches /\ PaidAnswersTrue /\ TakenTrue
  BY Parts DEF ScreenInv
<1>1. fetch[f] \in Sent
  BY <1>0, FetchCases DEF Answered, NoFetch, FetchAnswers
<1>2. PICK s \in {order, "error", "gone"} :
         fetch' = [fetch EXCEPT ![f] = [kind |-> fetch[f].kind, at |-> "back", seen |-> s]]
  BY DEF Answered
<1>3. s \in Seen /\ (s \in Collected => taken)
  BY <1>0 DEF RestPart, Seen, TakenTrue, Collected
<1>4. PICK x : x = [kind |-> fetch[f].kind, at |-> "back", seen |-> s]
  OBVIOUS
<1>5. x \in FetchAnswers /\ x.seen = s
  BY <1>1, <1>3, <1>4 DEF FetchAnswers, Sent
<1>6. ScreenFetches' /\ PaidAnswersTrue'
  BY <1>0, <1>2, <1>3, <1>4, <1>5, OneFetch DEF Answered
<1>7. RestPart' /\ TakenTrue'
  BY <1>0 DEF RestPart, TakenTrue, SuccessIsServers, Answered, TimersTyped, FlagsTyped
<1> QED
  BY <1>6, <1>7, Conclude

LEMMA ArrivingSteps ==
    ASSUME ScreenInv, NEW f \in Fetches,
           LeaveArrives(f) \/ ConfirmArrives(f) \/ CheckArrives(f) \/ TickArrives(f)
    PROVE  ScreenInv'
<1>0. RestPart /\ ScreenFetches /\ PaidAnswersTrue /\ TakenTrue
  BY Parts DEF ScreenInv
<1>a. PICK s : s = fetch[f].seen
  OBVIOUS
<1>b. s \in Seen /\ (s \in Collected => taken)
  BY <1>0, <1>a, BackSays DEF LeaveArrives, ConfirmArrives, CheckArrives, TickArrives, FetchKinds
<1>1. CASE LeaveArrives(f)
  <2>1. CASE Mount
    BY <1>0, <1>1, <2>1, MountKeeps DEF LeaveArrives, RestPart
  <2>2. CASE Got(f) /\ UNCHANGED <<order, taken, stage, phase, busy, popups, timers, held, expired, presses>>
    <3>1. ScreenFetches' /\ PaidAnswersTrue'
      BY <1>0, <2>2, GotKeeps
    <3>2. RestPart' /\ TakenTrue'
      BY <1>0, <2>2 DEF RestPart, TakenTrue, SuccessIsServers, TimersTyped, FlagsTyped
    <3> QED
      BY <3>1, <3>2, Conclude
  <2> QED
    BY <1>1, <2>1, <2>2 DEF LeaveArrives
<1>2. CASE ConfirmArrives(f)
  <2>1. ScreenFetches' /\ PaidAnswersTrue'
    BY <1>0, <1>2, GotKeeps DEF ConfirmArrives
  <2>2. /\ phase' \in {"idle", "initiating", "awaiting", "succeeded", "failed", "timed_out"}
        /\ TakenTrue'
    BY <1>0, <1>2, <1>a, <1>b, ApplyKeeps DEF ConfirmArrives
  <2>3. RestPart'
    BY <1>0, <1>2, <2>2, TimersKept, FlagsKept DEF RestPart, ConfirmArrives
  <2> QED
    BY <2>1, <2>2, <2>3, Conclude
<1>3. CASE CheckArrives(f)
  <2>1. ScreenFetches' /\ PaidAnswersTrue'
    BY <1>0, <1>3, GotKeeps DEF CheckArrives
  <2>2. /\ phase' \in {"idle", "initiating", "awaiting", "succeeded", "failed", "timed_out"}
        /\ TakenTrue'
    BY <1>0, <1>3, <1>a, <1>b, ApplyKeeps DEF CheckArrives
  <2>3. RestPart'
    BY <1>0, <1>3, <2>2, TimersKept, FlagsKept DEF RestPart, CheckArrives
  <2> QED
    BY <2>1, <2>2, <2>3, Conclude
<1>4. CASE TickArrives(f)
  <2>1. ScreenFetches' /\ PaidAnswersTrue'
    BY <1>0, <1>4, GotKeeps DEF TickArrives
  <2>2. CASE /\ s \in Settled \cup {"gone"}
             /\ phase' = IF s = "gone" THEN "failed" ELSE PhaseOf(s)
             /\ StopPolling
             /\ UNCHANGED expired
    <3>1. /\ phase' \in {"idle", "awaiting", "succeeded", "failed"}
          /\ phase' = "succeeded" => taken
      BY <1>b, <2>2, PhaseTyped DEF Settled, OrderState, Payable, Cancelled, Collected
    <3>2. RestPart' /\ TakenTrue'
      BY <1>0, <1>4, <2>2, <3>1, TimersKept, FlagsKept
      DEF RestPart, TakenTrue, SuccessIsServers, TickArrives
    <3> QED
      BY <2>1, <3>2, Conclude
  <2>3. CASE phase' = "timed_out" /\ StopPolling /\ UNCHANGED expired
    <3>2. RestPart' /\ TakenTrue'
      BY <1>0, <1>4, <2>3, TimersKept, FlagsKept DEF RestPart, TakenTrue, SuccessIsServers, TickArrives
    <3> QED
      BY <2>1, <3>2, Conclude
  <2>4. CASE ApplySnapshot(s) /\ NextTick
    <3>1. /\ phase' \in {"idle", "initiating", "awaiting", "succeeded", "failed", "timed_out"}
          /\ TakenTrue'
      BY <1>0, <1>4, <1>b, <2>4, ApplyKeeps DEF TickArrives
    <3>2. RestPart'
      BY <1>0, <1>4, <2>4, <3>1, TimersKept, FlagsKept DEF RestPart, TickArrives
    <3> QED
      BY <2>1, <3>1, <3>2, Conclude
  <2> QED
    BY <1>4, <1>a, <2>2, <2>3, <2>4 DEF TickArrives
<1> QED
  BY <1>1, <1>2, <1>3, <1>4

LEMMA ScreenStep == ScreenInv /\ [ScreenNext]_screenVars => ScreenInv'
<1> SUFFICES ASSUME ScreenInv, [ScreenNext]_screenVars PROVE ScreenInv'
  OBVIOUS
<1>1. CASE OpenOrderPage
  BY <1>1, MountKeeps, PressTyped, Parts DEF OpenOrderPage, ScreenInv
<1>2. CASE \E s \in Screens : PopupReports(s)
  BY <1>2, PopupStep
<1>3. CASE \E f \in Fetches : FetchSteps(f)
  BY <1>3, AnsweredStep, ArrivingSteps DEF FetchSteps
<1>4. CASE UNCHANGED screenVars
  <2>1. ScreenFetches' /\ PaidAnswersTrue'
    BY <1>4, FetchesStay DEF screenVars, ScreenInv
  <2>2. RestPart' /\ TakenTrue'
    BY <1>4, Parts DEF RestPart, TakenTrue, SuccessIsServers, screenVars, ScreenInv, TimersTyped, FlagsTyped
  <2> QED
    BY <2>1, <2>2, Conclude
<1> QED
  BY <1>1, <1>2, <1>3, <1>4, PageSteps DEF ScreenNext

THEOREM ScreenInvariant == ScreenSpec => []ScreenInv
BY ScreenStart, ScreenStep, PTL DEF ScreenSpec

(***************************************************************************)
(* "Payment successful" is shown only when a payment of the order was      *)
(* collected, whichever answers overtake each other; that the order is     *)
(* paid, or was not cancelled, does not follow (checkout-client.ts,        *)
(* use-paystack-payment.ts).                                               *)
(***************************************************************************)
THEOREM SuccessOnlyWhenCollected == ScreenSpec => []SuccessIsServers
<1>1. ScreenInv => SuccessIsServers
  BY DEF ScreenInv, TakenTrue
<1> QED
  BY <1>1, ScreenInvariant, PTL

-------------------------------------------------------------------------------
(***************************************************************************)
(* The recovery of an account (AccountRecovery). Links are numbered as     *)
(* they are issued, so that a link used or replaced is told from the one   *)
(* that is good.                                                           *)
(***************************************************************************)
Tellings == {"nothing", "code", "link", "ok", "sent", "rate_limited", "invalid_token",
             "unknown", "capability_not_enabled", "auth_unavailable", "auth_not_configured"}

MailTyped(mail) == mail \in [issued : Nat, live : Nat] /\ mail.live <= mail.issued

ResendRecords == [pc : {"idle", "asking", "asking code", "cooling down"}, told : Tellings, since : Nat]
SubmitRecords == [pc : {"idle", "asking", "done"}, told : Tellings, n : Nat]
ResetRecords  == [pc : {"asking", "done"}, told : Tellings, n : Nat, saved : Nat]

\* A panel told of a code waits for one issued after it was pressed.
ResendOK ==
    \/ resending = Untouched
    \/ /\ resending \in ResendRecords
       /\ resending.since <= codes.issued
       /\ resending.told = "code" => resending.since < codes.issued

SubmitOK ==
    \/ submit = Untouched
    \/ /\ submit \in SubmitRecords
       /\ submit.n # None /\ submit.n <= codes.issued
       /\ submit.told = "ok" => verified

ResetOK ==
    \/ reset = Untouched
    \/ /\ reset \in ResetRecords
       /\ reset.n # None /\ reset.n <= tokens.issued
       /\ reset.saved <= passwords
       /\ reset.told = "ok" => reset.saved < passwords

\* What arrived was issued.
InboxOK ==
    \A mail \in inbox :
        /\ mail[1] \in {"code", "token"}
        /\ mail[2] \in Nat \ {None}
        /\ mail[1] = "code" => mail[2] <= codes.issued
        /\ mail[1] = "token" => mail[2] <= tokens.issued

RecoveryInv ==
    /\ MailTyped(codes) /\ MailTyped(tokens) /\ passwords \in Nat
    /\ InboxOK /\ ResendOK /\ SubmitOK /\ ResetOK

LEMMA RecoveryStart == RecoveryInit => RecoveryInv
BY DEF RecoveryInit, RecoveryInv, MailTyped, InboxOK, ResendOK, SubmitOK, ResetOK, None

-------------------------------------------------------------------------------
(* Whatever the service does, it goes on from what it had: numbers are     *)
(* issued upwards, and the one that can be redeemed is the old one, none,  *)
(* or newer than all that were issued.                                     *)

Later(mail, next) ==
    /\ mail.issued <= next.issued
    /\ next.live = mail.live \/ next.live = None \/ next.live > mail.issued

ServiceGoesOn ==
    /\ MailTyped(codes)' /\ MailTyped(tokens)' /\ passwords' \in Nat
    /\ Later(codes, codes') /\ Later(tokens, tokens')
    /\ verified => verified'
    /\ passwords <= passwords'

LEMMA SameIsLater == ASSUME NEW mail, MailTyped(mail) PROVE Later(mail, mail)
BY DEF MailTyped, Later

LEMMA IssueIsLater ==
    ASSUME NEW mail, MailTyped(mail)
    PROVE  MailTyped(Issue(mail)) /\ Later(mail, Issue(mail)) /\ Issue(mail).issued = mail.issued + 1
BY DEF MailTyped, Later, Issue

LEMMA SpentIsLater ==
    ASSUME NEW mail, MailTyped(mail)
    PROVE  /\ MailTyped([mail EXCEPT !.live = None])
           /\ Later(mail, [mail EXCEPT !.live = None])
           /\ [mail EXCEPT !.live = None].live = None
BY DEF MailTyped, Later, None

LEMMA ServiceRests ==
    ASSUME RecoveryInv, UNCHANGED serviceState PROVE ServiceGoesOn
BY SameIsLater DEF RecoveryInv, serviceState, ServiceGoesOn, MailTyped

LEMMA SendsCodeGoesOn ==
    ASSUME RecoveryInv, NEW answer, SendsCode(answer)
    PROVE  ServiceGoesOn /\ (answer = "ok" => codes'.issued = codes.issued + 1)
<1>1. /\ MailTyped(codes)' /\ Later(codes, codes')
      /\ answer = "ok" => codes'.issued = codes.issued + 1
  BY IssueIsLater, SameIsLater DEF SendsCode, RecoveryInv, MailTyped
<1>2. MailTyped(tokens)' /\ Later(tokens, tokens') /\ passwords' = passwords /\ verified' = verified
  BY SameIsLater DEF SendsCode, RecoveryInv, MailTyped
<1> QED
  BY <1>1, <1>2 DEF ServiceGoesOn, RecoveryInv

LEMMA SendsLinkGoesOn == ASSUME RecoveryInv, NEW answer, SendsLink(answer) PROVE ServiceGoesOn
BY SameIsLater DEF SendsLink, RecoveryInv, ServiceGoesOn, MailTyped

LEMMA SendsTokenGoesOn == ASSUME RecoveryInv, NEW answer, SendsToken(answer) PROVE ServiceGoesOn
<1>1. MailTyped(tokens)' /\ Later(tokens, tokens')
  BY IssueIsLater, SameIsLater DEF SendsToken, RecoveryInv, MailTyped
<1>2. MailTyped(codes)' /\ Later(codes, codes') /\ passwords' = passwords /\ verified' = verified
  BY SameIsLater DEF SendsToken, RecoveryInv, MailTyped
<1> QED
  BY <1>1, <1>2 DEF ServiceGoesOn, RecoveryInv

LEMMA VerifiesGoesOn ==
    ASSUME RecoveryInv, NEW n, NEW answer, Verifies(n, answer)
    PROVE  /\ ServiceGoesOn
           /\ answer = "ok" => verified'
           /\ answer = "invalid_token" => n # codes'.live
<1>1. /\ MailTyped(codes)' /\ Later(codes, codes') /\ (verified => verified')
      /\ answer = "ok" => verified'
      /\ answer = "invalid_token" => n # codes'.live
  <2>1. CASE n = codes.live
    BY <2>1, SpentIsLater DEF Verifies, RecoveryInv, MailTyped
  <2>2. CASE n # codes.live
    BY <2>2, SameIsLater DEF Verifies, RecoveryInv, MailTyped
  <2> QED
    BY <2>1, <2>2
<1>2. MailTyped(tokens)' /\ Later(tokens, tokens') /\ passwords' = passwords
  BY SameIsLater DEF Verifies, RecoveryInv, MailTyped
<1> QED
  BY <1>1, <1>2 DEF ServiceGoesOn, RecoveryInv

LEMMA SavesGoesOn ==
    ASSUME RecoveryInv, NEW n, NEW answer, SavesPassword(n, answer)
    PROVE  /\ ServiceGoesOn
           /\ answer = "ok" => passwords' = passwords + 1
           /\ answer = "invalid_token" => n # tokens'.live
<1>1. /\ MailTyped(tokens)' /\ Later(tokens, tokens') /\ passwords' \in Nat /\ passwords <= passwords'
      /\ answer = "ok" => passwords' = passwords + 1
      /\ answer = "invalid_token" => n # tokens'.live
  <2>1. CASE n = tokens.live
    BY <2>1, SpentIsLater DEF SavesPassword, RecoveryInv, MailTyped
  <2>2. CASE n # tokens.live
    BY <2>2, SameIsLater DEF SavesPassword, RecoveryInv, MailTyped
  <2> QED
    BY <2>1, <2>2
<1>2. MailTyped(codes)' /\ Later(codes, codes') /\ verified' = verified
  BY SameIsLater DEF SavesPassword, RecoveryInv, MailTyped
<1> QED
  BY <1>1, <1>2 DEF ServiceGoesOn, RecoveryInv

-------------------------------------------------------------------------------
(* What a form holds stays true while the service goes on.                 *)

LEMMA InboxStays == ASSUME RecoveryInv, ServiceGoesOn, UNCHANGED inbox PROVE InboxOK'
<1>1. codes.issued <= codes'.issued /\ tokens.issued <= tokens'.issued
      /\ codes.issued \in Nat /\ codes'.issued \in Nat /\ tokens.issued \in Nat /\ tokens'.issued \in Nat
  BY DEF RecoveryInv, ServiceGoesOn, Later, MailTyped
<1> SUFFICES ASSUME NEW mail \in inbox
             PROVE  /\ mail[1] \in {"code", "token"}
                    /\ mail[2] \in Nat \ {None}
                    /\ mail[1] = "code" => mail[2] <= codes'.issued
                    /\ mail[1] = "token" => mail[2] <= tokens'.issued
  BY DEF InboxOK
<1>2. /\ mail[1] \in {"code", "token"}
      /\ mail[2] \in Nat \ {None}
      /\ mail[1] = "code" => mail[2] <= codes.issued
      /\ mail[1] = "token" => mail[2] <= tokens.issued
  BY DEF RecoveryInv, InboxOK
<1> QED
  BY <1>1, <1>2

LEMMA ResendStays == ASSUME RecoveryInv, ServiceGoesOn, UNCHANGED resending PROVE ResendOK'
<1>1. codes.issued \in Nat /\ codes'.issued \in Nat /\ codes.issued <= codes'.issued
  BY DEF RecoveryInv, ServiceGoesOn, Later, MailTyped
<1>2. CASE resending = Untouched
  BY <1>2 DEF ResendOK
<1>3. CASE /\ resending \in ResendRecords
           /\ resending.since <= codes.issued
           /\ resending.told = "code" => resending.since < codes.issued
  <2>1. resending.since \in Nat
    BY <1>3 DEF ResendRecords
  <2>2. /\ resending.since <= codes'.issued
        /\ resending.told = "code" => resending.since < codes'.issued
    BY <1>1, <1>3, <2>1
  <2> QED
    BY <1>3, <2>2 DEF ResendOK
<1> QED
  BY <1>2, <1>3 DEF RecoveryInv, ResendOK

LEMMA SubmitStays == ASSUME RecoveryInv, ServiceGoesOn, UNCHANGED submit PROVE SubmitOK'
BY DEF RecoveryInv, ServiceGoesOn, Later, MailTyped, SubmitOK, SubmitRecords

LEMMA ResetStays == ASSUME RecoveryInv, ServiceGoesOn, UNCHANGED reset PROVE ResetOK'
BY DEF RecoveryInv, ServiceGoesOn, Later, MailTyped, ResetOK, ResetRecords

\* A failure is one of the tellings, and never that all went well.
LEMMA FailuresSay ==
    ASSUME NEW fallbackCode \in {"unknown", "invalid_token"}, NEW failure \in Failures(fallbackCode)
    PROVE  failure \in Tellings \ {"code", "ok"}
BY DEF Failures, Tellings

\* Numbers issued upwards.
LEMMA AtLeast ==
    /\ \A a \in Nat : a <= a
    /\ \A a, b, c \in Nat : a <= b /\ b <= c => a <= c /\ (c = b + 1 => a < c)
OBVIOUS

LEMMA UntouchedIdle == Untouched.pc = "idle" /\ Untouched.told = "nothing"
BY DEF Untouched

\* The panel asks.
LEMMA AskingTyped ==
    ASSUME RecoveryInv, NEW pc \in {"asking", "asking code"},
           resending' = [pc |-> pc, told |-> "nothing", since |-> codes.issued],
           UNCHANGED codes
    PROVE  ResendOK'
<1>1. codes.issued \in Nat
  BY DEF RecoveryInv, MailTyped
<1>2. PICK i \in Nat : i = codes.issued
  BY <1>1
<1>3. /\ resending' \in ResendRecords
      /\ resending'.since = i /\ resending'.told = "nothing"
  BY <1>2 DEF ResendRecords, Tellings
<1>4. resending'.since <= codes'.issued
  <2>1. codes'.issued = i
    BY <1>2
  <2>2. i <= i
    BY AtLeast, Zenon
  <2> QED
    BY <1>3, <2>1, <2>2
<1> QED
  BY <1>3, <1>4 DEF ResendOK

LEMMA ResendSteps ==
    ASSUME RecoveryInv, PressResend \/ AskForLink \/ CooldownEnds PROVE RecoveryInv'
<1>1. ServiceGoesOn /\ UNCHANGED codes
  BY ServiceRests DEF PressResend, AskForLink, CooldownEnds, serviceState
<1>2. InboxOK' /\ SubmitOK' /\ ResetOK'
  BY <1>1, InboxStays, SubmitStays, ResetStays DEF PressResend, AskForLink, CooldownEnds
<1>3. ResendOK'
  <2>1. CASE PressResend \/ AskForLink
    BY <1>1, <2>1, AskingTyped DEF PressResend, AskForLink
  <2>2. CASE CooldownEnds
    <3>1. /\ resending \in ResendRecords
          /\ resending.since <= codes.issued
          /\ resending.told = "code" => resending.since < codes.issued
      <4>1. resending # Untouched
        BY <2>2, UntouchedIdle DEF CooldownEnds
      <4> QED
        BY <4>1 DEF RecoveryInv, ResendOK
    <3>2. resending' \in ResendRecords /\ resending'.since = resending.since
          /\ resending'.told = resending.told
      BY <2>2, <3>1 DEF CooldownEnds, ResendRecords
    <3> QED
      BY <1>1, <3>1, <3>2 DEF ResendOK
  <2> QED
    BY <2>1, <2>2
<1> QED
  BY <1>1, <1>2, <1>3 DEF RecoveryInv, ServiceGoesOn

LEMMA ResendingRecord ==
    ASSUME RecoveryInv, resending.pc \in {"asking", "asking code"}
    PROVE  resending \in ResendRecords /\ resending.since <= codes.issued
<1>1. resending # Untouched
  BY UntouchedIdle
<1> QED
  BY <1>1 DEF RecoveryInv, ResendOK

LEMMA ToldKeeps ==
    ASSUME RecoveryInv, ServiceGoesOn, resending.pc \in {"asking", "asking code"},
           NEW answer \in Tellings \ {"code"}, NEW method \in {"code", "link"},
           Told(answer, method),
           answer = "ok" /\ method = "code" => codes'.issued = codes.issued + 1
    PROVE  ResendOK'
<1>1. resending \in ResendRecords /\ resending.since <= codes.issued
  BY ResendingRecord
<1>2. codes.issued \in Nat /\ codes'.issued \in Nat /\ codes.issued <= codes'.issued
      /\ resending.since \in Nat
  BY <1>1 DEF RecoveryInv, ServiceGoesOn, Later, MailTyped, ResendRecords
<1>3. PICK t : t = IF answer = "ok" THEN method ELSE answer
  OBVIOUS
<1>4. t \in Tellings /\ (t = "code" => answer = "ok" /\ method = "code")
  BY <1>3 DEF Tellings
<1>5. resending' = [pc |-> IF answer = "ok" THEN "cooling down" ELSE "idle",
                    told |-> t, since |-> resending.since]
  BY <1>3 DEF Told
<1>6. resending' \in ResendRecords /\ resending'.since = resending.since /\ resending'.told = t
  BY <1>2, <1>4, <1>5 DEF ResendRecords
<1>7. resending.since <= codes'.issued /\ (t = "code" => resending.since < codes'.issued)
  <2>1. t = "code" => codes'.issued = codes.issued + 1
    BY <1>4
  <2>2. PICK a \in Nat, b \in Nat, c \in Nat :
           a = resending.since /\ b = codes.issued /\ c = codes'.issued
    BY <1>2
  <2>3. a <= b /\ b <= c /\ (t = "code" => c = b + 1)
    BY <1>1, <1>2, <2>1, <2>2
  <2>4. a <= c /\ (t = "code" => a < c)
    BY <2>3, AtLeast, Zenon
  <2> QED
    BY <2>2, <2>4
<1> QED
  BY <1>6, <1>7 DEF ResendOK

LEMMA SendCodeStep == ASSUME RecoveryInv, SendCode PROVE RecoveryInv'
<1>1. /\ ServiceGoesOn
      /\ \E answer \in Tellings \ {"code"} :
           /\ Told(answer, "code")
           /\ answer = "ok" => codes'.issued = codes.issued + 1
  <2>1. CASE \E answer \in {"ok", "rate_limited"} : SendsCode(answer) /\ Told(answer, "code")
    BY <2>1, SendsCodeGoesOn DEF Tellings
  <2>2. CASE \E failure \in Failures("unknown") :
               (SendsCode("ok") \/ UNCHANGED serviceState) /\ Told(failure, "code")
    BY <2>2, ServiceRests, SendsCodeGoesOn, FailuresSay
  <2> QED
    BY <2>1, <2>2 DEF SendCode
<1>2. ResendOK'
  BY <1>1, ToldKeeps DEF SendCode
<1>3. InboxOK' /\ SubmitOK' /\ ResetOK'
  BY <1>1, InboxStays, SubmitStays, ResetStays DEF SendCode
<1> QED
  BY <1>1, <1>2, <1>3 DEF RecoveryInv, ServiceGoesOn

LEMMA ResendVerificationStep == ASSUME RecoveryInv, ResendVerification PROVE RecoveryInv'
<1>1. /\ ServiceGoesOn
      /\ \E answer \in Tellings \ {"code"} : AfterLink(answer)
  <2>1. CASE \E answer \in {"ok", "rate_limited", "capability_not_enabled"} :
                 SendsLink(answer) /\ AfterLink(answer)
    BY <2>1, SendsLinkGoesOn DEF Tellings
  <2>2. CASE \E failure \in Failures("unknown") :
               (SendsLink("ok") \/ UNCHANGED serviceState) /\ AfterLink(failure)
    BY <2>2, ServiceRests, SendsLinkGoesOn, FailuresSay
  <2> QED
    BY <2>1, <2>2 DEF ResendVerification
<1>2. ResendOK'
  <2>1. CASE resending' = [resending EXCEPT !.pc = "asking code"]
    <3>1. resending \in ResendRecords /\ resending.since <= codes.issued
      BY ResendingRecord DEF ResendVerification
    <3>2. codes.issued \in Nat /\ codes'.issued \in Nat /\ codes.issued <= codes'.issued
          /\ resending.since \in Nat
      BY <1>1, <3>1 DEF RecoveryInv, ServiceGoesOn, Later, MailTyped, ResendRecords
    <3>3. resending.told = "code" => resending.since < codes.issued
      <4>1. resending # Untouched
        BY UntouchedIdle DEF ResendVerification
      <4> QED
        BY <4>1 DEF RecoveryInv, ResendOK
    <3>4. resending' \in ResendRecords /\ resending'.since = resending.since
          /\ resending'.told = resending.told
      BY <2>1, <3>1 DEF ResendRecords
    <3>5. /\ resending.since <= codes'.issued
          /\ resending.told = "code" => resending.since < codes'.issued
      BY <3>1, <3>2, <3>3
    <3> QED
      BY <3>4, <3>5 DEF ResendOK
  <2>2. CASE \E answer \in Tellings \ {"code"} : Told(answer, "link")
    BY <1>1, <2>2, ToldKeeps DEF ResendVerification
  <2> QED
    BY <1>1, <2>1, <2>2 DEF AfterLink
<1>3. InboxOK' /\ SubmitOK' /\ ResetOK'
  BY <1>1, InboxStays, SubmitStays, ResetStays DEF ResendVerification
<1> QED
  BY <1>1, <1>2, <1>3 DEF RecoveryInv, ServiceGoesOn

LEMMA SubmitCodeStep == ASSUME RecoveryInv, SubmitCode PROVE RecoveryInv'
<1>1. ServiceGoesOn /\ UNCHANGED <<codes, verified>>
  BY ServiceRests DEF SubmitCode, serviceState
<1>2. PICK mail \in inbox :
         mail[1] = "code" /\ submit' = [pc |-> "asking", told |-> "nothing", n |-> mail[2]]
  BY DEF SubmitCode
<1>3. mail[2] \in Nat \ {None} /\ mail[2] <= codes.issued
  BY <1>2 DEF RecoveryInv, InboxOK
<1>4. SubmitOK'
  BY <1>1, <1>2, <1>3 DEF SubmitOK, SubmitRecords, Tellings
<1>5. InboxOK' /\ ResendOK' /\ ResetOK'
  BY <1>1, InboxStays, ResendStays, ResetStays DEF SubmitCode
<1> QED
  BY <1>1, <1>4, <1>5 DEF RecoveryInv, ServiceGoesOn

LEMMA VerifyCodeStep == ASSUME RecoveryInv, VerifyCode PROVE RecoveryInv'
<1>0. submit \in SubmitRecords /\ submit.n # None /\ submit.n <= codes.issued
  BY DEF VerifyCode, RecoveryInv, SubmitOK, Untouched
<1>1. /\ ServiceGoesOn
      /\ \E answer \in Tellings, pc \in {"idle", "done"} :
           /\ submit' = [pc |-> pc, told |-> answer, n |-> submit.n]
           /\ answer = "ok" => verified'
  <2>1. CASE \E answer \in {"ok", "invalid_token"} :
             /\ Verifies(submit.n, answer)
             /\ submit' = [pc |-> IF answer = "ok" THEN "done" ELSE "idle", told |-> answer,
                           n |-> submit.n]
    BY <2>1, VerifiesGoesOn DEF Tellings
  <2>2. CASE \E failure \in Failures("invalid_token") :
               /\ Verifies(submit.n, "ok") \/ UNCHANGED serviceState
               /\ submit' = [pc |-> "idle", told |-> failure, n |-> submit.n]
    BY <2>2, ServiceRests, VerifiesGoesOn, FailuresSay
  <2> QED
    BY <2>1, <2>2 DEF VerifyCode
<1>2. SubmitOK'
  <2>1. submit.n <= codes'.issued
    BY <1>0, <1>1 DEF RecoveryInv, ServiceGoesOn, Later, MailTyped, SubmitRecords
  <2> QED
    BY <1>0, <1>1, <2>1 DEF SubmitOK, SubmitRecords
<1>3. InboxOK' /\ ResendOK' /\ ResetOK'
  BY <1>1, InboxStays, ResendStays, ResetStays DEF VerifyCode
<1> QED
  BY <1>1, <1>2, <1>3 DEF RecoveryInv, ServiceGoesOn

LEMMA ForgotSteps == ASSUME RecoveryInv, AskForReset \/ ForgotPassword PROVE RecoveryInv'
<1>1. ServiceGoesOn
  BY ServiceRests, SendsTokenGoesOn DEF AskForReset, ForgotPassword
<1>2. InboxOK' /\ ResendOK' /\ SubmitOK' /\ ResetOK'
  BY <1>1, InboxStays, ResendStays, SubmitStays, ResetStays DEF AskForReset, ForgotPassword
<1> QED
  BY <1>1, <1>2 DEF RecoveryInv, ServiceGoesOn

LEMMA OpenLinkStep == ASSUME RecoveryInv, OpenResetLink PROVE RecoveryInv'
<1>1. ServiceGoesOn /\ UNCHANGED <<tokens, passwords>>
  BY ServiceRests DEF OpenResetLink, serviceState
<1>2. PICK mail \in inbox :
         /\ mail[1] = "token"
         /\ reset' = [pc |-> "asking", told |-> "nothing", n |-> mail[2], saved |-> passwords]
  BY DEF OpenResetLink
<1>3. mail[2] \in Nat \ {None} /\ mail[2] <= tokens.issued
  BY <1>2 DEF RecoveryInv, InboxOK
<1>4. ResetOK'
  BY <1>1, <1>2, <1>3 DEF RecoveryInv, ResetOK, ResetRecords, Tellings
<1>5. InboxOK' /\ ResendOK' /\ SubmitOK'
  BY <1>1, InboxStays, ResendStays, SubmitStays DEF OpenResetLink
<1> QED
  BY <1>1, <1>4, <1>5 DEF RecoveryInv, ServiceGoesOn

LEMMA ResetPasswordStep == ASSUME RecoveryInv, ResetPassword PROVE RecoveryInv'
<1>0. reset \in ResetRecords /\ reset.n # None /\ reset.n <= tokens.issued /\ reset.saved <= passwords
  <2>1. reset # Untouched
    BY UntouchedIdle DEF ResetPassword
  <2> QED
    BY <2>1 DEF RecoveryInv, ResetOK
<1>1. /\ ServiceGoesOn
      /\ \E answer \in Tellings :
           /\ reset' = [reset EXCEPT !.pc = "done", !.told = answer]
           /\ answer = "ok" => passwords' = passwords + 1
  <2>1. CASE \E answer \in {"ok", "invalid_token"} :
             /\ SavesPassword(reset.n, answer)
             /\ reset' = [reset EXCEPT !.pc = "done", !.told = answer]
    BY <2>1, SavesGoesOn DEF Tellings
  <2>2. CASE \E failure \in Failures("invalid_token") :
               /\ SavesPassword(reset.n, "ok") \/ UNCHANGED serviceState
               /\ reset' = [reset EXCEPT !.pc = "done", !.told = failure]
    BY <2>2, ServiceRests, SavesGoesOn, FailuresSay
  <2> QED
    BY <2>1, <2>2 DEF ResetPassword
<1>2. ResetOK'
  <2>1. reset.n <= tokens'.issued /\ reset.saved <= passwords'
        /\ (passwords' = passwords + 1 => reset.saved < passwords')
    BY <1>0, <1>1 DEF RecoveryInv, ServiceGoesOn, Later, MailTyped, ResetRecords
  <2>2. PICK answer \in Tellings :
           /\ reset' = [reset EXCEPT !.pc = "done", !.told = answer]
           /\ answer = "ok" => passwords' = passwords + 1
    BY <1>1
  <2>3. /\ reset' \in ResetRecords /\ reset'.told = answer
        /\ reset'.n = reset.n /\ reset'.saved = reset.saved
    BY <1>0, <2>2 DEF ResetRecords
  <2> QED
    BY <1>0, <2>1, <2>2, <2>3 DEF ResetOK
<1>3. InboxOK' /\ ResendOK' /\ SubmitOK'
  BY <1>1, InboxStays, ResendStays, SubmitStays DEF ResetPassword
<1> QED
  BY <1>1, <1>2, <1>3 DEF RecoveryInv, ServiceGoesOn

LEMMA DeliverStep == ASSUME RecoveryInv, Deliver PROVE RecoveryInv'
<1>1. ServiceGoesOn /\ UNCHANGED <<codes, tokens>>
  BY ServiceRests DEF Deliver, serviceState
<1>2. PICK kind \in {"code", "token"}, n \in Mail :
         /\ n <= (IF kind = "code" THEN codes.issued ELSE tokens.issued)
         /\ inbox' = inbox \cup {<<kind, n>>}
  BY DEF Deliver
<1>3. n \in Nat \ {None}
  BY RecoveryAssumption DEF Mail, None
<1>4. ASSUME NEW mail \in inbox'
      PROVE  /\ mail[1] \in {"code", "token"}
             /\ mail[2] \in Nat \ {None}
             /\ mail[1] = "code" => mail[2] <= codes.issued
             /\ mail[1] = "token" => mail[2] <= tokens.issued
  <2>1. CASE mail \in inbox
    BY <2>1 DEF RecoveryInv, InboxOK
  <2>2. CASE mail = <<kind, n>>
    BY <1>2, <1>3, <2>2
  <2> QED
    BY <1>2, <1>4, <2>1, <2>2
<1>5. InboxOK'
  BY <1>1, <1>4 DEF InboxOK
<1>6. ResendOK' /\ SubmitOK' /\ ResetOK'
  BY <1>1, ResendStays, SubmitStays, ResetStays DEF Deliver
<1> QED
  BY <1>1, <1>5, <1>6 DEF RecoveryInv, ServiceGoesOn

LEMMA ExpiresStep == ASSUME RecoveryInv, MailExpires PROVE RecoveryInv'
<1>1. ServiceGoesOn
  BY SpentIsLater, SameIsLater DEF MailExpires, RecoveryInv, ServiceGoesOn, MailTyped
<1>2. InboxOK' /\ ResendOK' /\ SubmitOK' /\ ResetOK'
  BY <1>1, InboxStays, ResendStays, SubmitStays, ResetStays DEF MailExpires
<1> QED
  BY <1>1, <1>2 DEF RecoveryInv, ServiceGoesOn

LEMMA RecoveryStep == RecoveryInv /\ [RecoveryNext]_recoveryVars => RecoveryInv'
<1> SUFFICES ASSUME RecoveryInv, [RecoveryNext]_recoveryVars PROVE RecoveryInv'
  OBVIOUS
<1>1. CASE UNCHANGED recoveryVars
  <2>1. ServiceGoesOn
    BY <1>1, ServiceRests DEF recoveryVars, serviceState
  <2>2. InboxOK' /\ ResendOK' /\ SubmitOK' /\ ResetOK'
    BY <1>1, <2>1, InboxStays, ResendStays, SubmitStays, ResetStays DEF recoveryVars
  <2> QED
    BY <2>1, <2>2 DEF RecoveryInv, ServiceGoesOn
<1> QED
  BY <1>1, ResendSteps, SendCodeStep, ResendVerificationStep, SubmitCodeStep, VerifyCodeStep,
     ForgotSteps, OpenLinkStep, ResetPasswordStep, DeliverStep, ExpiresStep
  DEF RecoveryNext, RecoverySteps

LEMMA RecoveryShows == RecoveryInv => RecoverySound
<1> SUFFICES ASSUME RecoveryInv PROVE RecoverySound
  OBVIOUS
<1>1. SaidSentWasSent
  <2>1. CASE resending = Untouched
    BY <2>1 DEF SaidSentWasSent, Untouched
  <2>2. CASE resending # Untouched
    <3>1. codes.issued \in Nat /\ resending.since \in Nat
          /\ (resending.told = "code" => resending.since < codes.issued)
      BY <2>2 DEF RecoveryInv, ResendOK, ResendRecords, MailTyped
    <3> QED
      BY <3>1 DEF SaidSentWasSent
  <2> QED
    BY <2>1, <2>2
<1>2. submit.told = "ok" => verified
  BY DEF RecoveryInv, SubmitOK, Untouched
<1>3. reset.told = "ok" => passwords > reset.saved
  <2>1. CASE reset = Untouched
    BY <2>1 DEF Untouched
  <2>2. CASE reset # Untouched
    <3>1. /\ passwords \in Nat /\ reset.saved \in Nat
          /\ reset.told = "ok" => reset.saved < passwords
      BY <2>2 DEF RecoveryInv, ResetOK, ResetRecords
    <3> QED
      BY <3>1
  <2> QED
    BY <2>1, <2>2
<1> QED
  BY <1>1, <1>2, <1>3 DEF RecoverySound, SaidDoneWasDone

(***************************************************************************)
(* Whatever mails, answers and requests are lost or overtaken, the service *)
(* and what each form was told keep their bounds (actions.ts:299-520).     *)
(***************************************************************************)
THEOREM RecoveryInvariant == RecoverySpec => []RecoveryInv
BY RecoveryStart, RecoveryStep, PTL DEF RecoverySpec

(***************************************************************************)
(* A code told to be sent was sent, and an address told to be verified or  *)
(* a password told to be replaced is (neon.ts:265-330, actions.ts:337-520).*)
(***************************************************************************)
THEOREM RecoveryIsSound == RecoverySpec => []RecoverySound
BY RecoveryInvariant, RecoveryShows, PTL
===============================================================================
