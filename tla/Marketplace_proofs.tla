------------------------- MODULE Marketplace_proofs -------------------------
(***************************************************************************)
(* The marketplace of MCMarketplace, put together from what is proved of   *)
(* its parts.  No part writes a variable of another, so a behaviour of all *)
(* of them is a behaviour of each, and whatever holds of a part alone      *)
(* holds among the others.                                                 *)
(***************************************************************************)
EXTENDS MCMarketplace, People_proofs, Platform_proofs, Catalogue_proofs, TLAPS

CatalogueSteps ==
    /\ [CartNext]_cartVars /\ [LifecycleNext]_lifecycleVars
    /\ [EngagementNext]_engagementVars /\ [DirectoryNext]_directoryVars

PeopleSteps ==
    /\ [ScreenNext]_screenVars /\ [AccountNext]_accountVars
    /\ [InvitationNext]_invitationVars /\ [ActivityNext]_activityVars

ChatSteps ==
    /\ [ConnectionNext]_connectionVars /\ [HubNext]_hubVars
    /\ [ChatNext]_chatVars /\ [LimiterNext]_limiterVars

PlatformSteps ==
    /\ [AuthNext]_authVars /\ [InstanceNext]_instanceVars /\ [RecoveryNext]_recoveryVars
    /\ [PicturesNext]_pictureVars /\ [HandoverNext]_handoverVars

\* An area that is left alone makes no step of its own.
LEMMA AreasRest ==
    /\ UNCHANGED Catalogue => CatalogueSteps
    /\ UNCHANGED People => PeopleSteps
    /\ UNCHANGED Chat => ChatSteps
    /\ UNCHANGED Platform => PlatformSteps
  BY DEF Catalogue, CatalogueSteps, People, PeopleSteps, Chat, ChatSteps, Platform, PlatformSteps

\* A step of the marketplace is, for every part, a step of that part or none.
LEMMA StepOfEach ==
    [Next]_vars => CatalogueSteps /\ PeopleSteps /\ ChatSteps /\ PlatformSteps
<1>. SUFFICES ASSUME [Next]_vars PROVE CatalogueSteps /\ PeopleSteps /\ ChatSteps /\ PlatformSteps
  OBVIOUS
<1>1. CASE UNCHANGED vars
  <2>1. UNCHANGED <<Catalogue, People, Chat, Platform>>
    BY <1>1 DEF vars, Catalogue, People, Chat, Platform
  <2>. QED
    BY <2>1, AreasRest
<1>2. CASE /\ UNCHANGED <<People, Chat, Platform>>
           /\ \/ Focused("cart", CartNext, <<lifecycleVars, engagementVars, directoryVars>>)
              \/ Focused("lifecycle", LifecycleNext, <<cartVars, engagementVars, directoryVars>>)
              \/ Focused("engagement", EngagementNext, <<cartVars, lifecycleVars, directoryVars>>)
              \/ Focused("directory", DirectoryNext, <<cartVars, lifecycleVars, engagementVars>>)
  <2>1. CatalogueSteps
    BY <1>2 DEF Focused, CatalogueSteps
  <2>. QED
    BY <1>2, <2>1, AreasRest
<1>3. CASE /\ UNCHANGED <<Catalogue, Chat, Platform>>
           /\ \/ Focused("screen", ScreenNext, <<accountVars, invitationVars, activityVars>>)
              \/ Focused("accounts", AccountNext, <<screenVars, invitationVars, activityVars>>)
              \/ Focused("invitation", InvitationNext, <<screenVars, accountVars, activityVars>>)
              \/ Focused("activity", ActivityNext, <<screenVars, accountVars, invitationVars>>)
  <2>1. PeopleSteps
    BY <1>3 DEF Focused, PeopleSteps
  <2>. QED
    BY <1>3, <2>1, AreasRest
<1>4. CASE /\ UNCHANGED <<Catalogue, People, Platform>>
           /\ \/ Focused("connection", ConnectionNext, <<hubVars, chatVars, limiterVars>>)
              \/ Focused("hub", HubNext /\ FirstSocketFirst, <<connectionVars, chatVars, limiterVars>>)
              \/ Focused("messages", ChatNext /\ BuyerBlocks, <<connectionVars, hubVars, limiterVars>>)
              \/ Focused("limiter", LimiterNext, <<connectionVars, hubVars, chatVars>>)
  <2>1. ChatSteps
    BY <1>4 DEF Focused, ChatSteps
  <2>. QED
    BY <1>4, <2>1, AreasRest
<1>5. CASE /\ UNCHANGED <<Catalogue, People, Chat>>
           /\ \/ Focused("callers", AuthNext, <<instanceVars, recoveryVars, pictureVars, handoverVars>>)
              \/ Focused("instance", InstanceNext, <<authVars, recoveryVars, pictureVars, handoverVars>>)
              \/ Focused("recovery", RecoveryNext, <<authVars, instanceVars, pictureVars, handoverVars>>)
              \/ Focused("pictures", PicturesNext, <<authVars, instanceVars, recoveryVars, handoverVars>>)
              \/ Focused("handover", HandoverNext, <<authVars, instanceVars, recoveryVars, pictureVars>>)
  <2>1. PlatformSteps
    BY <1>5 DEF Focused, PlatformSteps
  <2>. QED
    BY <1>5, <2>1, AreasRest
<1>. QED
  BY <1>1, <1>2, <1>3, <1>4, <1>5 DEF Next

-------------------------------------------------------------------------------
(***************************************************************************)
(* A behaviour of the marketplace is a behaviour of each of its parts, of  *)
(* the payment page with the fairness it needs.                            *)
(***************************************************************************)
THEOREM PartsRunAlone ==
    Spec => /\ CartSpec /\ LifecycleSpec /\ EngagementSpec /\ DirectorySpec
            /\ ScreenSpec /\ AccountSpec /\ InvitationSpec /\ ActivitySpec
            /\ ConnectionSpec /\ HubSpec /\ ChatSpec /\ LimiterSpec
            /\ AuthSpec /\ InstanceSpec /\ RecoverySpec /\ PicturesSpec /\ HandoverSpec
<1>1. Init => /\ CartInit /\ LifecycleInit /\ EngagementInit /\ DirectoryInit
              /\ ScreenInit /\ AccountInit /\ InvitationInit /\ ActivityInit
              /\ ConnectionInit /\ HubInit /\ ChatInit /\ LimiterInit
              /\ AuthInit /\ InstanceInit /\ RecoveryInit /\ PicturesInit /\ HandoverInit
  BY DEF Init
<1>2. [Next]_vars => /\ [CartNext]_cartVars /\ [LifecycleNext]_lifecycleVars
                     /\ [EngagementNext]_engagementVars /\ [DirectoryNext]_directoryVars
  BY StepOfEach DEF CatalogueSteps
<1>3. [Next]_vars => /\ [ScreenNext]_screenVars /\ [AccountNext]_accountVars
                     /\ [InvitationNext]_invitationVars /\ [ActivityNext]_activityVars
  BY StepOfEach DEF PeopleSteps
<1>4. [Next]_vars => /\ [ConnectionNext]_connectionVars /\ [HubNext]_hubVars
                     /\ [ChatNext]_chatVars /\ [LimiterNext]_limiterVars
  BY StepOfEach DEF ChatSteps
<1>5. [Next]_vars => /\ [AuthNext]_authVars /\ [InstanceNext]_instanceVars
                     /\ [RecoveryNext]_recoveryVars
                     /\ [PicturesNext]_pictureVars /\ [HandoverNext]_handoverVars
  BY StepOfEach DEF PlatformSteps
<1>6. Spec => CartSpec /\ LifecycleSpec /\ EngagementSpec /\ DirectorySpec
  BY <1>1, <1>2, PTL DEF Spec, CartSpec, LifecycleSpec, EngagementSpec, DirectorySpec
<1>7. Spec => ScreenSpec /\ AccountSpec /\ InvitationSpec /\ ActivitySpec
  BY <1>1, <1>3, PTL DEF Spec, ScreenSpec, AccountSpec, InvitationSpec, ActivitySpec
<1>8. Spec => ConnectionSpec /\ HubSpec /\ ChatSpec /\ LimiterSpec
  BY <1>1, <1>4, PTL DEF Spec, ConnectionSpec, HubSpec, ChatSpec, LimiterSpec
<1>9. Spec => AuthSpec /\ InstanceSpec /\ RecoverySpec /\ PicturesSpec /\ HandoverSpec
  BY <1>1, <1>5, PTL DEF Spec, AuthSpec, InstanceSpec, RecoverySpec, PicturesSpec, HandoverSpec
<1>. QED
  BY <1>6, <1>7, <1>8, <1>9

(***************************************************************************)
(* Every variable of the marketplace has its type; a cart line never asks  *)
(* for more than was listed, and the socket manager is open exactly when   *)
(* it owns a socket.                                                       *)
(***************************************************************************)
THEOREM MarketTyped == Spec => []MarketTypeOK
<1>1. LifecycleInv => LifecycleTypeOK
  BY LifecycleShows
<1>2. ScreenInv => ScreenTypeOK
  BY DEF ScreenInv
<1>3. AccountInv => AccountTypeOK
  BY AccountShows
<1>4. ConnectionInv => ConnectionTypeOK
  BY ConnectionShows
<1>5. ChatInv => ChatTypeOK
  BY ChatShows
<1>6. HandoverInv => HandoverTypeOK
  BY DEF HandoverInv
<1>. QED
  BY PartsRunAlone, NeverOvershoots, LifecycleInvariant, ScreenInvariant, AccountInvariant,
     InvitationTyped, ActivityTyped, ConnectionInvariant, ChatInvariant, CallersTyped,
     HandoverInvariant, <1>1, <1>2, <1>3, <1>4, <1>5, <1>6, PTL DEF MarketTypeOK

\* What the catalogue counts and lists agrees with the rows behind it
\* (listing_engagement, admin-service.ts).
THEOREM CatalogueIsSound == Spec => []CatalogueSound
  BY PartsRunAlone, CountersTrue, DirectoryIsSound, PTL DEF CatalogueSound

(***************************************************************************)
(* While sockets, tickets and instances come and go: a connection is       *)
(* retried within bounds and forgets no tab, the hub hands an event to who *)
(* is in the room and only once, and a thread joins up, does not repeat    *)
(* what it began with and claims no reading (ws-client.ts,                 *)
(* chat_realtime.py, chat-thread.tsx).                                     *)
(***************************************************************************)
THEOREM ChatIsSound == Spec => []ChatSound
  BY PartsRunAlone, TabNeverForgotten, HubServesOnce, ThreadsTellTheTruth, PTL DEF ChatSound

\* A backend process is what it says: its limiter's counts, lost answers included,
\* its probe, its answers and whom it lets in (rate_limit.py, health.py, main.py,
\* security.py).
THEOREM BackendIsSound == Spec => []BackendSound
  BY PartsRunAlone, LimitHolds, InstanceIsSound, CallersAreSound, PTL DEF BackendSound

(***************************************************************************)
(* Nobody is let in, claimed or sent away but by right, whichever requests *)
(* and mails are lost (account-provisioning.ts,                            *)
(* admin-seller-onboarding-service.ts, verify-email-flow.ts).              *)
(***************************************************************************)
THEOREM PeopleAreSafe == Spec => []PeopleSound
  BY PartsRunAlone, AccountsAreSound, OneClaimant, RecoveryIsSound, PTL DEF PeopleSound

\* A removed cart line stays removed, and a listing comes on sale by right
\* (cart-service.ts, catalog/service.ts).
THEOREM CatalogueMovesByRight == Spec => CatalogueMoves
  BY PartsRunAlone, RemovedStays, OnSaleByRight, PTL DEF CatalogueMoves

\* A claim that is young is honoured, and the record of a session never goes back
\* (admin-seller-onboarding-service.ts, session-activity.ts).
THEOREM PeopleMoveByRight == Spec => PeopleMoves
  BY PartsRunAlone, ClaimHonoured, RecordHonest, PTL DEF PeopleMoves

(***************************************************************************)
(* What is proved of the remaining parts, of the marketplace: the payment  *)
(* page says paid only of what was collected, pictures are shown and       *)
(* orders handed over by right.                                            *)
(***************************************************************************)
THEOREM MarketplaceSafe ==
    Spec => []SuccessIsServers /\ []PicturesSound /\ []HandoverSound
  BY PartsRunAlone, SuccessOnlyWhenCollected, PicturesAreSound, HandedOver, PTL
===============================================================================
