---------------------------- MODULE MCMarketplace ----------------------------
(***************************************************************************)
(* The marketplace around the order: cart, listings, the checkout page,    *)
(* accounts and sessions, chat, uploads, handover, and the backend's       *)
(* process, its limiter and its gate, checked in one run.  They share no   *)
(* state: in every behaviour only the part in focus moves.                 *)
(***************************************************************************)
EXTENDS Cart, ListingLifecycle, ListingEngagement, MarketDirectory, PaymentScreen,
        Accounts, SellerInvitation, SessionActivity,
        ChatConnection, ChatHub, ChatMessages, RateLimit,
        BackendAuth, BackendInstance, AccountRecovery, PictureUploads, OrderFulfilment

CONSTANTS Focus

VARIABLE focus

\* Two tabs of one user.
MCTicketUser == [t \in Tickets |-> Buyer]

vars == <<focus, cartVars, lifecycleVars, engagementVars, directoryVars, screenVars,
          accountVars, invitationVars, activityVars, connectionVars, hubVars, chatVars,
          limiterVars, authVars, instanceVars, recoveryVars, pictureVars, handoverVars>>

\* One initial state for a part that is not in focus.
Calm ==
    /\ IF focus = "callers" THEN TRUE ELSE authMode = "neon-jwks"
    /\ IF focus = "instance" THEN TRUE
       ELSE /\ settings = [production |-> TRUE, configured |-> Dependencies, auth |-> TRUE]
            /\ up = Dependencies
    /\ IF focus = "recovery" THEN TRUE
       ELSE purpose = "verify" /\ service = [configured |-> TRUE, links |-> TRUE]
    /\ IF focus = "pictures" THEN TRUE
       ELSE album = "profile" /\ uploadsPaused = FALSE /\ avatar = NoPicture

Init ==
    /\ focus \in Focus
    /\ Calm
    /\ AuthInit /\ InstanceInit /\ RecoveryInit /\ PicturesInit /\ HandoverInit
    /\ CartInit /\ LifecycleInit /\ EngagementInit /\ DirectoryInit /\ ScreenInit
    /\ AccountInit /\ InvitationInit /\ ActivityInit
    /\ ConnectionInit /\ HubInit /\ ChatInit /\ LimiterInit
    /\ focus # "accounts" => user = NoUser /\ ~links
    /\ focus # "lifecycle" => role = "BUYER"

\* Instances, and tickets of one user, are interchangeable: the first socket
\* comes to the first instance with the first ticket.
FirstSocketFirst ==
    conn'[1].pc # "none" => conn'[1].server = 1 /\ conn'[1].ticket = 1

\* Who blocks makes no difference to a chat: here it is the buyer.
BuyerBlocks == ~blocked'[Seller]

\* The part p makes a step and the variables others stay.
Focused(p, step, others) == focus = p /\ step /\ UNCHANGED others

Catalogue == <<cartVars, lifecycleVars, engagementVars, directoryVars>>
People    == <<screenVars, accountVars, invitationVars, activityVars>>
Chat      == <<connectionVars, hubVars, chatVars, limiterVars>>
Platform  == <<authVars, instanceVars, recoveryVars, pictureVars, handoverVars>>

Next ==
    /\ UNCHANGED focus
    /\ \/ /\ focus \in {"cart", "lifecycle", "engagement", "directory"}
          /\ UNCHANGED <<People, Chat, Platform>>
          /\ \/ Focused("cart", CartNext, <<lifecycleVars, engagementVars, directoryVars>>)
             \/ Focused("lifecycle", LifecycleNext, <<cartVars, engagementVars, directoryVars>>)
             \/ Focused("engagement", EngagementNext, <<cartVars, lifecycleVars, directoryVars>>)
             \/ Focused("directory", DirectoryNext, <<cartVars, lifecycleVars, engagementVars>>)
       \/ /\ focus \in {"screen", "accounts", "invitation", "activity"}
          /\ UNCHANGED <<Catalogue, Chat, Platform>>
          /\ \/ Focused("screen", ScreenNext, <<accountVars, invitationVars, activityVars>>)
             \/ Focused("accounts", AccountNext, <<screenVars, invitationVars, activityVars>>)
             \/ Focused("invitation", InvitationNext, <<screenVars, accountVars, activityVars>>)
             \/ Focused("activity", ActivityNext, <<screenVars, accountVars, invitationVars>>)
       \/ /\ focus \in {"connection", "hub", "messages", "limiter"}
          /\ UNCHANGED <<Catalogue, People, Platform>>
          /\ \/ Focused("connection", ConnectionNext, <<hubVars, chatVars, limiterVars>>)
             \/ Focused("hub", HubNext /\ FirstSocketFirst, <<connectionVars, chatVars, limiterVars>>)
             \/ Focused("messages", ChatNext /\ BuyerBlocks, <<connectionVars, hubVars, limiterVars>>)
             \/ Focused("limiter", LimiterNext, <<connectionVars, hubVars, chatVars>>)
       \/ /\ focus \in {"callers", "instance", "recovery", "pictures", "handover"}
          /\ UNCHANGED <<Catalogue, People, Chat>>
          /\ \/ Focused("callers", AuthNext, <<instanceVars, recoveryVars, pictureVars, handoverVars>>)
             \/ Focused("instance", InstanceNext, <<authVars, recoveryVars, pictureVars, handoverVars>>)
             \/ Focused("recovery", RecoveryNext, <<authVars, instanceVars, pictureVars, handoverVars>>)
             \/ Focused("pictures", PicturesNext, <<authVars, instanceVars, recoveryVars, handoverVars>>)
             \/ Focused("handover", HandoverNext, <<authVars, instanceVars, recoveryVars, pictureVars>>)

(***************************************************************************)
(* Every variable has its type; the cart line never asks for more than was *)
(* listed, no record of a session lies in the future, and the socket       *)
(* manager is open exactly when it owns a socket.                          *)
(***************************************************************************)
MarketTypeOK ==
    /\ CartTypeOK /\ LifecycleTypeOK
    /\ ScreenTypeOK /\ AccountTypeOK /\ InvitationTypeOK /\ ActivityTypeOK
    /\ ConnectionTypeOK /\ ChatTypeOK
    /\ AuthTypeOK /\ HandoverTypeOK

(***************************************************************************)
(* Counters and lists of the catalogue agree with what is behind them: a   *)
(* product's likes and views (listing_engagement), and the category tree   *)
(* and sellers the administrators edit (admin-service.ts).                 *)
(***************************************************************************)
CatalogueSound == EngagementSound /\ DirectorySound

(***************************************************************************)
(* While sockets, tickets and instances come and go: a connection is       *)
(* retried within bounds and forgets no tab, the hub hands an event to who *)
(* is in the room and only once, and the thread on the page joins up, does *)
(* not repeat what it began with and claims no reading (ws-client.ts,      *)
(* chat_realtime.py, chat-thread.tsx).                                     *)
(***************************************************************************)
ChatSound == ConnectionSound /\ HubSound /\ ThreadSound

(***************************************************************************)
(* A backend process is what it says: its limiter counts no more in than   *)
(* the limit and refuses nobody for what is past, a ready probe means      *)
(* ready, every answer begins once, and only who may act is let in         *)
(* (rate_limit.py, health.py, main.py, security.py).                       *)
(***************************************************************************)
BackendSound == LimiterSound /\ InstanceSound /\ CallersSound

(***************************************************************************)
(* Accounts, invitations and recovery: a dashboard only for who is         *)
(* onboarded, one activation on an invitation, and nothing said to be sent *)
(* or done that was not (account-provisioning.ts,                          *)
(* admin-seller-onboarding-service.ts, verify-email-flow.ts).              *)
(***************************************************************************)
PeopleSound == AccountsSound /\ ClaimIsOfCurrentLink /\ RecoverySound

\* What a step of the catalogue may never do: bring a removed cart line back, or a
\* listing on sale without right (cart-service.ts, catalog/service.ts).
CatalogueMoves == RemovedLineStaysRemoved /\ PublishedByRight

\* What a step of an account may never do: take over a claim that is young, or turn
\* the record of a session back (admin-seller-onboarding-service.ts,
\* session-activity.ts).
PeopleMoves == ClaimIsHonoured /\ RecordIsHonest

Spec == Init /\ [][Next]_vars /\ ScreenFairness
===============================================================================
