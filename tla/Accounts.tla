-------------------------------- MODULE Accounts --------------------------------
(***************************************************************************)
(* One email address: its identities at the sign-in provider, one after    *)
(* the other, and the application row they map to.                         *)
(*                                                                         *)
(* Sign-up and sign-in make the row exist in several statements of their   *)
(* own; completing the profile does it in one transaction; every guard     *)
(* reads it.  The application database may be away at any statement.       *)
(***************************************************************************)
EXTENDS Naturals, FiniteSets

CONSTANTS
    Requests,     \* bound: requests under way
    Identities,   \* bound: identities the provider ever holds for the email
    NoIdentity,
    MaxRequests   \* bound: requests ever made

ASSUME AccountAssumption ==
    /\ NoIdentity \notin Identities
    /\ MaxRequests \in Nat

VARIABLES
    user,       \* the row of the email, NoUser when there is none
    identity,   \* the provider's current identity for the email
    known,      \* the identities there have been
    session,    \* the sessions of each identity
    links,      \* MALIHUB_AUTH_LINK_UNMAPPED_BY_EMAIL
    request,
    made

accountVars == <<user, identity, known, session, links, request, made>>

NoUser == [auth |-> NoIdentity]
Role   == {"BUYER", "SELLER", "ADMIN"}
User   == {NoUser} \cup
    [auth : Identities \cup {NoIdentity}, profile : BOOLEAN, onboarded : BOOLEAN,
     role : Role, shop : BOOLEAN, banned : BOOLEAN]
Idle   == [pc |-> "idle"]

NewRow(i) == [auth |-> i, profile |-> FALSE, onboarded |-> FALSE,
              role |-> "BUYER", shop |-> FALSE, banned |-> FALSE]

\* No row, a row of the previous provider, or one an administrator made.
AccountInit ==
    /\ \/ user = NoUser
       \/ user = [NewRow(NoIdentity) EXCEPT !.profile = TRUE, !.onboarded = TRUE]
       \/ user = [NewRow(NoIdentity) EXCEPT !.profile = TRUE, !.onboarded = TRUE,
                                            !.shop = TRUE]
    /\ identity = NoIdentity
    /\ known = {}
    /\ session = [i \in Identities |-> "none"]
    /\ links \in BOOLEAN
    /\ request = [r \in Requests |-> Idle]
    /\ made = 0

-------------------------------------------------------------------------------
Exists        == user # NoUser
MappedTo(i)   == Exists /\ user.auth = i
Onboarded(i)  == MappedTo(i) /\ user.onboarded
May(i)        == Onboarded(i) /\ ~user.banned

At(r, pc) == request[r].pc = pc

\* had: what held for the identity when its request came.
Begin(r, kind, i, pc) ==
    /\ At(r, "idle")
    /\ made < MaxRequests
    /\ made' = made + 1
    /\ request' = [request EXCEPT ![r] =
          [pc |-> pc, kind |-> kind, who |-> i, had |-> Onboarded(i)]]

Goto(r, pc) ==
    request' = [request EXCEPT ![r].pc = pc]

Answer(r, a) ==
    request' = [request EXCEPT ![r] =
          [pc |-> "answered", kind |-> @.kind, who |-> @.who, had |-> @.had, answer |-> a]]

Done(r) ==
    /\ At(r, "answered")
    /\ request' = [request EXCEPT ![r] = Idle]
    /\ UNCHANGED <<user, identity, known, session, links, made>>

-------------------------------------------------------------------------------
(* Sign-up and sign-in: the provider first, then the rows.                 *)

\* signUpAction, providerSignUp: the email is free at the provider.
SignUp(r) ==
    /\ identity = NoIdentity
    /\ \E i \in Identities \ known :
          /\ identity' = i
          /\ known' = known \cup {i}
          /\ session' \in {session, [session EXCEPT ![i] = "live"]}
          /\ Begin(r, "sign-up", i, "find")
    /\ UNCHANGED <<user, links>>

\* signInAction, or the return from Google.
SignIn(r) ==
    /\ identity # NoIdentity
    /\ session' = [session EXCEPT ![identity] = "live"]
    /\ Begin(r, "sign-in", identity, "find")
    /\ UNCHANGED <<user, identity, known, links>>

\* Provisioning failed: sign-in gives the session up, sign-up does not mind.
Unprovisioned(r) ==
    IF request[r].kind = "sign-in" THEN Goto(r, "clear") ELSE Answer(r, "complete")

\* A statement finds the database away, or the row in its way.
ProvisionFails(r) ==
    /\ \/ At(r, "find") \/ At(r, "byEmail") \/ At(r, "claim") \/ At(r, "create") \/ At(r, "fill")
    /\ Unprovisioned(r)
    /\ UNCHANGED <<user, identity, known, session, links, made>>

FindMapped(r) ==
    /\ At(r, "find")
    /\ Goto(r, IF MappedTo(request[r].who) THEN "fill" ELSE "byEmail")
    /\ UNCHANGED <<user, identity, known, session, links, made>>

\* legacy_unmapped and email_in_use are ProvisionFails.
FindByEmail(r) ==
    /\ At(r, "byEmail")
    /\ \/ ~Exists /\ Goto(r, "create")
       \/ MappedTo(NoIdentity) /\ links /\ Goto(r, "claim")
    /\ UNCHANGED <<user, identity, known, session, links, made>>

\* The row is claimed by its id: whoever it belongs to by now.
Claim(r) ==
    /\ At(r, "claim")
    /\ user' = [user EXCEPT !.auth = request[r].who]
    /\ Goto(r, "fill")
    /\ UNCHANGED <<identity, known, session, links, made>>

\* The email is unique: another request's row makes this one fail.
CreateRow(r) ==
    /\ At(r, "create")
    /\ ~Exists
    /\ user' = NewRow(request[r].who)
    /\ Goto(r, "fill")
    /\ UNCHANGED <<identity, known, session, links, made>>

\* The email and the profile, never the phone or the role.
Fill(r) ==
    /\ At(r, "fill")
    /\ user' = [user EXCEPT !.profile = TRUE]
    /\ IF request[r].kind = "sign-in" THEN Goto(r, "state") ELSE Answer(r, "complete")
    /\ UNCHANGED <<identity, known, session, links, made>>

\* Mutant of ReadState: a state that cannot be read is taken for onboarded.
ReadStateFailingOpen(r) ==
    /\ At(r, "state")
    /\ Answer(r, "dashboard")
    /\ UNCHANGED <<user, identity, known, session, links, made>>

\* The row read by its id decides where the person goes.
ReadState(r) ==
    /\ At(r, "state")
    /\ \/ Answer(r, IF user.onboarded THEN "dashboard" ELSE "complete")
       \/ Goto(r, "clear")
    /\ UNCHANGED <<user, identity, known, session, links, made>>

\* clearSessionBestEffort: the provider may not be reached.
ClearSession(r) ==
    /\ At(r, "clear")
    /\ session' \in {session, [session EXCEPT ![request[r].who] = "none"]}
    /\ Answer(r, "refused")
    /\ UNCHANGED <<user, identity, known, links, made>>

SignOut(i) ==
    /\ session[i] # "none"
    /\ session' = [session EXCEPT ![i] = "none"]
    /\ UNCHANGED <<user, identity, known, links, request, made>>

-------------------------------------------------------------------------------
(* Guards: getAuthContext, then what each kind makes of it.                *)

\* "page" redirects, "action" answers, "profile" needs only the identity.
Guarded(r, kind, i) ==
    /\ session[i] = "live"
    /\ Begin(r, kind, i, "access")
    /\ UNCHANGED <<user, identity, known, session, links>>

\* The database is away: app_database_unavailable, and no user.
AccessFails(r) ==
    /\ At(r, "access")
    /\ Answer(r, IF request[r].kind = "page" THEN "complete" ELSE "unavailable")
    /\ UNCHANGED <<user, identity, known, session, links, made>>

ReadAccess(r) ==
    /\ At(r, "access")
    /\ request[r].kind # "profile"
    /\ Answer(r, CASE ~MappedTo(request[r].who) -> "complete"
                   [] user.banned               -> "banned"
                   [] ~user.onboarded           -> "complete"
                   [] OTHER                     -> "served")
    /\ UNCHANGED <<user, identity, known, session, links, made>>

\* completeProfileAction: requireActionIdentity.
MaySave(r) ==
    /\ At(r, "access")
    /\ request[r].kind = "profile"
    /\ IF MappedTo(request[r].who) /\ user.banned
       THEN Answer(r, "banned")
       ELSE Goto(r, "save")
    /\ UNCHANGED <<user, identity, known, session, links, made>>

\* The row the transaction finds, claims or makes.
Resolved(i) ==
    CASE ~Exists             -> NewRow(i)
      [] MappedTo(i)         -> user
      [] MappedTo(NoIdentity) /\ links -> [user EXCEPT !.auth = i]

\* saveCompletedProfile in one transaction: the role is written whatever it
\* was, the shop only when there is none.
SaveProfile(r) ==
    /\ At(r, "save")
    /\ ~Exists \/ MappedTo(request[r].who) \/ (MappedTo(NoIdentity) /\ links)
    /\ \E sells \in BOOLEAN :
          user' = [Resolved(request[r].who) EXCEPT
                      !.profile = TRUE, !.onboarded = TRUE,
                      !.role = IF sells THEN "SELLER" ELSE "BUYER",
                      !.shop = @ \/ sells]
    /\ Answer(r, "dashboard")
    /\ UNCHANGED <<identity, known, session, links, made>>

\* The phone is taken, the email is, or the database is away: rolled back.
SaveFails(r) ==
    /\ At(r, "save")
    /\ Answer(r, "refused")
    /\ UNCHANGED <<user, identity, known, session, links, made>>

-------------------------------------------------------------------------------
(* Outside: the provider's console, administrators.                        *)

\* The account is deleted at the provider and may be registered anew.
Unregister ==
    /\ identity # NoIdentity
    /\ identity' = NoIdentity
    /\ UNCHANGED <<user, known, session, links, request, made>>

Ban ==
    /\ Exists
    /\ ~user.banned
    /\ user' = [user EXCEPT !.banned = TRUE]
    /\ UNCHANGED <<identity, known, session, links, request, made>>

Appoint ==
    /\ Exists
    /\ user.onboarded
    /\ user' = [user EXCEPT !.role = "ADMIN"]
    /\ UNCHANGED <<identity, known, session, links, request, made>>

-------------------------------------------------------------------------------
RequestSteps(r) ==
    \/ SignUp(r)
    \/ SignIn(r)
    \/ ProvisionFails(r)
    \/ FindMapped(r)
    \/ FindByEmail(r)
    \/ Claim(r)
    \/ CreateRow(r)
    \/ Fill(r)
    \/ ReadState(r)
    \/ ClearSession(r)
    \/ \E kind \in {"page", "action", "profile"}, i \in Identities : Guarded(r, kind, i)
    \/ AccessFails(r)
    \/ ReadAccess(r)
    \/ MaySave(r)
    \/ SaveProfile(r)
    \/ SaveFails(r)
    \/ Done(r)

AccountNext ==
    \/ \E r \in Requests : RequestSteps(r)
    \/ \E i \in Identities : SignOut(i)
    \/ Unregister
    \/ Ban
    \/ Appoint

AccountSpec == AccountInit /\ [][AccountNext]_accountVars

-------------------------------------------------------------------------------
AccountTypeOK ==
    /\ user \in User
    /\ identity \in known \cup {NoIdentity}
    /\ known \subseteq Identities
    /\ session \in [Identities -> {"none", "live"}]
    /\ links \in BOOLEAN
    /\ made \in 0 .. MaxRequests
    /\ \A r \in Requests :
          At(r, "idle") \/ (request[r].who \in known /\ request[r].had \in BOOLEAN)

(***************************************************************************)
(* A sign-in answers with a dashboard only for an account that finished    *)
(* onboarding: what could not be read is never taken for it.               *)
(***************************************************************************)
SignInFailsClosed ==
    \A r \in Requests :
        At(r, "answered") /\ request[r].kind = "sign-in" /\ request[r].answer = "dashboard"
            => user.onboarded

(***************************************************************************)
(* The role SELLER never stands without a shop row, whichever sign-ins,    *)
(* claims and profile saves overlap: the seller screens go by the shop.    *)
(***************************************************************************)
SellerHasShop ==
    Exists /\ user.role = "SELLER" => user.shop

(***************************************************************************)
(* An account that finished onboarding is never sent to complete it again: *)
(* "could not read" is not "not onboarded" (auth-service.ts:45).           *)
(***************************************************************************)
OnboardedNotSentBack ==
    \A r \in Requests :
        At(r, "answered") /\ request[r].kind \in {"page", "action"}
            /\ request[r].answer = "complete"
        => ~request[r].had

\* What an account may see follows from what the database holds: no dashboard
\* before onboarding, no seller without a shop.
AccountsSound == SignInFailsClosed /\ SellerHasShop
===============================================================================
