------------------------------ MODULE BackendAuth ------------------------------
(***************************************************************************)
(* How the backend decides who is calling: the bearer token is checked     *)
(* against the keys the sign-in service publishes, then the account is     *)
(* read from Postgres.                                                     *)
(*                                                                         *)
(* While a call is on its way the service rotates its key, its key         *)
(* endpoint and the database come and go, the token expires, and the       *)
(* account is banned, promoted or unlinked.                                *)
(***************************************************************************)
EXTENDS Naturals

CONSTANTS
    ApiCalls,
    MaxKeys,         \* bound: signing keys ever published
    MaxAuthChanges   \* bound: outages, recoveries and account changes

ASSUME BackendAuthAssumption == MaxKeys \in Nat \ {0} /\ MaxAuthChanges \in Nat

VARIABLES
    authMode,      \* active_auth_mode: how this process checks tokens
    signer,        \* the key the service publishes and signs with
    keysCached,    \* the keys this process has fetched
    keysUp,        \* the key endpoint answers
    accountsUp,    \* the database answers
    account,       \* the caller's row: its role, and whether it may act
    apiCall,       \* "rows" remembers every row since the call began
    authChanges

authVars == <<authMode, signer, keysCached, keysUp, accountsUp, account, apiCall, authChanges>>
authWorld == <<authMode, signer, keysUp, accountsUp, account, authChanges>>

active_auth_mode == {"neon-jwks", "supabase-jwks", "supabase-hs256", "unconfigured"}
Legacy == authMode \in {"supabase-jwks", "supabase-hs256"}

APP_ROLES == {"BUYER", "SELLER", "ADMIN", "SUPER_ADMIN"}
STAFF_ROLES == {"ADMIN", "SUPER_ADMIN"}
Rows == [role : {"BUYER", "ADMIN", "other"}, state : {"active"}]
        \cup [role : {"ADMIN"}, state : {"banned", "unmapped"}]

\* 0 is a key the service never published.
Tokens == [kind : {"none", "genuine", "expired", "forged", "unpinned", "service"},
           kid : 0 .. MaxKeys, role : {"BUYER", "ADMIN"}]
NoToken == [kind |-> "none", kid |-> 0, role |-> "BUYER"]
Gates == {"anyone", "signed in", "staff"}

\* "service" is the retired provider's server credential.
Possible(token) ==
    /\ token.kid <= signer
    /\ token.kid = 0 => token.kind = "forged" \/ token = NoToken
    /\ token.kind = "none" => token = NoToken
    /\ token.kind \in {"forged", "unpinned", "service"} => token.kid <= 1
    /\ token.role # "BUYER" => Legacy /\ token.kind = "genuine"
    /\ token.kind = "service" => Legacy

AuthInit ==
    /\ authMode \in active_auth_mode
    /\ signer = 1
    /\ keysCached = {} /\ keysUp = TRUE /\ accountsUp = TRUE
    /\ account = [role |-> "BUYER", state |-> "active"]
    /\ apiCall = [c \in ApiCalls |-> [pc |-> "none", token |-> NoToken, gate |-> "anyone",
                                   rows |-> {}, role |-> "none", status |-> 0]]
    /\ authChanges = 0

Steps(c, next) == apiCall' = [apiCall EXCEPT ![c] = next] /\ UNCHANGED authWorld
Moves(c, pc) == Steps(c, [apiCall[c] EXCEPT !.pc = pc])
Answers(c, code) == Steps(c, [apiCall[c] EXCEPT !.pc = "answered", !.status = code])
Identified(c, asRole) == Steps(c, [apiCall[c] EXCEPT !.pc = "gate", !.role = asRole])

ApiCallArrives(c) ==
    /\ apiCall[c].pc \in {"none", "answered"}
    /\ UNCHANGED keysCached
    /\ \E token \in {t \in Tokens : Possible(t)}, gate \in Gates :
         Steps(c, [pc |-> "bearer", token |-> token, gate |-> gate, rows |-> {account},
                   role |-> "none", status |-> 0])

\* No token: only an endpoint that serves anybody goes on.
ExtractBearer(c) ==
    /\ apiCall[c].pc = "bearer"
    /\ UNCHANGED keysCached
    /\ LET kind == apiCall[c].token.kind IN
       CASE kind = "none"               -> Answers(c, IF apiCall[c].gate = "anyone" THEN 200 ELSE 401)
         [] kind # "none" /\ authMode = "unconfigured"                    -> Answers(c, 503)
         [] kind # "none" /\ authMode = "supabase-hs256"                  -> Moves(c, "decode")
         [] kind = "unpinned" /\ authMode = "neon-jwks"                   -> Answers(c, 401)
         [] OTHER                                                         -> Moves(c, "key")

\* Mutant of KeyUnknown: an unreachable key endpoint reads as a bad token.
KeyUnknownBlaming == 401

\* The key endpoint does not answer, or does not know the token's key.
KeyUnknown == IF authMode = "neon-jwks" THEN 503 ELSE 401

\* A key not cached is fetched; keys fetched before stay in the cache, rotated
\* out or not.
SigningKey(c) ==
    /\ apiCall[c].pc = "key"
    /\ LET kid == apiCall[c].token.kid IN
       /\ keysCached' = IF kid \notin keysCached /\ keysUp THEN keysCached \cup {signer}
                                                            ELSE keysCached
       /\ IF kid \in keysCached' THEN Moves(c, "decode") ELSE Answers(c, KeyUnknown)

\* Anything but a recognised role is the least privileged one.
NormalRole(named) == IF named \in APP_ROLES THEN named ELSE "BUYER"

\* Signature and dates.  The retired provider's claims are the account.
Decode(c) ==
    /\ apiCall[c].pc = "decode"
    /\ UNCHANGED keysCached
    /\ LET token == apiCall[c].token IN
       CASE token.kind \in {"expired", "forged", "unpinned"}  -> Answers(c, 401)
         [] token.kind = "service"                            -> Answers(c, 403)
         [] token.kind = "genuine" /\ Legacy                  -> Identified(c, NormalRole(token.role))
         [] OTHER                                             -> Moves(c, "account")

\* One query for the account; a token says nothing about it.
ResolveIdentity(c) ==
    /\ apiCall[c].pc = "account"
    /\ UNCHANGED keysCached
    /\ CASE ~accountsUp                                -> Answers(c, 503)
         [] accountsUp /\ account.state # "active"     -> Answers(c, 403)
         [] accountsUp /\ account.state = "active"     -> Identified(c, NormalRole(account.role))

\* require_role: the coarse gate before the handler.
RequireRole(c) ==
    /\ apiCall[c].pc = "gate"
    /\ UNCHANGED keysCached
    /\ Answers(c, IF apiCall[c].gate = "staff" /\ apiCall[c].role \notin STAFF_ROLES
                  THEN 403 ELSE 200)

Changes ==
    /\ authChanges < MaxAuthChanges
    /\ authChanges' = authChanges + 1
    /\ UNCHANGED <<authMode, keysCached>>

\* The service signs with a new key and stops publishing the old one.
RotateKey ==
    /\ Changes
    /\ signer < MaxKeys
    /\ signer' = signer + 1
    /\ UNCHANGED <<keysUp, accountsUp, account, apiCall>>

Outage ==
    /\ Changes
    /\ \/ keysUp' = ~keysUp /\ UNCHANGED accountsUp
       \/ accountsUp' = ~accountsUp /\ UNCHANGED keysUp
    /\ UNCHANGED <<signer, account, apiCall>>

\* A moderator, the app or the console changes the caller's row.
ChangeAccount ==
    /\ Changes
    /\ \E new \in Rows \ {account} :
         /\ account' = new
         /\ apiCall' = [c \in ApiCalls |->
               IF apiCall[c].pc \in {"none", "answered"} THEN apiCall[c]
               ELSE [apiCall[c] EXCEPT !.rows = @ \cup {new}]]
    /\ UNCHANGED <<signer, keysUp, accountsUp>>

\* The cached key set outlives its five minutes; single keys are kept beyond
\* that, until sixteen newer ones or a restart of the process drive them out.
KeysExpire ==
    /\ \E kept \in (SUBSET keysCached) \ {keysCached} : keysCached' = kept
    /\ UNCHANGED <<authWorld, apiCall>>

TokenExpires(c) ==
    /\ apiCall[c].pc \in {"bearer", "key", "decode"}
    /\ apiCall[c].token.kind = "genuine"
    /\ UNCHANGED keysCached
    /\ Steps(c, [apiCall[c] EXCEPT !.token.kind = "expired"])

AuthNext ==
    \/ \E c \in ApiCalls :
         \/ ApiCallArrives(c) \/ ExtractBearer(c) \/ SigningKey(c) \/ Decode(c)
         \/ ResolveIdentity(c) \/ RequireRole(c) \/ TokenExpires(c)
    \/ RotateKey \/ Outage \/ ChangeAccount \/ KeysExpire

AuthSpec == AuthInit /\ [][AuthNext]_authVars

\* The types, of which a call's role is that of a row or of a claim.
AuthTypeOK ==
    /\ authMode \in active_auth_mode
    /\ signer \in 1 .. MaxKeys /\ keysCached \subseteq 1 .. MaxKeys
    /\ keysUp \in BOOLEAN /\ accountsUp \in BOOLEAN
    /\ account \in Rows
    /\ authChanges \in 0 .. MaxAuthChanges
    /\ apiCall \in [ApiCalls ->
          [pc : {"none", "bearer", "key", "decode", "account", "gate", "answered"},
           token : Tokens, gate : Gates, rows : SUBSET Rows, role : APP_ROLES \cup {"none"},
           status : {0, 200, 401, 403, 503}]]

CallAnswered(c, code) == apiCall[c].pc = "answered" /\ apiCall[c].status = code

(***************************************************************************)
(* A good token is never answered 401, whatever is down or was rotated: a  *)
(* client told 401 signs in again, and would be refused again              *)
(* (security.py, NeonAuthJwtVerifier).                                     *)
(***************************************************************************)
NoLoginLoop ==
    authMode = "neon-jwks" =>
        \A c \in ApiCalls : CallAnswered(c, 401) => apiCall[c].token.kind # "genuine"

(***************************************************************************)
(* A caller let in with a token held, at some moment of this very call, an *)
(* account that may act, and a staff endpoint let in only staff: a ban or  *)
(* a demotion counts from the next call on, and an outage lets nobody in.  *)
(***************************************************************************)
AdmittedAsStored ==
    authMode \in {"neon-jwks", "unconfigured"} =>
        \A c \in ApiCalls :
            CallAnswered(c, 200) /\ apiCall[c].token.kind # "none" =>
                \E seen \in apiCall[c].rows :
                    /\ seen.state = "active" /\ NormalRole(seen.role) = apiCall[c].role
                    /\ apiCall[c].gate = "staff" => seen.role \in STAFF_ROLES

\* Nobody is let in on a token the active provider did not sign.
ForgeriesFail ==
    \A c \in ApiCalls :
        CallAnswered(c, 200) => apiCall[c].token.kind \in {"none", "genuine"}

CallersSound == NoLoginLoop /\ AdmittedAsStored /\ ForgeriesFail
===============================================================================
