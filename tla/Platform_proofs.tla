--------------------------- MODULE Platform_proofs ----------------------------
(***************************************************************************)
(* Proofs about the platform under the marketplace: who the backend lets   *)
(* in, the handover of an order from seller to buyer, the pictures of      *)
(* profiles and listings, a backend process with its probes, and chat: the *)
(* connection of a tab, the rooms of the server, a conversation and what   *)
(* its threads show, and the limiter in front of the backend.              *)
(***************************************************************************)
EXTENDS BackendAuth, OrderFulfilment, PictureUploads, BackendInstance,
        ChatConnection, ChatHub, ChatMessages, RateLimit,
        FiniteSetTheorems, SequenceTheorems, TLAPS

-------------------------------------------------------------------------------
(***************************************************************************)
(* Who the backend lets in (BackendAuth).                                  *)
(***************************************************************************)
Stages == {"none", "bearer", "key", "decode", "account", "gate", "answered"}
Codes == {0, 200, 401, 403, 503}
CallRoles == APP_ROLES \cup {"none"}

CallRecords ==
    [pc : Stages, token : Tokens, gate : Gates, rows : SUBSET Rows, role : CallRoles, status : Codes]

CallsTyped ==
    /\ authMode \in active_auth_mode
    /\ account \in Rows
    /\ apiCall \in [ApiCalls -> CallRecords]

UnderWay(c) == apiCall[c].pc \notin {"none", "answered"}

\* A call under way has seen the row as it is now.
SeesAccount(call) == call.pc \notin {"none", "answered"} => account \in call.rows

\* Past the bearer step there is a token, and a way to check it.
HasToken(call) ==
    call.pc \in {"key", "decode", "account", "gate"} =>
        call.token.kind # "none" /\ authMode # "unconfigured"

\* Past the decoder the token is genuine.
TokenGenuine(call) == call.pc \in {"account", "gate"} => call.token.kind = "genuine"

\* A caller identified under the active provider was read as a row that may act.
Backed(call) ==
    \E seen \in call.rows : seen.state = "active" /\ NormalRole(seen.role) = call.role

IdentifiedAsStored(call) ==
    call.pc = "gate" /\ ~Legacy => Backed(call)

AnswersByRight(call) ==
    call.pc = "answered" =>
        /\ call.status = 401 /\ authMode = "neon-jwks" => call.token.kind # "genuine"
        /\ call.status = 200 => call.token.kind \in {"none", "genuine"}
        /\ call.status = 200 /\ ~Legacy /\ call.token.kind # "none" =>
              Backed(call) /\ (call.gate = "staff" => call.role \in STAFF_ROLES)

CallOK(call) ==
    /\ SeesAccount(call) /\ HasToken(call) /\ TokenGenuine(call)
    /\ IdentifiedAsStored(call) /\ AnswersByRight(call)

AuthInv == CallsTyped /\ \A c \in ApiCalls : CallOK(apiCall[c])

-------------------------------------------------------------------------------
LEMMA AuthStart == AuthInit => AuthInv
<1>. SUFFICES ASSUME AuthInit PROVE AuthInv
  OBVIOUS
<1>1. NoToken \in Tokens
  BY BackendAuthAssumption DEF NoToken, Tokens
<1>2. CallsTyped
  BY <1>1 DEF AuthInit, CallsTyped, CallRecords, Stages, Codes, CallRoles, Rows, Gates
<1>3. ASSUME NEW c \in ApiCalls PROVE CallOK(apiCall[c])
  BY DEF AuthInit, CallOK, SeesAccount, HasToken, TokenGenuine, IdentifiedAsStored, AnswersByRight
<1>. QED
  BY <1>2, <1>3 DEF AuthInv

\* A call that moves within the invariant keeps it.
LEMMA OneCall ==
    ASSUME AuthInv, NEW c \in ApiCalls, NEW next \in CallRecords,
           CallOK(next), Steps(c, next)
    PROVE  AuthInv'
<1>1. CallsTyped'
  BY DEF AuthInv, CallsTyped, Steps, authWorld
<1>2. ASSUME NEW d \in ApiCalls PROVE CallOK(apiCall'[d])
  BY DEF AuthInv, CallsTyped, Steps
<1>3. \A call : CallOK(call) => CallOK(call)'
  BY DEF CallOK, SeesAccount, HasToken, TokenGenuine, IdentifiedAsStored, AnswersByRight, Backed,
         Legacy, Steps, authWorld
<1>. QED
  BY <1>1, <1>2, <1>3 DEF AuthInv

\* Two fields of a call set at once.
LEMMA StatusSet ==
    ASSUME NEW call \in CallRecords, NEW pc \in Stages, NEW code \in Codes
    PROVE  [call EXCEPT !.pc = pc, !.status = code] \in CallRecords
  BY DEF CallRecords

LEMMA RoleSet ==
    ASSUME NEW call \in CallRecords, NEW pc \in Stages, NEW role \in CallRoles
    PROVE  [call EXCEPT !.pc = pc, !.role = role] \in CallRecords
  BY DEF CallRecords

\* What the typing of a call gives each lemma below.
LEMMA CallTyped ==
    ASSUME AuthInv, NEW c \in ApiCalls
    PROVE  apiCall[c] \in CallRecords /\ CallOK(apiCall[c])
  BY DEF AuthInv, CallsTyped

LEMMA MovesOn ==
    ASSUME AuthInv, NEW c \in ApiCalls,
           NEW pc \in {"key", "decode", "account"}, Moves(c, pc),
           apiCall[c].pc \notin {"none", "answered"},
           apiCall[c].token.kind # "none", authMode # "unconfigured",
           pc = "account" => apiCall[c].token.kind = "genuine"
    PROVE  AuthInv'
<1>. DEFINE next == [apiCall[c] EXCEPT !.pc = pc]
<1>1. apiCall[c] \in CallRecords /\ CallOK(apiCall[c])
  BY CallTyped
<1>2. next \in CallRecords /\ next.pc = pc /\ next.token = apiCall[c].token /\ next.rows = apiCall[c].rows
  BY <1>1 DEF CallRecords, Stages
<1>3. CallOK(next)
  BY <1>1, <1>2 DEF CallOK, SeesAccount, HasToken, TokenGenuine, IdentifiedAsStored, AnswersByRight
<1>. QED
  BY <1>2, <1>3, OneCall DEF Moves

LEMMA RefusalKeeps ==
    ASSUME AuthInv, NEW c \in ApiCalls, NEW code \in {401, 403, 503}, Answers(c, code),
           apiCall[c].pc \notin {"none", "answered"},
           code = 401 /\ authMode = "neon-jwks" => apiCall[c].token.kind # "genuine"
    PROVE  AuthInv'
<1>. DEFINE next == [apiCall[c] EXCEPT !.pc = "answered", !.status = code]
<1>1. apiCall[c] \in CallRecords
  BY CallTyped
<1>. "answered" \in Stages /\ code \in Codes
  BY DEF Stages, Codes
<1>2. next \in CallRecords
  BY <1>1 DEF CallRecords
<1>3. next.pc = "answered" /\ next.token = apiCall[c].token /\ next.status = code
  BY <1>1 DEF CallRecords
<1>4. CallOK(next)
  BY <1>3 DEF CallOK, SeesAccount, HasToken, TokenGenuine, IdentifiedAsStored, AnswersByRight
<1>. QED
  BY <1>2, <1>4, OneCall DEF Answers

LEMMA IdentifiedKeeps ==
    ASSUME AuthInv, NEW c \in ApiCalls, NEW asRole \in APP_ROLES, Identified(c, asRole),
           apiCall[c].pc \in {"decode", "account"}, apiCall[c].token.kind = "genuine",
           ~Legacy => \E seen \in apiCall[c].rows :
                          seen.state = "active" /\ NormalRole(seen.role) = asRole
    PROVE  AuthInv'
<1>. DEFINE next == [apiCall[c] EXCEPT !.pc = "gate", !.role = asRole]
<1>1. apiCall[c] \in CallRecords /\ CallOK(apiCall[c])
  BY CallTyped
<1>2. next \in CallRecords
  BY <1>1, RoleSet DEF Stages, CallRoles
<1>3. /\ next.pc = "gate" /\ next.token = apiCall[c].token
      /\ next.rows = apiCall[c].rows /\ next.role = asRole
  BY <1>1 DEF CallRecords
<1>4. CallOK(next)
  BY <1>1, <1>3 DEF CallOK, SeesAccount, HasToken, TokenGenuine, IdentifiedAsStored, AnswersByRight,
                    Backed
<1>. QED
  BY <1>2, <1>4, OneCall DEF Identified

-------------------------------------------------------------------------------
LEMMA ArrivesStep == ASSUME AuthInv, NEW c \in ApiCalls, ApiCallArrives(c) PROVE AuthInv'
<1>1. PICK token \in Tokens, gate \in Gates :
        Steps(c, [pc |-> "bearer", token |-> token, gate |-> gate, rows |-> {account},
                  role |-> "none", status |-> 0])
  BY DEF ApiCallArrives
<1>. DEFINE next == [pc |-> "bearer", token |-> token, gate |-> gate, rows |-> {account},
                     role |-> "none", status |-> 0]
<1>2. next \in CallRecords
  BY DEF CallRecords, Stages, Codes, CallRoles, AuthInv, CallsTyped
<1>3. CallOK(next)
  BY DEF CallOK, SeesAccount, HasToken, TokenGenuine, IdentifiedAsStored, AnswersByRight
<1>. QED
  BY <1>1, <1>2, <1>3, OneCall

LEMMA BearerStep == ASSUME AuthInv, NEW c \in ApiCalls, ExtractBearer(c) PROVE AuthInv'
<1>. DEFINE kind == apiCall[c].token.kind
<1>1. apiCall[c] \in CallRecords /\ CallOK(apiCall[c]) /\ apiCall[c].pc = "bearer"
  BY CallTyped DEF ExtractBearer
<1>2. CASE kind = "none" /\ Answers(c, 401)
  BY <1>1, <1>2, RefusalKeeps
<1>3. CASE kind = "none" /\ Answers(c, 200)
  <2>. DEFINE next == [apiCall[c] EXCEPT !.pc = "answered", !.status = 200]
  <2>. "answered" \in Stages /\ 200 \in Codes
    BY DEF Stages, Codes
  <2>1. next \in CallRecords
    BY <1>1, StatusSet
  <2>2. next.pc = "answered" /\ next.token = apiCall[c].token /\ next.status = 200
    BY <1>1 DEF CallRecords
  <2>3. CallOK(next)
    BY <1>3, <2>2 DEF CallOK, SeesAccount, HasToken, TokenGenuine, IdentifiedAsStored, AnswersByRight
  <2>. QED
    BY <1>3, <2>1, <2>3, OneCall DEF Answers
<1>4. CASE kind # "none" /\ authMode = "unconfigured" /\ Answers(c, 503)
  BY <1>1, <1>4, RefusalKeeps
<1>5. CASE kind = "unpinned" /\ Answers(c, 401)
  BY <1>1, <1>5, RefusalKeeps
<1>6. CASE /\ kind # "none" /\ authMode # "unconfigured"
           /\ Moves(c, "decode") \/ Moves(c, "key")
  BY <1>1, <1>6, MovesOn
<1>. QED
  BY <1>2, <1>3, <1>4, <1>5, <1>6 DEF ExtractBearer

\* An unreachable key endpoint is never answered 401 under the active provider.
LEMMA SigningKeyStep == ASSUME AuthInv, NEW c \in ApiCalls, SigningKey(c) PROVE AuthInv'
<1>1. apiCall[c] \in CallRecords /\ CallOK(apiCall[c]) /\ apiCall[c].pc = "key"
  BY CallTyped DEF SigningKey
<1>2. apiCall[c].token.kind # "none" /\ authMode # "unconfigured"
  BY <1>1 DEF CallOK, HasToken
<1>3. CASE Moves(c, "decode")
  BY <1>1, <1>2, <1>3, MovesOn
<1>4. CASE Answers(c, KeyUnknown)
  BY <1>1, <1>4, RefusalKeeps DEF KeyUnknown
<1>. QED
  BY <1>3, <1>4 DEF SigningKey

LEMMA NormalRoleIsRole == ASSUME NEW named PROVE NormalRole(named) \in APP_ROLES
  BY DEF NormalRole, APP_ROLES

LEMMA DecodeStep == ASSUME AuthInv, NEW c \in ApiCalls, Decode(c) PROVE AuthInv'
<1>. DEFINE token == apiCall[c].token
<1>1. apiCall[c] \in CallRecords /\ CallOK(apiCall[c]) /\ apiCall[c].pc = "decode"
  BY CallTyped DEF Decode
<1>2. token.kind # "none" /\ authMode # "unconfigured"
  BY <1>1 DEF CallOK, HasToken
<1>3. CASE token.kind \in {"expired", "forged", "unpinned"} /\ Answers(c, 401)
  BY <1>1, <1>3, RefusalKeeps
<1>4. CASE token.kind = "service" /\ Answers(c, 403)
  BY <1>1, <1>4, RefusalKeeps
<1>5. CASE token.kind = "genuine" /\ Legacy /\ Identified(c, NormalRole(token.role))
  BY <1>1, <1>5, IdentifiedKeeps, NormalRoleIsRole
<1>6. CASE token.kind = "genuine" /\ Moves(c, "account")
  BY <1>1, <1>2, <1>6, MovesOn
<1>7. token.kind \in {"expired", "forged", "unpinned", "service", "genuine"}
  BY <1>1, <1>2 DEF CallRecords, Tokens
<1>. QED
  BY <1>3, <1>4, <1>5, <1>6, <1>7 DEF Decode

LEMMA ResolveStep == ASSUME AuthInv, NEW c \in ApiCalls, ResolveIdentity(c) PROVE AuthInv'
<1>1. apiCall[c] \in CallRecords /\ CallOK(apiCall[c]) /\ apiCall[c].pc = "account"
  BY CallTyped DEF ResolveIdentity
<1>2. account \in apiCall[c].rows /\ apiCall[c].token.kind = "genuine"
  BY <1>1 DEF CallOK, SeesAccount, TokenGenuine
<1>3. CASE Answers(c, 503) \/ Answers(c, 403)
  BY <1>1, <1>3, RefusalKeeps
<1>4. CASE account.state = "active" /\ Identified(c, NormalRole(account.role))
  BY <1>1, <1>2, <1>4, IdentifiedKeeps, NormalRoleIsRole
<1>. QED
  BY <1>3, <1>4 DEF ResolveIdentity

LEMMA RoleStep == ASSUME AuthInv, NEW c \in ApiCalls, RequireRole(c) PROVE AuthInv'
<1>1. apiCall[c] \in CallRecords /\ CallOK(apiCall[c]) /\ apiCall[c].pc = "gate"
  BY CallTyped DEF RequireRole
<1>2. CASE Answers(c, 403)
  BY <1>1, <1>2, RefusalKeeps
<1>3. CASE (apiCall[c].gate = "staff" => apiCall[c].role \in STAFF_ROLES) /\ Answers(c, 200)
  <2>. DEFINE next == [apiCall[c] EXCEPT !.pc = "answered", !.status = 200]
  <2>. "answered" \in Stages /\ 200 \in Codes
    BY DEF Stages, Codes
  <2>1. next \in CallRecords
    BY <1>1, StatusSet
  <2>2. /\ next.pc = "answered" /\ next.token = apiCall[c].token /\ next.status = 200
        /\ next.rows = apiCall[c].rows /\ next.role = apiCall[c].role
        /\ next.gate = apiCall[c].gate
    BY <1>1 DEF CallRecords
  <2>3. CallOK(next)
    BY <1>1, <1>3, <2>2 DEF CallOK, SeesAccount, HasToken, TokenGenuine, IdentifiedAsStored,
                            AnswersByRight, Backed
  <2>. QED
    BY <1>3, <2>1, <2>3, OneCall DEF Answers
<1>. QED
  BY <1>2, <1>3 DEF RequireRole

\* A genuine token that expires on the way is not yet past the decoder.
LEMMA ExpiryStep == ASSUME AuthInv, NEW c \in ApiCalls, TokenExpires(c) PROVE AuthInv'
<1>. DEFINE next == [apiCall[c] EXCEPT !.token.kind = "expired"]
<1>1. /\ apiCall[c] \in CallRecords /\ CallOK(apiCall[c])
      /\ apiCall[c].pc \in {"bearer", "key", "decode"} /\ apiCall[c].token.kind = "genuine"
  BY CallTyped DEF TokenExpires
<1>2. /\ next \in CallRecords /\ next.pc = apiCall[c].pc /\ next.token.kind = "expired"
      /\ next.rows = apiCall[c].rows
  BY <1>1 DEF CallRecords, Tokens, Stages
<1>3. CallOK(next)
  BY <1>1, <1>2 DEF CallOK, SeesAccount, HasToken, TokenGenuine, IdentifiedAsStored, AnswersByRight
<1>. QED
  BY <1>2, <1>3, OneCall DEF TokenExpires

\* Outages and rotations touch nothing the invariant speaks of.
LEMMA WorldStep ==
    ASSUME AuthInv, UNCHANGED <<authMode, account, apiCall>>
    PROVE  AuthInv'
  BY DEF AuthInv, CallsTyped, CallOK, SeesAccount, HasToken, TokenGenuine, IdentifiedAsStored,
         AnswersByRight, Backed, Legacy

LEMMA ChangeAccountStep == ASSUME AuthInv, ChangeAccount PROVE AuthInv'
<1>1. PICK new \in Rows \ {account} :
        /\ account' = new
        /\ apiCall' = [c \in ApiCalls |->
              IF apiCall[c].pc \in {"none", "answered"} THEN apiCall[c]
              ELSE [apiCall[c] EXCEPT !.rows = @ \cup {new}]]
  BY DEF ChangeAccount
<1>2. authMode' = authMode
  BY DEF ChangeAccount, Changes
<1>3. ASSUME NEW c \in ApiCalls PROVE (apiCall[c] \in CallRecords)' /\ CallOK(apiCall[c])'
  <2>1. apiCall[c] \in CallRecords /\ CallOK(apiCall[c])
    BY CallTyped
  <2>2. CASE apiCall[c].pc \in {"none", "answered"}
    <3>1. apiCall'[c] = apiCall[c]
      BY <1>1, <2>2
    <3>. QED
      BY <2>1, <2>2, <3>1, <1>2 DEF CallOK, SeesAccount, HasToken, TokenGenuine,
         IdentifiedAsStored, AnswersByRight, Backed, Legacy
  <2>3. CASE apiCall[c].pc \notin {"none", "answered"}
    <3>1. /\ apiCall'[c] \in CallRecords /\ apiCall'[c].pc = apiCall[c].pc
          /\ apiCall'[c].token = apiCall[c].token /\ apiCall'[c].role = apiCall[c].role
          /\ apiCall'[c].rows = apiCall[c].rows \cup {new}
      BY <1>1, <2>1, <2>3 DEF CallRecords
    <3>. QED
      BY <2>1, <2>3, <3>1, <1>1, <1>2 DEF CallOK, SeesAccount, HasToken, TokenGenuine,
         IdentifiedAsStored, AnswersByRight, Backed, Legacy
  <2>. QED
    BY <2>2, <2>3
<1>4. CallsTyped'
  BY <1>1, <1>2, <1>3 DEF AuthInv, CallsTyped
<1>. QED
  BY <1>3, <1>4 DEF AuthInv

\* The invariant is inductive.
LEMMA AuthStep == AuthInv /\ [AuthNext]_authVars => AuthInv'
<1>. SUFFICES ASSUME AuthInv, [AuthNext]_authVars PROVE AuthInv'
  OBVIOUS
<1>1. CASE UNCHANGED authVars
  BY <1>1, WorldStep DEF authVars
<1>2. ASSUME RotateKey \/ Outage \/ KeysExpire PROVE AuthInv'
  BY <1>2, WorldStep DEF RotateKey, Outage, KeysExpire, Changes, authWorld
<1>. QED
  BY <1>1, <1>2, ChangeAccountStep, ArrivesStep, BearerStep, SigningKeyStep, DecodeStep, ResolveStep,
     RoleStep, ExpiryStep DEF AuthNext

(***************************************************************************)
(* The inductive invariant: what is known of a call at each step of its    *)
(* way, and that it has seen the account's row as it is now.               *)
(***************************************************************************)
THEOREM AuthInvariant == AuthSpec => []AuthInv
  BY AuthStart, AuthStep, PTL DEF AuthSpec

(***************************************************************************)
(* Whatever is down, rotated or changed while calls are under way: a good  *)
(* token is never answered 401, nobody is let in on a token the provider   *)
(* did not sign, and who is let in held an account that may act            *)
(* (backend/app/core/security.py and identity.py).                         *)
(***************************************************************************)
THEOREM CallersAreSound == AuthSpec => []CallersSound
<1>1. AuthInv => CallersSound
  <2>. SUFFICES ASSUME AuthInv PROVE CallersSound
    OBVIOUS
  <2>1. \A c \in ApiCalls : apiCall[c] \in CallRecords /\ AnswersByRight(apiCall[c])
    BY CallTyped DEF CallOK
  <2>2. NoLoginLoop
    BY <2>1 DEF NoLoginLoop, CallAnswered, AnswersByRight
  <2>3. ForgeriesFail
    BY <2>1 DEF ForgeriesFail, CallAnswered, AnswersByRight
  <2>4. ASSUME NEW c \in ApiCalls, CallAnswered(c, 200), apiCall[c].token.kind # "none",
               authMode \in {"neon-jwks", "unconfigured"}
        PROVE  \E seen \in apiCall[c].rows :
                  /\ seen.state = "active" /\ NormalRole(seen.role) = apiCall[c].role
                  /\ apiCall[c].gate = "staff" => seen.role \in STAFF_ROLES
    <3>1. Backed(apiCall[c]) /\ (apiCall[c].gate = "staff" => apiCall[c].role \in STAFF_ROLES)
      BY <2>1, <2>4 DEF AnswersByRight, CallAnswered, Legacy
    <3>2. PICK seen \in apiCall[c].rows :
            seen.state = "active" /\ NormalRole(seen.role) = apiCall[c].role
      BY <3>1 DEF Backed
    <3>3. NormalRole(seen.role) \in STAFF_ROLES => seen.role \in STAFF_ROLES
      BY DEF NormalRole, STAFF_ROLES, APP_ROLES
    <3>. QED
      BY <3>1, <3>2, <3>3
  <2>5. AdmittedAsStored
    BY <2>4 DEF AdmittedAsStored
  <2>. QED
    BY <2>2, <2>3, <2>5 DEF CallersSound
<1>. QED
  BY AuthInvariant, <1>1, PTL

\* The key service and its cache, besides what the calls see.
KeysTyped ==
    /\ signer \in 1 .. MaxKeys /\ keysCached \subseteq 1 .. MaxKeys
    /\ keysUp \in BOOLEAN /\ accountsUp \in BOOLEAN
    /\ authChanges \in 0 .. MaxAuthChanges

LEMMA KeysStart == AuthInit => KeysTyped
  BY BackendAuthAssumption DEF AuthInit, KeysTyped

LEMMA KeysStep == KeysTyped /\ [AuthNext]_authVars => KeysTyped'
<1>. SUFFICES ASSUME KeysTyped, [AuthNext]_authVars PROVE KeysTyped'
  OBVIOUS
<1>1. CASE UNCHANGED authVars
  BY <1>1 DEF KeysTyped, authVars
<1>2. ASSUME NEW c \in ApiCalls,
             \/ ApiCallArrives(c) \/ ExtractBearer(c) \/ Decode(c)
             \/ ResolveIdentity(c) \/ RequireRole(c) \/ TokenExpires(c)
      PROVE  KeysTyped'
  <2>1. UNCHANGED <<authWorld, keysCached>>
    BY <1>2 DEF ApiCallArrives, ExtractBearer, Decode, ResolveIdentity, RequireRole, TokenExpires,
                Steps, Moves, Answers, Identified
  <2>. QED
    BY <2>1 DEF KeysTyped, authWorld
<1>3. ASSUME NEW c \in ApiCalls, SigningKey(c) PROVE KeysTyped'
  <2>1. UNCHANGED authWorld
    BY <1>3 DEF SigningKey, Steps, Moves, Answers
  <2>2. keysCached' = keysCached \/ keysCached' = keysCached \cup {signer}
    BY <1>3 DEF SigningKey
  <2>. QED
    BY <2>1, <2>2 DEF KeysTyped, authWorld
<1>4. CASE RotateKey
  BY <1>4, BackendAuthAssumption DEF KeysTyped, RotateKey, Changes
<1>5. CASE Outage
  <2>1. UNCHANGED <<signer, keysCached>> /\ authChanges' \in 0 .. MaxAuthChanges
    BY <1>5, BackendAuthAssumption DEF KeysTyped, Outage, Changes
  <2>2. keysUp' \in BOOLEAN /\ accountsUp' \in BOOLEAN
    BY <1>5, Zenon DEF KeysTyped, Outage
  <2>. QED
    BY <2>1, <2>2 DEF KeysTyped
<1>6. CASE ChangeAccount
  BY <1>6, BackendAuthAssumption DEF KeysTyped, ChangeAccount, Changes
<1>7. CASE KeysExpire
  BY <1>7 DEF KeysTyped, KeysExpire, authWorld
<1>. QED
  BY <1>1, <1>2, <1>3, <1>4, <1>5, <1>6, <1>7 DEF AuthNext

\* Every variable of the backend's gate has its type, and a call's role is
\* that of a row or of a claim.
THEOREM CallersTyped == AuthSpec => []AuthTypeOK
<1>1. AuthInv /\ KeysTyped => AuthTypeOK
  BY DEF AuthInv, CallsTyped, KeysTyped, AuthTypeOK, CallRecords, Stages, CallRoles, Codes
<1>. QED
  BY AuthInvariant, KeysStart, KeysStep, <1>1, PTL DEF AuthSpec

-------------------------------------------------------------------------------
(***************************************************************************)
(* The handover of an order from seller to buyer (OrderFulfilment).        *)
(***************************************************************************)
Past(step) ==
    CASE step = "SHIPPED"   -> orderStatus \in {"SHIPPED", "DELIVERED", "COMPLETED"}
      [] step = "DELIVERED" -> orderStatus \in {"DELIVERED", "COMPLETED"}
      [] step = "COMPLETED" -> orderStatus = "COMPLETED"

\* A request about to claim was checked against the tables and the owner.
ClaimsByRight ==
    \A h \in Handlers : handler[h].pc = "claim" =>
        /\ CanTransitionOrder(handler[h].from, handler[h].step)
        /\ Owns(handler[h].who, handler[h].step)

\* One request has an announcement to make for a step, and nobody made it.
OneAnnouncer ==
    /\ \A h \in Handlers : handler[h].pc = "announce" =>
          Past(handler[h].step) /\ announced[handler[h].step] = 0
    /\ \A g, h \in Handlers :
          handler[g].pc = "announce" /\ handler[h].pc = "announce" /\ g # h =>
              handler[g].step # handler[h].step

AnnouncedOnce ==
    /\ \A step \in FulfillmentStep : announced[step] <= IF Past(step) THEN 1 ELSE 0
    /\ \A h \in Handlers : handler[h].pc = "done" => Past(handler[h].step)

HandoverInv ==
    /\ HandoverTypeOK /\ StepsInOrder /\ ClaimsByRight
    /\ OneAnnouncer /\ AnnouncedOnce

-------------------------------------------------------------------------------
\* Each journey is the one before it and one leg more.
LEMMA Journeys ==
    /\ DOMAIN JourneyTo = {"PENDING", "CANCELLED", "PAID", "SHIPPED", "DELIVERED", "COMPLETED"}
    /\ JourneyTo["PENDING"] = <<>>
    /\ JourneyTo["CANCELLED"] = Append(JourneyTo["PENDING"], Leg("CANCELLED", "checkout"))
    /\ JourneyTo["PAID"] = Append(JourneyTo["PENDING"], Leg("PAID", "checkout"))
    /\ JourneyTo["SHIPPED"] = Append(JourneyTo["PAID"], Leg("SHIPPED", "seller"))
    /\ JourneyTo["DELIVERED"] = Append(JourneyTo["SHIPPED"], Leg("DELIVERED", "seller"))
    /\ JourneyTo["COMPLETED"] = Append(JourneyTo["DELIVERED"], Leg("COMPLETED", "buyer"))
<1>1. DOMAIN JourneyTo = {"PENDING", "CANCELLED", "PAID", "SHIPPED", "DELIVERED", "COMPLETED"}
  BY DEF JourneyTo
<1>. QED
  BY <1>1 DEF JourneyTo, Leg

\* What the journey tells of a step, the status tells too.
LEMMA TakenIsPast ==
    ASSUME StepsInOrder, NEW step \in FulfillmentStep
    PROVE  Taken(step) <=> Past(step)
<1>1. CASE orderStatus = "PENDING"
  <2>1. journey = <<>>
    BY <1>1 DEF StepsInOrder, JourneyTo
  <2>2. /\ DOMAIN journey = {}
    BY <2>1 DEF Leg
  <2>. QED
    BY <1>1, <2>2 DEF Taken, Past, FulfillmentStep
<1>2. CASE orderStatus = "CANCELLED"
  <2>1. journey = <<Leg("CANCELLED", "checkout")>>
    BY <1>2 DEF StepsInOrder, JourneyTo
  <2>2. /\ DOMAIN journey = {1}
         /\ journey[1].to = "CANCELLED"
    BY <2>1 DEF Leg
  <2>. QED
    BY <1>2, <2>2 DEF Taken, Past, FulfillmentStep
<1>3. CASE orderStatus = "PAID"
  <2>1. journey = <<Leg("PAID", "checkout")>>
    BY <1>3 DEF StepsInOrder, JourneyTo
  <2>2. /\ DOMAIN journey = {1}
         /\ journey[1].to = "PAID"
    BY <2>1 DEF Leg
  <2>. QED
    BY <1>3, <2>2 DEF Taken, Past, FulfillmentStep
<1>4. CASE orderStatus = "SHIPPED"
  <2>1. journey = <<Leg("PAID", "checkout"), Leg("SHIPPED", "seller")>>
    BY <1>4 DEF StepsInOrder, JourneyTo
  <2>2. /\ DOMAIN journey = {1, 2}
         /\ journey[1].to = "PAID"
         /\ journey[2].to = "SHIPPED"
    BY <2>1 DEF Leg
  <2>. QED
    BY <1>4, <2>2 DEF Taken, Past, FulfillmentStep
<1>5. CASE orderStatus = "DELIVERED"
  <2>1. journey = <<Leg("PAID", "checkout"), Leg("SHIPPED", "seller"),
                    Leg("DELIVERED", "seller")>>
    BY <1>5 DEF StepsInOrder, JourneyTo
  <2>2. /\ DOMAIN journey = {1, 2, 3}
         /\ journey[1].to = "PAID"
         /\ journey[2].to = "SHIPPED"
         /\ journey[3].to = "DELIVERED"
    BY <2>1 DEF Leg
  <2>. QED
    BY <1>5, <2>2 DEF Taken, Past, FulfillmentStep
<1>6. CASE orderStatus = "COMPLETED"
  <2>1. journey = <<Leg("PAID", "checkout"), Leg("SHIPPED", "seller"),
                    Leg("DELIVERED", "seller"), Leg("COMPLETED", "buyer")>>
    BY <1>6 DEF StepsInOrder, JourneyTo
  <2>2. /\ DOMAIN journey = {1, 2, 3, 4}
         /\ journey[1].to = "PAID"
         /\ journey[2].to = "SHIPPED"
         /\ journey[3].to = "DELIVERED"
         /\ journey[4].to = "COMPLETED"
    BY <2>1 DEF Leg
  <2>. QED
    BY <1>6, <2>2 DEF Taken, Past, FulfillmentStep
<1>. QED
  BY <1>1, <1>2, <1>3, <1>4, <1>5, <1>6, Journeys DEF StepsInOrder

\* What the tables allow, spelt out.
LEMMA HandlerMoves ==
    ASSUME NEW from \in OrderStatus, NEW to, CanTransitionOrder(from, to)
    PROVE  \/ from = "PENDING" /\ to \in {"PAID", "CANCELLED"}
           \/ from = "PAID" /\ to = "SHIPPED"
           \/ from = "SHIPPED" /\ to = "DELIVERED"
           \/ from = "DELIVERED" /\ to = "COMPLETED"
  BY DEF CanTransitionOrder, ORDER_TRANSITIONS, OrderStatus

-------------------------------------------------------------------------------
LEMMA HandoverStart == HandoverInit => HandoverInv
<1>. SUFFICES ASSUME HandoverInit PROVE HandoverInv
  OBVIOUS
<1>1. HandoverTypeOK
  BY HandoverAssumption DEF HandoverInit, HandoverTypeOK, NoRequest, OrderStatus,
                            FulfillmentStep, Callers
<1>2. StepsInOrder
  BY Journeys DEF HandoverInit, StepsInOrder
<1>3. ClaimsByRight /\ OneAnnouncer /\ AnnouncedOnce
  BY DEF HandoverInit, NoRequest, ClaimsByRight, OneAnnouncer, AnnouncedOnce
<1>. QED
  BY <1>1, <1>2, <1>3 DEF HandoverInv

\* A request that leaves the order and the announcements alone, and goes to a
\* place that promises nothing, disturbs nothing.
LEMMA QuietMove ==
    ASSUME HandoverInv, NEW h \in Handlers,
           NEW r \in [pc : {"idle", "read", "refused"}, step : FulfillmentStep,
                      who : Callers, from : OrderStatus],
           Becomes(h, r), UNCHANGED <<orderStatus, journey, announced>>
    PROVE  HandoverInv'
<1>1. HandoverTypeOK'
  BY DEF HandoverInv, HandoverTypeOK, Becomes
<1>2. StepsInOrder' /\ ClaimsByRight'
  BY DEF HandoverInv, HandoverTypeOK, StepsInOrder, ClaimsByRight, Becomes
<1>3. OneAnnouncer' /\ AnnouncedOnce'
  BY DEF HandoverInv, HandoverTypeOK, OneAnnouncer, AnnouncedOnce, Past, Becomes
<1>. QED
  BY <1>1, <1>2, <1>3 DEF HandoverInv

LEMMA AsksStep ==
    ASSUME HandoverInv, NEW h \in Handlers, Asks(h)
    PROVE  HandoverInv'
  BY QuietMove DEF Asks, OrderStatus

LEMMA DiesStep ==
    ASSUME HandoverInv, NEW h \in Handlers, HandlerDies(h)
    PROVE  HandoverInv'
  BY QuietMove DEF HandlerDies, NoRequest, OrderStatus, FulfillmentStep, Callers

LEMMA ReadOrderStep ==
    ASSUME HandoverInv, NEW h \in Handlers, ReadOrder(h)
    PROVE  HandoverInv'
<1>. DEFINE step == handler[h].step
<1>. /\ handler[h] \in [pc : {"idle", "read", "claim", "announce", "done", "refused"},
                        step : FulfillmentStep, who : Callers, from : OrderStatus]
     /\ UNCHANGED <<orderStatus, journey, announced>>
  BY DEF HandoverInv, HandoverTypeOK, ReadOrder
<1>1. CASE orderStatus = step /\ Becomes(h, [handler[h] EXCEPT !.pc = "done"])
  <2>1. HandoverTypeOK'
    BY <1>1 DEF HandoverInv, HandoverTypeOK, Becomes
  <2>2. StepsInOrder' /\ ClaimsByRight'
    BY <1>1 DEF HandoverInv, HandoverTypeOK, StepsInOrder, ClaimsByRight, Becomes
  <2>3. OneAnnouncer'
    BY <1>1 DEF HandoverInv, HandoverTypeOK, OneAnnouncer, Past, Becomes
  <2>4. AnnouncedOnce'
    BY <1>1 DEF HandoverInv, HandoverTypeOK, AnnouncedOnce, Past, Becomes, FulfillmentStep
  <2>. QED
    BY <2>1, <2>2, <2>3, <2>4 DEF HandoverInv
<1>2. CASE /\ Owns(handler[h].who, step) /\ CanTransitionOrder(orderStatus, step)
           /\ Becomes(h, [handler[h] EXCEPT !.pc = "claim", !.from = orderStatus])
  <2>1. HandoverTypeOK'
    BY <1>2 DEF HandoverInv, HandoverTypeOK, Becomes
  <2>2. StepsInOrder' /\ ClaimsByRight'
    BY <1>2 DEF HandoverInv, HandoverTypeOK, StepsInOrder, ClaimsByRight, Becomes
  <2>3. OneAnnouncer' /\ AnnouncedOnce'
    BY <1>2 DEF HandoverInv, HandoverTypeOK, OneAnnouncer, AnnouncedOnce, Past, Becomes
  <2>. QED
    BY <2>1, <2>2, <2>3 DEF HandoverInv
<1>3. CASE Becomes(h, [handler[h] EXCEPT !.pc = "refused"])
  BY <1>3, QuietMove
<1>. QED
  BY <1>1, <1>2, <1>3 DEF ReadOrder

LEMMA ClaimingStep ==
    ASSUME HandoverInv, NEW h \in Handlers, ClaimStep(h)
    PROVE  HandoverInv'
<1>. DEFINE step == handler[h].step
<1>. USE DEF HandoverInv
<1>0. /\ handler[h] \in [pc : {"idle", "read", "claim", "announce", "done", "refused"},
                         step : FulfillmentStep, who : Callers, from : OrderStatus]
      /\ handler[h].pc = "claim"
  BY DEF HandoverTypeOK, ClaimStep
<1>1. CASE Claimable(h)
  <2>1. /\ orderStatus' = step
        /\ journey' = Append(journey, Leg(step, handler[h].who))
        /\ handler' = [handler EXCEPT ![h] = [handler[h] EXCEPT !.pc = "announce"]]
        /\ announced' = announced
    BY <1>1 DEF ClaimStep, Becomes
  <2>2. /\ handler[h].who = FULFILLMENT_AUTHORITY[step]
        /\ \/ orderStatus = "PAID" /\ step = "SHIPPED"
           \/ orderStatus = "SHIPPED" /\ step = "DELIVERED"
           \/ orderStatus = "DELIVERED" /\ step = "COMPLETED"
    BY <1>0, <1>1, HandlerMoves DEF ClaimsByRight, Claimable, Owns, FulfillmentStep
  <2>3. HandoverTypeOK'
    <3>1. step \in OrderStatus
      BY <1>0 DEF FulfillmentStep, OrderStatus
    <3>2. Leg(step, handler[h].who) \in [to : OrderStatus, by : Callers \cup {"checkout"}]
      BY <1>0, <3>1 DEF Leg
    <3>3. journey' \in Seq([to : OrderStatus, by : Callers \cup {"checkout"}])
      BY <2>1, <3>2 DEF HandoverTypeOK
    <3>4. handler' \in [Handlers -> [pc : {"idle", "read", "claim", "announce", "done", "refused"},
                                   step : FulfillmentStep, who : Callers, from : OrderStatus]]
      BY <1>0, <2>1 DEF HandoverTypeOK
    <3>. QED
      BY <2>1, <3>1, <3>3, <3>4 DEF HandoverTypeOK
  <2>4. StepsInOrder'
    <3>1. handler[h].who = IF step = "COMPLETED" THEN "buyer" ELSE "seller"
      BY <2>2 DEF FULFILLMENT_AUTHORITY
    <3>2. journey = JourneyTo[orderStatus]
      BY DEF StepsInOrder
    <3>3. journey' = JourneyTo[step] /\ step \in DOMAIN JourneyTo
      BY <2>1, <2>2, <3>1, <3>2, Journeys
    <3>. QED
      BY <2>1, <3>3 DEF StepsInOrder
  <2>5. ClaimsByRight'
    BY <2>1 DEF HandoverTypeOK, ClaimsByRight
  <2>6. /\ ~Past(step)
        /\ Past(step)'
        /\ \A s \in FulfillmentStep : Past(s) => Past(s)'
    <3>1. handler'[h].step = step
      BY <1>0, <2>1 DEF HandoverTypeOK
    <3>2. ~Past(step) /\ Past(step)'
      BY <2>1, <2>2, <3>1 DEF Past
    <3>3. \A s \in FulfillmentStep : Past(s) => Past(s)'
      BY <2>1, <2>2 DEF Past, FulfillmentStep
    <3>. QED
      BY <3>2, <3>3
  <2>7. announced[step] = 0
    BY <1>0, <2>6 DEF AnnouncedOnce, HandoverTypeOK
  <2>8. OneAnnouncer'
    <3>1. ASSUME NEW g \in Handlers, handler'[g].pc = "announce"
          PROVE  Past(handler[g].step)' /\ announced[handler[g].step] = 0 /\ handler'[g].step = handler[g].step
      BY <1>0, <2>1, <2>6, <2>7, <3>1 DEF HandoverTypeOK, OneAnnouncer
    <3>2. ASSUME NEW f \in Handlers, NEW g \in Handlers, f # g,
                 handler'[f].pc = "announce", handler'[g].pc = "announce"
          PROVE  handler'[f].step # handler'[g].step
      BY <1>0, <2>1, <2>6, <3>2 DEF HandoverTypeOK, OneAnnouncer
    <3>. QED
      BY <2>1, <3>1, <3>2 DEF OneAnnouncer, Past
  <2>9. AnnouncedOnce'
    <3>1. \A s \in FulfillmentStep : announced'[s] <= IF Past(s)' THEN 1 ELSE 0
      BY <2>1, <2>6 DEF AnnouncedOnce, HandoverTypeOK
    <3>2. ASSUME NEW g \in Handlers, handler'[g].pc = "done"
          PROVE  Past(handler[g].step)' /\ handler'[g].step = handler[g].step
      BY <1>0, <2>1, <2>6, <3>2 DEF HandoverTypeOK, AnnouncedOnce
    <3>. QED
      BY <3>1, <3>2 DEF AnnouncedOnce, Past
  <2>. QED
    BY <2>3, <2>4, <2>5, <2>8, <2>9
<1>2. CASE ~Claimable(h)
  BY <1>0, <1>2, QuietMove DEF ClaimStep
<1>. QED
  BY <1>1, <1>2

LEMMA AnnouncingStep ==
    ASSUME HandoverInv, NEW h \in Handlers, Announce(h)
    PROVE  HandoverInv'
<1>. DEFINE step == handler[h].step
<1>. USE DEF HandoverInv
<1>1. /\ handler[h] \in [pc : {"idle", "read", "claim", "announce", "done", "refused"},
                         step : FulfillmentStep, who : Callers, from : OrderStatus]
      /\ handler[h].pc = "announce" /\ Past(step) /\ announced[step] = 0
      /\ handler' = [handler EXCEPT ![h] = [handler[h] EXCEPT !.pc = "done"]]
      /\ announced' = [announced EXCEPT ![step] = @ + 1]
      /\ UNCHANGED <<orderStatus, journey>>
  BY DEF HandoverTypeOK, Announce, OneAnnouncer, Becomes
<1>2. HandoverTypeOK'
  <2>1. 1 \in 0 .. MaxAnnounced
    BY HandoverAssumption
  <2>2. announced' \in [FulfillmentStep -> 0 .. MaxAnnounced]
    BY <1>1, <2>1 DEF HandoverTypeOK
  <2>3. handler' \in [Handlers -> [pc : {"idle", "read", "claim", "announce", "done", "refused"},
                                 step : FulfillmentStep, who : Callers, from : OrderStatus]]
    BY <1>1 DEF HandoverTypeOK
  <2>. QED
    BY <1>1, <2>2, <2>3 DEF HandoverTypeOK
<1>3. StepsInOrder' /\ ClaimsByRight'
  BY <1>1 DEF HandoverTypeOK, StepsInOrder, ClaimsByRight
<1>4. OneAnnouncer'
  <2>1. ASSUME NEW g \in Handlers, handler'[g].pc = "announce"
        PROVE  /\ handler'[g] = handler[g] /\ g # h /\ handler[g].pc = "announce"
               /\ announced'[handler[g].step] = 0
    BY <1>1, <2>1 DEF HandoverTypeOK, OneAnnouncer
  <2>2. ASSUME NEW g \in Handlers, handler'[g].pc = "announce"
        PROVE  Past(handler[g].step)' /\ announced'[handler'[g].step] = 0
    <3>1. Past(handler[g].step) /\ handler'[g].step = handler[g].step
      BY <2>1, <2>2 DEF OneAnnouncer
    <3>2. Past(handler[g].step)'
      BY <1>1, <3>1 DEF Past
    <3>. QED
      BY <2>1, <2>2, <3>1, <3>2
  <2>3. \A f, g \in Handlers :
            handler'[f].pc = "announce" /\ handler'[g].pc = "announce" /\ f # g =>
                handler'[f].step # handler'[g].step
    BY <2>1 DEF OneAnnouncer
  <2>. QED
    BY <2>2, <2>3 DEF OneAnnouncer
<1>5. AnnouncedOnce'
  <2>1. \A s \in FulfillmentStep : announced'[s] <= IF Past(s) THEN 1 ELSE 0
    BY <1>1 DEF AnnouncedOnce, HandoverTypeOK
  <2>2. ASSUME NEW g \in Handlers, handler'[g].pc = "done"
        PROVE  Past(handler[g].step) /\ handler'[g].step = handler[g].step
    BY <1>1, <2>2 DEF HandoverTypeOK, AnnouncedOnce
  <2>. QED
    BY <1>1, <2>1, <2>2 DEF AnnouncedOnce, Past
<1>. QED
  BY <1>2, <1>3, <1>4, <1>5

\* Payment and cancellation leave PENDING, where no step has been taken.
LEMMA ElsewhereStep ==
    ASSUME HandoverInv, Elsewhere
    PROVE  HandoverInv'
<1>. USE DEF HandoverInv
<1>1. PICK to \in {"PAID", "CANCELLED"} :
          /\ CanTransitionOrder(orderStatus, to)
          /\ orderStatus' = to
          /\ journey' = Append(journey, Leg(to, "checkout"))
  BY DEF Elsewhere
<1>2. orderStatus = "PENDING" /\ UNCHANGED <<handler, announced>>
  BY <1>1, HandlerMoves DEF HandoverTypeOK, Elsewhere
<1>3. HandoverTypeOK'
  BY <1>1, <1>2 DEF HandoverTypeOK, OrderStatus, Leg
<1>4. StepsInOrder'
  BY <1>1, <1>2, Journeys DEF StepsInOrder
<1>5. ClaimsByRight'
  BY <1>2 DEF ClaimsByRight
<1>6. \A s \in FulfillmentStep : ~Past(s)
  BY <1>2 DEF Past, FulfillmentStep
<1>7. OneAnnouncer' /\ AnnouncedOnce'
  <2>1. \A g \in Handlers : handler[g].pc \notin {"announce", "done"}
    BY <1>6 DEF HandoverTypeOK, OneAnnouncer, AnnouncedOnce
  <2>2. \A s \in FulfillmentStep : announced[s] <= 0
    BY <1>6 DEF AnnouncedOnce
  <2>3. \A s \in FulfillmentStep : announced'[s] <= IF Past(s)' THEN 1 ELSE 0
    BY <1>2, <2>2 DEF HandoverTypeOK
  <2>. QED
    BY <1>2, <2>1, <2>3 DEF OneAnnouncer, AnnouncedOnce, Past
<1>. QED
  BY <1>3, <1>4, <1>5, <1>7

\* The invariant is inductive.
LEMMA HandoverStep == HandoverInv /\ [HandoverNext]_handoverVars => HandoverInv'
<1>. SUFFICES ASSUME HandoverInv, [HandoverNext]_handoverVars PROVE HandoverInv'
  OBVIOUS
<1>1. CASE UNCHANGED handoverVars
  BY <1>1 DEF handoverVars, HandoverInv, HandoverTypeOK, StepsInOrder, ClaimsByRight,
              OneAnnouncer, AnnouncedOnce, Past
<1>. QED
  BY <1>1, AsksStep, ReadOrderStep, ClaimingStep, AnnouncingStep, DiesStep, ElsewhereStep
     DEF HandoverNext

(***************************************************************************)
(* The inductive invariant: types, the journey, the right behind each      *)
(* claim and the one announcer of each step.                               *)
(***************************************************************************)
THEOREM HandoverInvariant == HandoverSpec => []HandoverInv
  BY HandoverStart, HandoverStep, PTL DEF HandoverSpec

(***************************************************************************)
(* For any number of requests at once, each dying between any two steps,   *)
(* an order takes each step once, in order, by the side it belongs to, and *)
(* each step is announced at most once, after it was committed             *)
(* (order-transition-service.ts, markOrderFulfilled).                      *)
(***************************************************************************)
THEOREM HandedOver == HandoverSpec => []HandoverSound
<1>1. HandoverInv => HandoverSound
  <2>. SUFFICES ASSUME HandoverInv PROVE HandoverSound
    OBVIOUS
  <2>1. \A step \in FulfillmentStep : Taken(step) <=> Past(step)
    BY TakenIsPast DEF HandoverInv
  <2>2. \A h \in Handlers : handler[h].step \in FulfillmentStep
    BY DEF HandoverInv, HandoverTypeOK
  <2>3. AnnouncedWhenTaken
    BY <2>1, <2>2 DEF HandoverInv, AnnouncedOnce, AnnouncedWhenTaken
  <2>. QED
    BY <2>3 DEF HandoverInv, HandoverSound
<1>. QED
  BY HandoverInvariant, <1>1, PTL

-------------------------------------------------------------------------------
(***************************************************************************)
(* Pictures of profiles and listings (PictureUploads). A new picture is    *)
(* known to its tab alone until the row names it, and a picture replaced   *)
(* is deleted only then.                                                   *)
(***************************************************************************)
TabStages == {"idle", "read", "store", "write", "delete"}
TabRecords == [pc : TabStages, form : Nat, previous : Nat, picture : Nat]

StoreTyped ==
    /\ stored \in 0 .. MaxAssets
    /\ \A p \in assets : p \in Nat /\ 1 <= p /\ p <= stored
    /\ avatar = NoProfile \/ (avatar \in Nat /\ avatar <= stored)

TabsTyped ==
    /\ tab \in [FormTabs -> TabRecords]
    /\ \A t \in FormTabs :
          tab[t].form <= stored /\ tab[t].previous <= stored /\ tab[t].picture <= stored

\* A picture stored but not yet written into the profile is known to its tab alone.
Private(t) ==
    /\ tab[t].picture \in assets
    /\ avatar # tab[t].picture
    /\ \A u \in FormTabs : tab[u].form # tab[t].picture /\ tab[u].previous # tab[t].picture
    /\ \A u \in FormTabs \ {t} : tab[u].picture # tab[t].picture

NewIsPrivate == \A t \in FormTabs : tab[t].pc = "write" => Private(t)

\* Before there is a profile nothing was replaced, and what the forms show exists.
NothingReplaced ==
    avatar = NoProfile =>
        \A t \in FormTabs : /\ tab[t].previous = NoPicture
                            /\ tab[t].form \in assets \cup {NoPicture}
                            /\ tab[t].pc \in {"write", "delete"} => tab[t].picture \in assets

Clean == ~lostWrite /\ ~staleSave

\* What is about to be deleted is no longer shown.
ReplacedIsHidden ==
    Clean => \A t \in FormTabs :
        tab[t].pc = "delete" /\ tab[t].previous # NoPicture => avatar # tab[t].previous

ProfileInv ==
    /\ StoreTyped /\ TabsTyped /\ NewIsPrivate /\ NothingReplaced
    /\ ReplacedIsHidden /\ ShownPictureExists

-------------------------------------------------------------------------------
LEMMA Numbers ==
    /\ MaxAssets \in Nat /\ NoPicture = 0 /\ NoProfile = MaxAssets + 1 /\ NoProfile \in Nat
    /\ \A p \in Nat : p <= MaxAssets => p # NoProfile
BY PictureAssumption DEF NoPicture, NoProfile

LEMMA OneTab ==
    ASSUME TabsTyped, NEW t \in FormTabs, NEW q \in TabRecords, Set(t, q)
    PROVE  /\ tab' \in [FormTabs -> TabRecords]
           /\ tab'[t] = q
           /\ \A u \in FormTabs \ {t} : tab'[u] = tab[u]
BY DEF TabsTyped, Set

LEMMA TabTyped ==
    ASSUME TabsTyped, NEW t \in FormTabs
    PROVE  /\ tab[t] \in TabRecords /\ tab[t].pc \in TabStages
           /\ tab[t].form \in Nat /\ tab[t].previous \in Nat /\ tab[t].picture \in Nat
           /\ tab[t].form <= stored /\ tab[t].previous <= stored /\ tab[t].picture <= stored
BY DEF TabsTyped, TabRecords

LEMMA ShownIs ==
    ASSUME ProfileInv
    PROVE  /\ ShownPicture \in Nat /\ ShownPicture <= stored
           /\ ShownPicture = NoPicture \/ (ShownPicture = avatar /\ avatar # NoProfile)
           /\ avatar = NoProfile => ShownPicture = NoPicture
<1>1. CASE avatar = NoProfile
  BY <1>1, Numbers DEF ShownPicture, ProfileInv, StoreTyped
<1>2. CASE avatar # NoProfile
  BY <1>2, Numbers DEF ShownPicture, ProfileInv, StoreTyped
<1> QED
  BY <1>1, <1>2

\* A tab that stores and writes nothing: its form and what it replaces come
\* from what it had, or from the profile.
LEMMA QuietTab ==
    ASSUME ProfileInv, NEW t \in FormTabs, NEW q \in TabRecords, Set(t, q),
           UNCHANGED <<assets, stored, avatar, lostWrite, staleSave>>,
           q.pc \notin {"write", "delete"},
           q.form \in {NoPicture, tab[t].form, ShownPicture},
           q.previous \in {NoPicture, tab[t].previous, ShownPicture},
           q.picture \in {NoPicture, tab[t].picture}
    PROVE  ProfileInv'
<1>0. /\ StoreTyped /\ TabsTyped /\ NewIsPrivate /\ NothingReplaced
      /\ ReplacedIsHidden /\ ShownPictureExists
  BY DEF ProfileInv
<1>1. /\ tab' \in [FormTabs -> TabRecords]
      /\ tab'[t] = q
      /\ \A u \in FormTabs \ {t} : tab'[u] = tab[u]
  BY <1>0, OneTab
<1>2. q.form <= stored /\ q.previous <= stored /\ q.picture <= stored
  BY <1>0, TabTyped, ShownIs, Numbers DEF StoreTyped
<1>3. StoreTyped' /\ ShownPictureExists'
  BY <1>0 DEF StoreTyped, ShownPictureExists
<1>4. TabsTyped'
  BY <1>0, <1>1, <1>2 DEF TabsTyped
<1>5. ASSUME NEW u \in FormTabs, tab'[u].pc = "write" PROVE Private(u)'
  <2>1. u # t /\ tab'[u] = tab[u]
    BY <1>1, <1>5
  <2>2. PICK n : n = tab[u].picture
    OBVIOUS
  <2>3. /\ n \in assets /\ avatar # n
        /\ \A v \in FormTabs : tab[v].form # n /\ tab[v].previous # n
        /\ \A v \in FormTabs \ {u} : tab[v].picture # n
    BY <1>0, <1>5, <2>1, <2>2 DEF NewIsPrivate, Private
  <2>4. n # NoPicture
    BY <1>0, <2>3, Numbers DEF StoreTyped
  <2>5. ShownPicture # n
    BY <2>3, <2>4, ShownIs
  <2>6. q.form # n /\ q.previous # n /\ q.picture # n
    BY <2>1, <2>3, <2>4, <2>5
  <2>7. /\ \A v \in FormTabs : tab'[v].form # n /\ tab'[v].previous # n
        /\ \A v \in FormTabs \ {u} : tab'[v].picture # n
    BY <1>1, <2>3, <2>6
  <2> QED
    BY <2>1, <2>2, <2>3, <2>7 DEF Private
<1>6. NothingReplaced'
  <2> SUFFICES ASSUME avatar = NoProfile, NEW u \in FormTabs
               PROVE  /\ tab'[u].previous = NoPicture
                      /\ tab'[u].form \in assets \cup {NoPicture}
                      /\ tab'[u].pc \in {"write", "delete"} => tab'[u].picture \in assets
    BY DEF NothingReplaced
  <2>1. ShownPicture = NoPicture
    BY ShownIs
  <2> QED
    BY <1>0, <1>1, <2>1 DEF NothingReplaced
<1>7. ReplacedIsHidden'
  BY <1>0, <1>1 DEF ReplacedIsHidden, Clean
<1> QED
  BY <1>3, <1>4, <1>5, <1>6, <1>7 DEF ProfileInv, NewIsPrivate

LEMMA TabQuietSteps ==
    ASSUME ProfileInv, NEW t \in FormTabs,
           OpenForm(t) \/ AskAvatar(t) \/ ReadPrevious(t) \/ UploadEnds(t) \/ RemovePicture(t)
    PROVE  ProfileInv'
<1>0. /\ tab[t] \in TabRecords /\ tab[t].form \in Nat /\ tab[t].previous \in Nat
      /\ tab[t].picture \in Nat
  BY TabTyped DEF ProfileInv
<1>1. UNCHANGED <<assets, stored, avatar, lostWrite, staleSave>>
  BY DEF OpenForm, AskAvatar, ReadPrevious, UploadEnds, RemovePicture
<1>2. ASSUME NEW p \in {NoPicture, tab[t].form, ShownPicture}, Shows(t, p) PROVE ProfileInv'
  <2>1. PICK q : q = [pc |-> "idle", form |-> p, previous |-> NoPicture, picture |-> NoPicture]
    OBVIOUS
  <2>2. p \in Nat
    BY <1>0, <1>2, ShownIs, Numbers
  <2>3. /\ q \in TabRecords /\ q.pc = "idle" /\ q.form = p
        /\ q.previous = NoPicture /\ q.picture = NoPicture
    BY <2>1, <2>2, Numbers DEF TabRecords, TabStages
  <2>4. Set(t, q)
    BY <1>2, <2>1 DEF Shows
  <2> QED
    BY <1>1, <1>2, <2>3, <2>4, QuietTab
<1>3. CASE OpenForm(t) \/ UploadEnds(t) \/ RemovePicture(t)
  BY <1>2, <1>3 DEF OpenForm, UploadEnds, RemovePicture, Ends
<1>4. CASE AskAvatar(t)
  <2>1. PICK pc \in {"read", "idle"} : Set(t, [tab[t] EXCEPT !.pc = pc])
    BY <1>4 DEF AskAvatar
  <2>2. PICK q : q = [tab[t] EXCEPT !.pc = pc]
    OBVIOUS
  <2>3. /\ q \in TabRecords /\ q.pc = pc /\ q.form = tab[t].form
        /\ q.previous = tab[t].previous /\ q.picture = tab[t].picture
    BY <1>0, <2>2 DEF TabRecords, TabStages
  <2> QED
    BY <1>1, <2>1, <2>2, <2>3, QuietTab
<1>5. CASE ReadPrevious(t)
  <2>2. PICK q : q = [tab[t] EXCEPT !.pc = "store", !.previous = ShownPicture]
    OBVIOUS
  <2>3. /\ q \in TabRecords /\ q.pc = "store" /\ q.form = tab[t].form
        /\ q.previous = ShownPicture /\ q.picture = tab[t].picture
    BY <1>0, <2>2, ShownIs DEF TabRecords, TabStages
  <2>4. Set(t, q)
    BY <1>5, <2>2 DEF ReadPrevious
  <2> QED
    BY <1>1, <2>3, <2>4, QuietTab
<1> QED
  BY <1>3, <1>4, <1>5

\* One more picture is stored, and nothing else changes but a tab, or none.
LEMMA StoresNew ==
    ASSUME StoreTyped, Stores, UNCHANGED avatar
    PROVE  /\ StoreTyped' /\ assets' = assets \cup {stored'}
           /\ stored \in Nat /\ stored' \in Nat /\ stored' = stored + 1
           /\ stored' # NoPicture /\ avatar # stored' /\ stored' \notin assets
<1>1. /\ stored \in Nat /\ stored' = stored + 1 /\ stored < MaxAssets
      /\ assets' = assets \cup {stored'} /\ MaxAssets \in Nat
  BY Numbers DEF StoreTyped, Stores
<1>2. stored' \in 0 .. MaxAssets /\ stored' # NoPicture
  BY <1>1, Numbers
<1>3. \A p \in assets' : p \in Nat /\ 1 <= p /\ p <= stored'
  BY <1>1 DEF StoreTyped
<1>4. stored' \notin assets
  BY <1>1 DEF StoreTyped
<1>5. avatar # stored'
  BY <1>1, Numbers DEF StoreTyped
<1>6. avatar' = NoProfile \/ (avatar' \in Nat /\ avatar' <= stored')
  BY <1>1 DEF StoreTyped
<1> QED
  BY <1>1, <1>2, <1>3, <1>4, <1>5, <1>6 DEF StoreTyped

LEMMA UploadStep == ASSUME ProfileInv, NEW t \in FormTabs, UploadAvatar(t) PROVE ProfileInv'
<1>0. /\ StoreTyped /\ TabsTyped /\ NewIsPrivate /\ NothingReplaced
      /\ ReplacedIsHidden /\ ShownPictureExists
  BY DEF ProfileInv
<1>1. /\ StoreTyped' /\ assets' = assets \cup {stored'}
      /\ stored \in Nat /\ stored' \in Nat /\ stored' = stored + 1
      /\ stored' # NoPicture /\ avatar # stored' /\ stored' \notin assets
  BY <1>0, StoresNew DEF UploadAvatar
<1>2. PICK n \in Nat : n = stored'
  BY <1>1
<1>3. PICK q : q = [tab[t] EXCEPT !.pc = "write", !.picture = n]
  OBVIOUS
<1>4. tab[t] \in TabRecords
  BY <1>0, TabTyped
<1>5. /\ q \in TabRecords /\ q.pc = "write" /\ q.picture = n
      /\ q.form = tab[t].form /\ q.previous = tab[t].previous
  BY <1>3, <1>4 DEF TabRecords, TabStages
<1>6. /\ tab' \in [FormTabs -> TabRecords]
      /\ tab'[t] = q
      /\ \A u \in FormTabs \ {t} : tab'[u] = tab[u]
  BY <1>0, <1>2, <1>3, <1>5, OneTab DEF UploadAvatar
<1>7. /\ \A u \in FormTabs :
            tab[u].form <= stored' /\ tab[u].previous <= stored' /\ tab[u].picture <= stored'
      /\ \A u \in FormTabs : tab[u].form # n /\ tab[u].previous # n /\ tab[u].picture # n
  BY <1>0, <1>1, <1>2, TabTyped
<1>8. TabsTyped'
  BY <1>1, <1>2, <1>5, <1>6, <1>7 DEF TabsTyped
<1>9. \A u \in FormTabs : /\ tab'[u].form = tab[u].form
                          /\ tab'[u].previous = tab[u].previous
  BY <1>5, <1>6
<1>10. ASSUME NEW u \in FormTabs, tab'[u].pc = "write" PROVE Private(u)'
  <2>1. CASE u = t
    <3>1. ASSUME NEW v \in FormTabs \ {t} PROVE tab'[v].picture # n
      BY <1>6, <1>7
    <3> QED
      BY <1>1, <1>2, <1>5, <1>6, <1>7, <1>9, <2>1, <3>1 DEF Private, UploadAvatar
  <2>2. CASE u # t
    <3>1. tab'[u] = tab[u] /\ tab[u].pc = "write"
      BY <1>6, <1>10, <2>2
    <3>2. Private(u)
      BY <1>0, <3>1 DEF NewIsPrivate
    <3>3. tab[u].picture # n
      BY <1>1, <1>2, <3>2 DEF Private
    <3> QED
      BY <1>1, <1>5, <1>6, <1>9, <2>2, <3>1, <3>2, <3>3 DEF Private, UploadAvatar
  <2> QED
    BY <2>1, <2>2
<1>11. NothingReplaced'
  BY <1>0, <1>1, <1>2, <1>5, <1>6, <1>9 DEF NothingReplaced, UploadAvatar
<1>12. ReplacedIsHidden'
  BY <1>0, <1>5, <1>6 DEF ReplacedIsHidden, Clean, UploadAvatar
<1>13. ShownPictureExists'
  BY <1>0, <1>1 DEF ShownPictureExists, UploadAvatar
<1> QED
  BY <1>1, <1>8, <1>10, <1>11, <1>12, <1>13 DEF ProfileInv, NewIsPrivate

LEMMA WriteProfileStep == ASSUME ProfileInv, NEW t \in FormTabs, WriteProfile(t) PROVE ProfileInv'
<1>0. /\ StoreTyped /\ TabsTyped /\ NewIsPrivate /\ NothingReplaced
      /\ ReplacedIsHidden /\ ShownPictureExists
  BY DEF ProfileInv
<1>1. PICK n : n = tab[t].picture
  OBVIOUS
<1>2. /\ tab[t].pc = "write" /\ n \in assets /\ avatar # n
      /\ \A u \in FormTabs : tab[u].form # n /\ tab[u].previous # n
      /\ \A u \in FormTabs \ {t} : tab[u].picture # n
  BY <1>0, <1>1 DEF WriteProfile, TabAt, NewIsPrivate, Private
<1>3. n \in Nat /\ n <= stored /\ n # NoProfile
  BY <1>0, <1>2, Numbers DEF StoreTyped
<1>4. PICK q : q = [tab[t] EXCEPT !.pc = "delete"]
  OBVIOUS
<1>5. /\ q \in TabRecords /\ q.pc = "delete" /\ q.picture = n
      /\ q.form = tab[t].form /\ q.previous = tab[t].previous
  BY <1>0, <1>1, <1>4, TabTyped DEF TabRecords, TabStages
<1>6. /\ tab' \in [FormTabs -> TabRecords]
      /\ tab'[t] = q
      /\ \A u \in FormTabs \ {t} : tab'[u] = tab[u]
  BY <1>0, <1>4, <1>5, OneTab DEF WriteProfile
<1>7. \A u \in FormTabs : /\ tab'[u].form = tab[u].form
                          /\ tab'[u].previous = tab[u].previous
                          /\ tab'[u].picture = tab[u].picture
  BY <1>1, <1>5, <1>6
<1>8. UNCHANGED <<assets, stored, staleSave>>
  BY DEF WriteProfile
<1>9. \/ avatar # NoProfile /\ avatar' = n /\ UNCHANGED lostWrite
      \/ UNCHANGED avatar /\ (lostWrite' <=> lostWrite \/ avatar # NoProfile)
  BY <1>1 DEF WriteProfile
<1>10. StoreTyped'
  BY <1>0, <1>3, <1>8, <1>9 DEF StoreTyped
<1>11. TabsTyped'
  BY <1>0, <1>6, <1>7, <1>8 DEF TabsTyped
<1>12. ASSUME NEW u \in FormTabs, tab'[u].pc = "write" PROVE Private(u)'
  <2>1. u # t /\ tab'[u] = tab[u] /\ tab[u].pc = "write"
    BY <1>5, <1>6, <1>12
  <2>2. Private(u) /\ tab[u].picture # n
    BY <1>0, <1>2, <2>1 DEF NewIsPrivate
  <2>3. avatar' # tab[u].picture
    BY <1>9, <2>2 DEF Private
  <2> QED
    BY <1>7, <1>8, <2>2, <2>3 DEF Private
<1>13. NothingReplaced'
  <2> SUFFICES ASSUME avatar' = NoProfile, NEW u \in FormTabs
               PROVE  /\ tab'[u].previous = NoPicture
                      /\ tab'[u].form \in assets' \cup {NoPicture}
                      /\ tab'[u].pc \in {"write", "delete"} => tab'[u].picture \in assets'
    BY DEF NothingReplaced
  <2>1. avatar = NoProfile
    BY <1>3, <1>9
  <2>2. CASE u = t
    BY <1>0, <1>2, <1>5, <1>6, <1>8, <2>1, <2>2 DEF NothingReplaced
  <2>3. CASE u # t
    BY <1>0, <1>6, <1>8, <2>1, <2>3 DEF NothingReplaced
  <2> QED
    BY <2>2, <2>3
<1>14. ReplacedIsHidden'
  <2> SUFFICES ASSUME Clean', NEW u \in FormTabs, tab'[u].pc = "delete", tab'[u].previous # NoPicture
               PROVE  avatar' # tab'[u].previous
    BY DEF ReplacedIsHidden
  <2>1. CASE avatar # NoProfile /\ avatar' = n
    BY <1>2, <1>7, <2>1
  <2>2. CASE avatar' = NoProfile
    BY <1>13, <2>2 DEF NothingReplaced
  <2>3. CASE UNCHANGED avatar /\ avatar # NoProfile /\ lostWrite'
    BY <2>3 DEF Clean
  <2> QED
    BY <1>9, <2>1, <2>2, <2>3
<1>15. ShownPictureExists'
  <2>1. CASE avatar # NoProfile /\ avatar' = n
    BY <1>2, <1>8, <2>1 DEF ShownPictureExists
  <2>2. CASE avatar' = NoProfile
    <3>1. NoProfile \notin Pictures
      BY Numbers DEF Pictures
    <3> QED
      BY <2>2, <3>1 DEF ShownPictureExists
  <2>3. CASE UNCHANGED avatar /\ avatar # NoProfile /\ lostWrite'
    BY <2>3 DEF ShownPictureExists
  <2> QED
    BY <1>9, <2>1, <2>2, <2>3
<1> QED
  BY <1>10, <1>11, <1>12, <1>13, <1>14, <1>15 DEF ProfileInv, NewIsPrivate

LEMMA DeleteStep == ASSUME ProfileInv, NEW t \in FormTabs, DeletePrevious(t) PROVE ProfileInv'
<1>0. /\ StoreTyped /\ TabsTyped /\ NewIsPrivate /\ NothingReplaced
      /\ ReplacedIsHidden /\ ShownPictureExists
  BY DEF ProfileInv
<1>1. PICK n \in Nat, p \in Nat : n = tab[t].picture /\ p = tab[t].previous
  BY <1>0, TabTyped
<1>2. PICK q : q = [pc |-> "idle", form |-> n, previous |-> NoPicture, picture |-> NoPicture]
  OBVIOUS
<1>3. /\ q \in TabRecords /\ q.pc = "idle" /\ q.form = n
      /\ q.previous = NoPicture /\ q.picture = NoPicture
  BY <1>2, Numbers DEF TabRecords, TabStages
<1>4. /\ tab' \in [FormTabs -> TabRecords]
      /\ tab'[t] = q
      /\ \A u \in FormTabs \ {t} : tab'[u] = tab[u]
  BY <1>0, <1>1, <1>2, <1>3, OneTab DEF DeletePrevious, Shows
<1>5. /\ tab[t].pc = "delete" /\ UNCHANGED <<stored, avatar, lostWrite, staleSave>>
      /\ assets' = assets \ {p} \/ assets' = assets
  BY <1>1 DEF DeletePrevious, TabAt, Outdated
<1>6. StoreTyped'
  BY <1>0, <1>5 DEF StoreTyped
<1>7. TabsTyped'
  <2>1. n <= stored /\ NoPicture <= stored
    BY <1>0, <1>1, TabTyped, Numbers DEF StoreTyped
  <2> QED
    BY <1>0, <1>3, <1>4, <1>5, <2>1 DEF TabsTyped
<1>8. ASSUME NEW u \in FormTabs, tab'[u].pc = "write" PROVE Private(u)'
  <2>1. u # t /\ tab'[u] = tab[u] /\ tab[u].pc = "write"
    BY <1>3, <1>4, <1>8
  <2>2. Private(u)
    BY <1>0, <2>1 DEF NewIsPrivate
  <2>3. PICK m : m = tab[u].picture
    OBVIOUS
  <2>4. /\ m \in assets /\ avatar # m /\ m # p /\ m # n /\ m # NoPicture
        /\ \A v \in FormTabs : tab[v].form # m /\ tab[v].previous # m
        /\ \A v \in FormTabs \ {u} : tab[v].picture # m
    BY <1>0, <1>1, <2>1, <2>2, <2>3, Numbers DEF Private, StoreTyped
  <2>5. /\ \A v \in FormTabs : tab'[v].form # m /\ tab'[v].previous # m
        /\ \A v \in FormTabs \ {u} : tab'[v].picture # m
    BY <1>3, <1>4, <2>4
  <2> QED
    BY <1>5, <2>1, <2>3, <2>4, <2>5 DEF Private
<1>9. NothingReplaced'
  <2> SUFFICES ASSUME avatar = NoProfile, NEW u \in FormTabs
               PROVE  /\ tab'[u].previous = NoPicture
                      /\ tab'[u].form \in assets' \cup {NoPicture}
                      /\ tab'[u].pc \in {"write", "delete"} => tab'[u].picture \in assets'
    BY <1>5 DEF NothingReplaced
  <2>1. p = NoPicture /\ n \in assets
    BY <1>0, <1>1, <1>5 DEF NothingReplaced
  <2>2. NoPicture \notin assets
    BY <1>0, Numbers DEF StoreTyped
  <2>3. assets' = assets
    BY <1>5, <2>1, <2>2
  <2>4. CASE u = t
    BY <1>3, <1>4, <2>1, <2>3, <2>4
  <2>5. CASE u # t
    BY <1>0, <1>4, <2>3, <2>5 DEF NothingReplaced
  <2> QED
    BY <2>4, <2>5
<1>10. ReplacedIsHidden'
  BY <1>0, <1>3, <1>4, <1>5 DEF ReplacedIsHidden, Clean
<1>11. ShownPictureExists'
  <2> SUFFICES ASSUME Clean, avatar \in Pictures PROVE avatar \in assets'
    BY <1>5 DEF ShownPictureExists, Clean
  <2>1. avatar \in assets
    BY <1>0 DEF ShownPictureExists, Clean
  <2>2. avatar # p
    BY <1>0, <1>1, <1>5, Numbers DEF ReplacedIsHidden, Pictures
  <2> QED
    BY <1>5, <2>1, <2>2
<1> QED
  BY <1>6, <1>7, <1>8, <1>9, <1>10, <1>11 DEF ProfileInv, NewIsPrivate

LEMMA SaveFormStep == ASSUME ProfileInv, NEW t \in FormTabs, SaveForm(t) PROVE ProfileInv'
<1>0. /\ StoreTyped /\ TabsTyped /\ NewIsPrivate /\ NothingReplaced
      /\ ReplacedIsHidden /\ ShownPictureExists
  BY DEF ProfileInv
<1>1. PICK n \in Nat : n = tab[t].form
  BY <1>0, TabTyped
<1>2. /\ avatar' = n /\ UNCHANGED <<assets, stored, tab, lostWrite>>
      /\ staleSave' <=> staleSave \/ (n # NoPicture /\ avatar \notin {NoProfile, n})
  BY <1>1 DEF SaveForm
<1>3. n <= stored /\ n # NoProfile
  BY <1>0, <1>1, TabTyped, Numbers DEF StoreTyped
<1>4. StoreTyped' /\ TabsTyped'
  BY <1>0, <1>2, <1>3 DEF StoreTyped, TabsTyped
<1>5. ASSUME NEW u \in FormTabs, tab'[u].pc = "write" PROVE Private(u)'
  <2>1. Private(u)
    BY <1>0, <1>2, <1>5 DEF NewIsPrivate
  <2> QED
    BY <1>1, <1>2, <2>1 DEF Private
<1>6. NothingReplaced'
  BY <1>2, <1>3 DEF NothingReplaced
<1>7. ASSUME Clean' PROVE Clean /\ (n = NoPicture \/ avatar = NoProfile \/ avatar = n)
  BY <1>2, <1>7 DEF Clean
<1>8. ReplacedIsHidden'
  <2> SUFFICES ASSUME Clean', NEW u \in FormTabs, tab[u].pc = "delete", tab[u].previous # NoPicture
               PROVE  n # tab[u].previous
    BY <1>2 DEF ReplacedIsHidden
  <2> QED
    BY <1>0, <1>7 DEF ReplacedIsHidden, NothingReplaced
<1>9. ShownPictureExists'
  <2> SUFFICES ASSUME Clean', n \in Pictures PROVE n \in assets
    BY <1>2 DEF ShownPictureExists, Clean
  <2>1. n # NoPicture
    BY Numbers DEF Pictures
  <2>2. CASE avatar = NoProfile
    BY <1>0, <1>1, <2>1, <2>2 DEF NothingReplaced
  <2>3. CASE avatar = n
    BY <1>0, <1>7, <2>3 DEF ShownPictureExists, Clean
  <2> QED
    BY <1>7, <2>1, <2>2, <2>3
<1> QED
  BY <1>4, <1>5, <1>6, <1>8, <1>9 DEF ProfileInv, NewIsPrivate

\* Photos of a listing are stored beside the profile.
LEMMA StoresKeeps ==
    ASSUME ProfileInv, Stores, UNCHANGED <<avatar, tab, lostWrite, staleSave>> PROVE ProfileInv'
<1>0. /\ StoreTyped /\ TabsTyped /\ NewIsPrivate /\ NothingReplaced
      /\ ReplacedIsHidden /\ ShownPictureExists
  BY DEF ProfileInv
<1>1. /\ StoreTyped' /\ assets' = assets \cup {stored'}
      /\ stored \in Nat /\ stored' \in Nat /\ stored' = stored + 1
  BY <1>0, StoresNew
<1>2. TabsTyped'
  BY <1>0, <1>1, TabTyped DEF TabsTyped
<1>3. NewIsPrivate'
  BY <1>0, <1>1 DEF NewIsPrivate, Private
<1>4. NothingReplaced' /\ ReplacedIsHidden' /\ ShownPictureExists'
  BY <1>0, <1>1 DEF NothingReplaced, ReplacedIsHidden, ShownPictureExists, Clean
<1> QED
  BY <1>1, <1>2, <1>3, <1>4 DEF ProfileInv

LEMMA ProfileRests ==
    ASSUME ProfileInv, UNCHANGED <<assets, stored, avatar, tab, lostWrite, staleSave>>
    PROVE  ProfileInv'
BY DEF ProfileInv, StoreTyped, TabsTyped, NewIsPrivate, Private, NothingReplaced,
       ReplacedIsHidden, ShownPictureExists, Clean

-------------------------------------------------------------------------------
(* The listing's photos.                                                   *)

OneEach(s) == \A i, j \in 1 .. Len(s) : s[i] = s[j] => i = j
StoredOnes(s) == \A i \in 1 .. Len(s) : s[i] \in assets

BatchOK ==
    /\ batch \in [pc : {"uploading"}, images : Seq(Nat), left : Nat, got : Seq(Nat)]
    /\ Len(batch.images) + Len(batch.got) + batch.left <= MAX_SELLER_UPLOAD_IMAGES
    /\ OneEach(batch.images) /\ StoredOnes(batch.images)
    /\ OneEach(batch.got) /\ StoredOnes(batch.got)
    /\ \A i \in 1 .. Len(batch.images), j \in 1 .. Len(batch.got) : batch.images[i] # batch.got[j]

GridOK ==
    /\ grid \in Seq(Nat)
    /\ Len(grid) <= MAX_SELLER_UPLOAD_IMAGES
    /\ OneEach(grid) /\ StoredOnes(grid)

\* A profile has no photos, and a listing no profile picture.
ListingInv ==
    /\ album = "profile" => grid = <<>> /\ batch = NoBatch
    /\ GridOK
    /\ batch = NoBatch \/ BatchOK

PicturesInv == ProfileInv /\ ListingInv

LEMMA NoPhotos == <<>> \in Seq(Nat) /\ Len(<<>>) = 0
BY EmptySeq

LEMMA PicturesStart == PicturesInit => PicturesInv
<1> SUFFICES ASSUME PicturesInit PROVE PicturesInv
  OBVIOUS
<1>1. StoreTyped
  BY Numbers DEF PicturesInit, StoreTyped
<1>2. PICK q : q = [pc |-> "idle", form |-> NoPicture, previous |-> NoPicture, picture |-> NoPicture]
  OBVIOUS
<1>3. /\ q \in TabRecords /\ q.pc = "idle" /\ q.form = NoPicture
      /\ q.previous = NoPicture /\ q.picture = NoPicture
  BY <1>2, Numbers DEF TabRecords, TabStages
<1>4. tab = [t \in FormTabs |-> q]
  BY <1>2 DEF PicturesInit
<1>5. tab \in [FormTabs -> TabRecords] /\ \A t \in FormTabs : tab[t] = q
  BY <1>3, <1>4
<1>6. TabsTyped
  BY <1>3, <1>5, Numbers DEF TabsTyped, PicturesInit
<1>7. NewIsPrivate /\ NothingReplaced /\ ReplacedIsHidden
  BY <1>3, <1>5 DEF NewIsPrivate, NothingReplaced, ReplacedIsHidden
<1>8. ShownPictureExists
  BY Numbers DEF ShownPictureExists, Pictures, PicturesInit
<1>9. ListingInv
  BY NoPhotos, PictureAssumption DEF ListingInv, GridOK, OneEach, StoredOnes, PicturesInit
<1> QED
  BY <1>1, <1>6, <1>7, <1>8, <1>9 DEF PicturesInv, ProfileInv

\* Steps of the profile leave no photos to lose.
LEMMA ProfileKeepsListing ==
    ASSUME ListingInv, album = "profile", UNCHANGED <<album, listingVars>> PROVE ListingInv'
<1>1. grid' = <<>> /\ batch' = NoBatch
  BY DEF ListingInv, listingVars
<1>2. GridOK'
  BY <1>1, NoPhotos, PictureAssumption DEF GridOK, OneEach, StoredOnes
<1> QED
  BY <1>1, <1>2 DEF ListingInv

LEMMA ListingRests ==
    ASSUME ListingInv, UNCHANGED <<album, listingVars, assets>> PROVE ListingInv'
BY DEF ListingInv, GridOK, BatchOK, OneEach, StoredOnes, listingVars

LEMMA Removed ==
    ASSUME NEW s \in Seq(Nat), NEW i \in 1 .. Len(s)
    PROVE  /\ RemoveAt(s, i) \in Seq(Nat)
           /\ Len(s) \in Nat /\ Len(RemoveAt(s, i)) = Len(s) - 1
           /\ \A k \in 1 .. Len(s) - 1 : RemoveAt(s, i)[k] = IF k < i THEN s[k] ELSE s[k + 1]
<1>0. PICK n \in Nat : n = Len(s)
  BY LenProperties
<1>a. i \in Nat /\ 1 <= i /\ i <= n
  BY <1>0
<1>1. PICK a : a = SubSeq(s, 1, i - 1)
  OBVIOUS
<1>2. PICK b : b = SubSeq(s, i + 1, n)
  OBVIOUS
<1>3. a \in Seq(Nat) /\ Len(a) = i - 1 /\ \A k \in 1 .. i - 1 : a[k] = s[k]
  BY <1>0, <1>a, <1>1, SubSeqProperties
<1>4. b \in Seq(Nat) /\ Len(b) = n - i /\ \A k \in 1 .. n - i : b[k] = s[i + k]
  <2>1. i + 1 \in Int /\ n \in Int /\ \A k \in i + 1 .. n : s[k] \in Nat
    BY <1>0, <1>a, ElementOfSeq
  <2>2. /\ b \in Seq(Nat)
        /\ Len(b) = IF i + 1 <= n THEN n - (i + 1) + 1 ELSE 0
        /\ \A k \in 1 .. n - (i + 1) + 1 : b[k] = s[i + 1 + k - 1]
    BY <1>2, <2>1, SubSeqProperties
  <2>3. n - (i + 1) + 1 = n - i /\ (IF i + 1 <= n THEN n - (i + 1) + 1 ELSE 0) = n - i
    BY <1>a
  <2>4. ASSUME NEW k \in 1 .. n - i PROVE i + 1 + k - 1 = i + k
    BY <1>a, <2>4
  <2> QED
    BY <2>2, <2>3, <2>4
<1>5. PICK r : r = a \o b
  OBVIOUS
<1>b. r = RemoveAt(s, i)
  BY <1>0, <1>1, <1>2, <1>5 DEF RemoveAt
<1>c. PICK la \in Nat : la = Len(a)
  BY <1>3, LenProperties
<1>6. /\ r \in Seq(Nat) /\ Len(r) = Len(a) + Len(b)
      /\ \A k \in 1 .. Len(a) + Len(b) : r[k] = IF k <= Len(a) THEN a[k] ELSE b[k - Len(a)]
  BY <1>3, <1>4, <1>5, ConcatProperties
<1>d. /\ la = i - 1 /\ Len(r) = n - 1
      /\ \A k \in 1 .. n - 1 : r[k] = IF k <= la THEN a[k] ELSE b[k - la]
  <2>1. Len(a) + Len(b) = n - 1 /\ la = i - 1
    BY <1>a, <1>3, <1>4, <1>c
  <2>2. Len(r) = n - 1 /\ \A k \in 1 .. n - 1 : r[k] = IF k <= Len(a) THEN a[k] ELSE b[k - Len(a)]
    BY <1>6, <2>1
  <2> QED
    BY <1>c, <2>1, <2>2
<1>7. ASSUME NEW k \in 1 .. n - 1 PROVE r[k] = IF k < i THEN s[k] ELSE s[k + 1]
  <2>1. CASE k < i
    BY <1>a, <1>3, <1>d, <2>1
  <2>2. CASE i <= k
    <3>1. ~(k <= la) /\ ~(k < i)
      BY <1>a, <1>d, <2>2
    <3>2. r[k] = b[k - la]
      BY <1>d, <3>1
    <3>3. k - la \in 1 .. n - i /\ i + (k - la) = k + 1
      BY <1>a, <1>d, <2>2
    <3>4. b[k - la] = s[i + (k - la)]
      BY <1>4, <3>3
    <3> QED
      BY <3>1, <3>2, <3>3, <3>4
  <2> QED
    BY <1>a, <2>1, <2>2
<1> QED
  BY <1>0, <1>6, <1>7, <1>b, <1>d

LEMMA RemovedOnes ==
    ASSUME NEW s \in Seq(Nat), OneEach(s), StoredOnes(s), NEW i \in 1 .. Len(s)
    PROVE  /\ OneEach(RemoveAt(s, i)) /\ StoredOnes(RemoveAt(s, i))
           /\ \A k \in 1 .. Len(RemoveAt(s, i)) : RemoveAt(s, i)[k] # s[i]
<1>1. PICK r : r = RemoveAt(s, i)
  OBVIOUS
<1>2. PICK n \in Nat : n = Len(s)
  BY LenProperties
<1>3. Len(r) = n - 1 /\ \A k \in 1 .. n - 1 : r[k] = IF k < i THEN s[k] ELSE s[k + 1]
  BY <1>1, <1>2, Removed
<1>4. \A k \in 1 .. n - 1 : \E m \in 1 .. n : r[k] = s[m] /\ m # i /\ m = IF k < i THEN k ELSE k + 1
  <2> TAKE k \in 1 .. n - 1
  <2>1. CASE k < i
    BY <1>2, <1>3, <2>1
  <2>2. CASE ~(k < i)
    <3>1. k + 1 \in 1 .. n /\ k + 1 # i /\ r[k] = s[k + 1]
      BY <1>2, <1>3, <2>2
    <3> QED
      BY <2>2, <3>1
  <2> QED
    BY <2>1, <2>2
<1>5. StoredOnes(r)
  BY <1>2, <1>3, <1>4 DEF StoredOnes
<1>6. ASSUME NEW j \in 1 .. n - 1, NEW k \in 1 .. n - 1, r[j] = r[k] PROVE j = k
  <2>1. PICK a \in 1 .. n : r[j] = s[a] /\ a = IF j < i THEN j ELSE j + 1
    BY <1>4
  <2>2. PICK b \in 1 .. n : r[k] = s[b] /\ b = IF k < i THEN k ELSE k + 1
    BY <1>4
  <2>3. a = b
    BY <1>2, <1>6, <2>1, <2>2 DEF OneEach
  <2> QED
    BY <2>1, <2>2, <2>3
<1>7. OneEach(r)
  BY <1>3, <1>6 DEF OneEach
<1>8. ASSUME NEW k \in 1 .. n - 1 PROVE r[k] # s[i]
  BY <1>2, <1>4 DEF OneEach
<1> QED
  BY <1>1, <1>3, <1>5, <1>7, <1>8

LEMMA JoinedOnes ==
    ASSUME NEW s \in Seq(Nat), NEW t \in Seq(Nat), OneEach(s), OneEach(t),
           StoredOnes(s), StoredOnes(t),
           \A i \in 1 .. Len(s), j \in 1 .. Len(t) : s[i] # t[j]
    PROVE  /\ s \o t \in Seq(Nat) /\ Len(s \o t) = Len(s) + Len(t)
           /\ OneEach(s \o t) /\ StoredOnes(s \o t)
<1>1. PICK m \in Nat, n \in Nat : m = Len(s) /\ n = Len(t)
  BY LenProperties
<1>2. PICK r : r = s \o t
  OBVIOUS
<1>3. /\ r \in Seq(Nat) /\ Len(r) = m + n
      /\ \A k \in 1 .. m + n : r[k] = IF k <= m THEN s[k] ELSE t[k - m]
  BY <1>1, <1>2, ConcatProperties
<1>4. \A k \in 1 .. m + n : k <= m => k \in 1 .. m /\ r[k] = s[k]
  BY <1>3
<1>5. \A k \in 1 .. m + n : ~(k <= m) => k - m \in 1 .. n /\ r[k] = t[k - m]
  BY <1>3
<1>6. StoredOnes(r)
  BY <1>1, <1>3, <1>4, <1>5 DEF StoredOnes
<1>7. ASSUME NEW j \in 1 .. m + n, NEW k \in 1 .. m + n, r[j] = r[k] PROVE j = k
  <2>1. CASE j <= m /\ k <= m
    BY <1>1, <1>4, <1>7, <2>1 DEF OneEach
  <2>2. CASE j <= m /\ ~(k <= m)
    BY <1>1, <1>4, <1>5, <1>7, <2>2
  <2>3. CASE ~(j <= m) /\ k <= m
    BY <1>1, <1>4, <1>5, <1>7, <2>3
  <2>4. CASE ~(j <= m) /\ ~(k <= m)
    <3>1. j - m \in 1 .. n /\ k - m \in 1 .. n /\ t[j - m] = t[k - m]
      BY <1>5, <1>7, <2>4
    <3>2. j - m = k - m
      BY <1>1, <3>1 DEF OneEach
    <3> QED
      BY <3>2
  <2> QED
    BY <2>1, <2>2, <2>3, <2>4
<1> QED
  BY <1>1, <1>2, <1>3, <1>6, <1>7 DEF OneEach

LEMMA GridSteps == ASSUME PicturesInv, RemovePhoto \/ MakeCover, UNCHANGED album PROVE PicturesInv'
<1>0. ListingInv /\ GridOK /\ OneEach(grid) /\ StoredOnes(grid) /\ grid \in Seq(Nat)
  BY DEF PicturesInv, ListingInv, GridOK
<1>1. ProfileInv'
  BY ProfileRests DEF PicturesInv, RemovePhoto, MakeCover
<1>2. /\ UNCHANGED <<assets, batch>>
      /\ \E i \in 1 .. Len(grid) :
            grid' = RemoveAt(grid, i) \/ grid' = <<grid[i]>> \o RemoveAt(grid, i)
  BY <1>0, LenProperties DEF RemovePhoto, MakeCover
<1>3. PICK i \in 1 .. Len(grid) :
            grid' = RemoveAt(grid, i) \/ grid' = <<grid[i]>> \o RemoveAt(grid, i)
  BY <1>2
<1>4. PICK r \in Seq(Nat) : r = RemoveAt(grid, i)
  BY <1>0, Removed
<1>5. /\ Len(grid) \in Nat /\ Len(r) = Len(grid) - 1
      /\ OneEach(r) /\ StoredOnes(r)
      /\ \A k \in 1 .. Len(r) : r[k] # grid[i]
  BY <1>0, <1>4, Removed, RemovedOnes
<1>6. grid' \in Seq(Nat) /\ OneEach(grid') /\ StoredOnes(grid') /\ Len(grid') <= Len(grid)
  <2>1. CASE grid' = r
    BY <1>5, <2>1
  <2>2. CASE grid' = <<grid[i]>> \o r
    <3>1. PICK x \in Nat : x = grid[i]
      BY <1>0, ElementOfSeq
    <3>2. PICK c : c = <<x>>
      OBVIOUS
    <3>3. c \in Seq(Nat) /\ Len(c) = 1 /\ c[1] = x
      BY <3>2
    <3>4. x \in assets
      BY <1>0, <3>1 DEF StoredOnes
    <3>5. OneEach(c) /\ StoredOnes(c)
      BY <3>3, <3>4 DEF OneEach, StoredOnes
    <3>6. \A k \in 1 .. Len(c), j \in 1 .. Len(r) : c[k] # r[j]
      BY <1>5, <3>1, <3>3
    <3>7. /\ c \o r \in Seq(Nat) /\ Len(c \o r) = Len(c) + Len(r)
          /\ OneEach(c \o r) /\ StoredOnes(c \o r)
      BY <1>5, <3>3, <3>5, <3>6, JoinedOnes
    <3>8. grid' = c \o r
      BY <2>2, <3>1, <3>2
    <3>9. Len(c \o r) <= Len(grid)
      BY <1>5, <3>3, <3>7
    <3> QED
      BY <3>7, <3>8, <3>9
  <2> QED
    BY <1>3, <1>4, <2>1, <2>2
<1>7. GridOK'
  <2>1. Len(grid') <= MAX_SELLER_UPLOAD_IMAGES
    <3>1. Len(grid) \in Nat /\ Len(grid') \in Nat /\ MAX_SELLER_UPLOAD_IMAGES \in Nat
          /\ Len(grid) <= MAX_SELLER_UPLOAD_IMAGES /\ Len(grid') <= Len(grid)
      BY <1>0, <1>6, LenProperties, PictureAssumption DEF GridOK
    <3> QED
      BY <3>1
  <2>2. StoredOnes(grid)'
    BY <1>2, <1>6 DEF StoredOnes
  <2>3. OneEach(grid)'
    BY <1>6 DEF OneEach
  <2> QED
    BY <1>6, <2>1, <2>2, <2>3 DEF GridOK
<1>8. BatchOK => BatchOK'
  BY <1>2 DEF BatchOK, OneEach, StoredOnes
<1>9. album = "profile" => grid' = <<>> /\ batch' = NoBatch
  <2> SUFFICES ASSUME album = "profile" PROVE FALSE
    OBVIOUS
  <2>1. grid = <<>>
    BY <1>0 DEF ListingInv
  <2> QED
    BY <1>3, <2>1, NoPhotos
<1> QED
  BY <1>0, <1>1, <1>2, <1>7, <1>8, <1>9 DEF PicturesInv, ListingInv

LEMMA SelectStep == ASSUME PicturesInv, SelectFiles, UNCHANGED album, album = "listing" PROVE PicturesInv'
<1>0. ListingInv /\ GridOK /\ OneEach(grid) /\ StoredOnes(grid) /\ grid \in Seq(Nat)
  BY DEF PicturesInv, ListingInv, GridOK
<1>1. ProfileInv'
  BY ProfileRests DEF PicturesInv, SelectFiles
<1>2. PICK m \in Nat : m = Len(grid) /\ m <= MAX_SELLER_UPLOAD_IMAGES
  BY <1>0, LenProperties DEF GridOK
<1>3. PICK files \in 1 .. MAX_SELLER_UPLOAD_IMAGES - m :
         batch' = [pc |-> "uploading", images |-> grid, left |-> files, got |-> <<>>]
  BY <1>2 DEF SelectFiles
<1>4. files \in Nat /\ m + 0 + files <= MAX_SELLER_UPLOAD_IMAGES
  BY <1>2, PictureAssumption
<1>5. PICK e : e = <<>> /\ e \in Seq(Nat) /\ Len(e) = 0
  BY NoPhotos
<1>6. PICK b : b = [pc |-> "uploading", images |-> grid, left |-> files, got |-> e]
  OBVIOUS
<1>7. /\ b \in [pc : {"uploading"}, images : Seq(Nat), left : Nat, got : Seq(Nat)]
      /\ b.images = grid /\ b.left = files /\ b.got = e
  BY <1>0, <1>4, <1>5, <1>6
<1>8. batch' = b /\ UNCHANGED <<grid, assets>>
  BY <1>3, <1>5, <1>6 DEF SelectFiles
<1>9. BatchOK'
  <2>1. OneEach(e)' /\ StoredOnes(e)'
    BY <1>5 DEF OneEach, StoredOnes
  <2>2. OneEach(grid)' /\ StoredOnes(grid)'
    BY <1>0, <1>8 DEF OneEach, StoredOnes
  <2>3. Len(b.images) + Len(b.got) + b.left <= MAX_SELLER_UPLOAD_IMAGES
    BY <1>2, <1>4, <1>5, <1>7
  <2>4. \A i \in 1 .. Len(grid), j \in 1 .. Len(e) : grid[i] # e[j]
    BY <1>5
  <2> QED
    BY <1>7, <1>8, <2>1, <2>2, <2>3, <2>4 DEF BatchOK, OneEach, StoredOnes
<1>10. GridOK'
  BY <1>0, <1>8 DEF GridOK, OneEach, StoredOnes
<1> QED
  BY <1>0, <1>1, <1>9, <1>10 DEF PicturesInv, ListingInv

LEMMA UploadListingStep ==
    ASSUME PicturesInv, UploadListingImage, UNCHANGED album, album = "listing" PROVE PicturesInv'
<1>0. ListingInv /\ GridOK /\ ProfileInv
  BY DEF PicturesInv, ListingInv
<1>1. BatchOK
  <2>1. NoBatch.pc = "idle"
    BY DEF NoBatch
  <2> QED
    BY <1>0, <2>1 DEF ListingInv, UploadListingImage
<1>2. PICK m \in Nat, n \in Nat, k \in Nat :
         m = Len(batch.images) /\ n = Len(batch.got) /\ k = batch.left
  BY <1>1, LenProperties DEF BatchOK
<1>3. 1 <= k /\ m + n + k <= MAX_SELLER_UPLOAD_IMAGES
  BY <1>1, <1>2 DEF BatchOK, UploadListingImage
<1>4. batch.images \in Seq(Nat) /\ batch.got \in Seq(Nat)
  BY <1>1 DEF BatchOK
<1>5. CASE UNCHANGED <<assets, stored>> /\ batch' = [batch EXCEPT !.left = @ - 1]
  <2>1. ProfileInv'
    BY <1>0, <1>5, ProfileRests DEF UploadListingImage
  <2>2. PICK b : b = [batch EXCEPT !.left = @ - 1]
    OBVIOUS
  <2>3. /\ b \in [pc : {"uploading"}, images : Seq(Nat), left : Nat, got : Seq(Nat)]
        /\ b.images = batch.images /\ b.left = k - 1 /\ b.got = batch.got
    BY <1>1, <1>2, <1>3, <2>2 DEF BatchOK
  <2>4. m + n + (k - 1) <= MAX_SELLER_UPLOAD_IMAGES
    BY <1>3, PictureAssumption
  <2>5. BatchOK'
    BY <1>1, <1>2, <1>5, <2>2, <2>3, <2>4 DEF BatchOK, OneEach, StoredOnes
  <2>6. GridOK'
    BY <1>0, <1>5 DEF GridOK, OneEach, StoredOnes, UploadListingImage
  <2> QED
    BY <1>0, <2>1, <2>5, <2>6 DEF PicturesInv, ListingInv
<1>6. CASE Stores /\ batch' = [batch EXCEPT !.left = @ - 1, !.got = Append(@, stored')]
  <2>1. ProfileInv'
    BY <1>0, <1>6, StoresKeeps DEF UploadListingImage
  <2>2. /\ assets' = assets \cup {stored'} /\ stored' \in Nat /\ stored' \notin assets
    BY <1>0, <1>6, StoresNew DEF UploadListingImage, ProfileInv
  <2>3. PICK x \in Nat : x = stored'
    BY <2>2
  <2>4. PICK g \in Seq(Nat) : g = Append(batch.got, x)
    BY <1>4, AppendProperties
  <2>5. /\ Len(g) = n + 1 /\ g[n + 1] = x
        /\ \A i \in 1 .. n : g[i] = batch.got[i]
    BY <1>2, <1>4, <2>4, AppendProperties
  <2>6. PICK b : b = [batch EXCEPT !.left = @ - 1, !.got = g]
    OBVIOUS
  <2>7. /\ b \in [pc : {"uploading"}, images : Seq(Nat), left : Nat, got : Seq(Nat)]
        /\ b.images = batch.images /\ b.left = k - 1 /\ b.got = g
    <3>1. batch \in [pc : {"uploading"}, images : Seq(Nat), left : Nat, got : Seq(Nat)]
      BY <1>1 DEF BatchOK
    <3>2. PICK l \in Nat : l = k - 1
      BY <1>3
    <3>3. b = [batch EXCEPT !.left = l, !.got = g]
      BY <1>2, <2>6, <3>2
    <3>4. /\ b \in [pc : {"uploading"}, images : Seq(Nat), left : Nat, got : Seq(Nat)]
          /\ b.images = batch.images /\ b.left = l /\ b.got = g
      BY <3>1, <3>3
    <3> QED
      BY <3>2, <3>4
  <2>8. batch' = b
    BY <1>1, <1>6, <2>3, <2>4, <2>6 DEF BatchOK
  <2>9. \A i \in 1 .. n : batch.got[i] \in assets /\ batch.got[i] # x
    BY <1>1, <1>2, <2>2, <2>3 DEF BatchOK, StoredOnes
  <2>10. \A i \in 1 .. m : batch.images[i] \in assets /\ batch.images[i] # x
    BY <1>1, <1>2, <2>2, <2>3 DEF BatchOK, StoredOnes
  <2>11. \A i \in 1 .. n + 1 : i \in 1 .. n \/ i = n + 1
    OBVIOUS
  <2>12. OneEach(g)'
    <3> SUFFICES ASSUME NEW i \in 1 .. n + 1, NEW j \in 1 .. n + 1, g[i] = g[j] PROVE i = j
      BY <2>5 DEF OneEach
    <3>1. \A p, q \in 1 .. n : batch.got[p] = batch.got[q] => p = q
      BY <1>1, <1>2 DEF BatchOK, OneEach
    <3> QED
      BY <2>5, <2>9, <2>11, <3>1
  <2>13. StoredOnes(g)'
    BY <2>2, <2>3, <2>5, <2>9, <2>11 DEF StoredOnes
  <2>14. OneEach(batch.images) /\ \A i \in 1 .. m : batch.images[i] \in assets'
    BY <1>1, <2>2, <2>10 DEF BatchOK
  <2>15. m + (n + 1) + (k - 1) <= MAX_SELLER_UPLOAD_IMAGES
    BY <1>3, PictureAssumption
  <2>16. \A i \in 1 .. m, j \in 1 .. n + 1 : batch.images[i] # g[j]
    <3>1. \A i \in 1 .. m, j \in 1 .. n : batch.images[i] # batch.got[j]
      BY <1>1, <1>2 DEF BatchOK
    <3> QED
      BY <2>5, <2>10, <2>11, <3>1
  <2>17. BatchOK'
    <3>1. Len(b.images) + Len(b.got) + b.left <= MAX_SELLER_UPLOAD_IMAGES
      BY <1>2, <2>5, <2>7, <2>15
    <3>2. OneEach(b.images) /\ \A i \in 1 .. Len(b.images) : b.images[i] \in assets'
      BY <1>2, <2>7, <2>14
    <3>3. OneEach(b.got) /\ \A i \in 1 .. Len(b.got) : b.got[i] \in assets'
      BY <2>7, <2>12, <2>13 DEF OneEach, StoredOnes
    <3>4. \A i \in 1 .. Len(b.images), j \in 1 .. Len(b.got) : b.images[i] # b.got[j]
      <4>1. \A i \in 1 .. Len(batch.images), j \in 1 .. Len(g) : batch.images[i] # g[j]
        <5>1. Len(batch.images) = m /\ Len(g) = n + 1
          BY <1>2, <2>5
        <5> QED
          BY <2>16, <5>1
      <4> QED
        BY <2>7, <4>1
    <3> QED
      <4>1. OneEach(batch.images)' /\ OneEach(batch.got)'
        BY <2>8, <3>2, <3>3 DEF OneEach
      <4>2. StoredOnes(batch.images)' /\ StoredOnes(batch.got)'
        BY <2>8, <3>2, <3>3 DEF StoredOnes
      <4>3. Len(batch'.images) + Len(batch'.got) + batch'.left <= MAX_SELLER_UPLOAD_IMAGES
        BY <2>8, <3>1
      <4>4. \A i \in 1 .. Len(batch'.images), j \in 1 .. Len(batch'.got) :
               batch'.images[i] # batch'.got[j]
        BY <2>8, <3>4
      <4>5. batch' \in [pc : {"uploading"}, images : Seq(Nat), left : Nat, got : Seq(Nat)]
        BY <2>7, <2>8
      <4> QED
        BY <4>1, <4>2, <4>3, <4>4, <4>5 DEF BatchOK
  <2>18. GridOK'
    BY <1>0, <2>2 DEF GridOK, OneEach, StoredOnes, UploadListingImage
  <2> QED
    BY <1>0, <2>1, <2>17, <2>18 DEF PicturesInv, ListingInv
<1> QED
  BY <1>5, <1>6 DEF UploadListingImage

LEMMA UploadedStep == ASSUME PicturesInv, FilesUploaded, UNCHANGED album, album = "listing" PROVE PicturesInv'
<1>0. ListingInv /\ GridOK /\ ProfileInv
  BY DEF PicturesInv, ListingInv
<1>1. BatchOK
  <2>1. NoBatch.pc = "idle"
    BY DEF NoBatch
  <2> QED
    BY <1>0, <2>1 DEF ListingInv, FilesUploaded
<1>2. ProfileInv'
  BY <1>0, ProfileRests DEF FilesUploaded
<1>3. CASE grid' = grid
  <2>1. UNCHANGED assets /\ batch' = NoBatch
    BY DEF FilesUploaded
  <2>2. GridOK'
    BY <1>0, <1>3, <2>1 DEF GridOK, OneEach, StoredOnes
  <2> QED
    BY <1>2, <2>1, <2>2 DEF PicturesInv, ListingInv
<1>4. CASE grid' = batch.images \o batch.got
  <2>1. PICK s \in Seq(Nat), t \in Seq(Nat) : s = batch.images /\ t = batch.got
    BY <1>1 DEF BatchOK
  <2>2. /\ s \o t \in Seq(Nat) /\ Len(s \o t) = Len(s) + Len(t)
        /\ OneEach(s \o t) /\ StoredOnes(s \o t)
    BY <1>1, <2>1, JoinedOnes DEF BatchOK
  <2>3. PICK g : g = s \o t
    OBVIOUS
  <2>4. Len(g) <= MAX_SELLER_UPLOAD_IMAGES
    <3>1. PICK m \in Nat, n \in Nat, k \in Nat : m = Len(s) /\ n = Len(t) /\ k = batch.left
      BY <1>1, <2>1, LenProperties DEF BatchOK
    <3>2. m + n + k <= MAX_SELLER_UPLOAD_IMAGES
      BY <1>1, <2>1, <3>1 DEF BatchOK
    <3>3. m + n <= MAX_SELLER_UPLOAD_IMAGES
      BY <3>2, PictureAssumption
    <3> QED
      BY <2>2, <2>3, <3>1, <3>3
  <2>5. grid' = g /\ UNCHANGED assets /\ batch' = NoBatch
    BY <1>4, <2>1, <2>3 DEF FilesUploaded
  <2>6. GridOK'
    BY <2>2, <2>3, <2>4, <2>5 DEF GridOK, OneEach, StoredOnes
  <2> QED
    BY <1>2, <2>5, <2>6 DEF PicturesInv, ListingInv
<1> QED
  BY <1>3, <1>4 DEF FilesUploaded

LEMMA PicturesStep == PicturesInv /\ [PicturesNext]_pictureVars => PicturesInv'
<1> SUFFICES ASSUME PicturesInv, [PicturesNext]_pictureVars PROVE PicturesInv'
  OBVIOUS
<1>0. ProfileInv /\ ListingInv
  BY DEF PicturesInv
<1>1. CASE (AllowanceRuns \/ SnapshotExpires \/ UNCHANGED pictureVars) /\ UNCHANGED album
  <2>1. /\ UNCHANGED <<assets, stored, avatar, tab, lostWrite, staleSave>>
        /\ UNCHANGED <<album, listingVars, assets>>
    BY <1>1 DEF AllowanceRuns, SnapshotExpires, pictureVars, listingVars
  <2> QED
    BY <1>0, <2>1, ProfileRests, ListingRests DEF PicturesInv
<1>2. ASSUME album = "profile", UNCHANGED album, NEW t \in FormTabs,
             \/ OpenForm(t) \/ AskAvatar(t) \/ ReadPrevious(t) \/ UploadAvatar(t)
             \/ WriteProfile(t) \/ DeletePrevious(t) \/ UploadEnds(t) \/ RemovePicture(t)
             \/ SaveForm(t)
      PROVE  PicturesInv'
  <2>1. ProfileInv'
    BY <1>0, <1>2, TabQuietSteps, UploadStep, WriteProfileStep, DeleteStep, SaveFormStep
  <2>2. UNCHANGED <<album, listingVars>>
    BY <1>2 DEF OpenForm, AskAvatar, ReadPrevious, UploadAvatar, WriteProfile, DeletePrevious,
                UploadEnds, RemovePicture, SaveForm
  <2> QED
    BY <1>0, <1>2, <2>1, <2>2, ProfileKeepsListing DEF PicturesInv
<1>3. CASE /\ album = "listing" /\ UNCHANGED album
           /\ SelectFiles \/ UploadListingImage \/ FilesUploaded \/ RemovePhoto \/ MakeCover
  BY <1>3, SelectStep, UploadListingStep, UploadedStep, GridSteps
<1>4. UNCHANGED pictureVars => UNCHANGED album
  BY DEF pictureVars
<1> QED
  BY <1>1, <1>2, <1>3, <1>4 DEF PicturesNext

LEMMA PicturesShow == PicturesInv => PicturesSound
<1> SUFFICES ASSUME PicturesInv PROVE PicturesSound
  OBVIOUS
<1>1. GridOK /\ DOMAIN grid = 1 .. Len(grid)
  BY LenProperties DEF PicturesInv, ListingInv, GridOK
<1>2. GridIsSound
  BY <1>1 DEF GridOK, GridIsSound, OneEach, StoredOnes, ToSet
<1> QED
  BY <1>2 DEF PicturesInv, ProfileInv, PicturesSound

THEOREM PicturesInvariant == PicturesSpec => []PicturesInv
BY PicturesStart, PicturesStep, PTL DEF PicturesSpec

THEOREM PicturesAreSound == PicturesSpec => []PicturesSound
BY PicturesInvariant, PicturesShow, PTL

-------------------------------------------------------------------------------
(***************************************************************************)
(* A backend process and its probes (BackendInstance). A probe says of a   *)
(* dependency only what a check of its own found.                          *)
(***************************************************************************)
HealthStates == {"unasked", "not_configured", "unavailable", "ok"}

ProbeRecords ==
    {NoProbe} \cup [pc : {"checking"}, seen : SUBSET Dependencies,
                    health : [Dependencies -> HealthStates]]
              \cup [pc : {"answered"}, seen : SUBSET Dependencies,
                    health : [Dependencies -> HealthStates \ {"unasked"}],
                    status : {"unavailable", "degraded", "ready"}]

HttpRecords ==
    {[pc |-> "none"]} \cup [pc : {"running"}, starts : {0}, layers : {{}}]
                      \cup [pc : {"started", "finished"}, starts : {1}, layers : {Outside("guard")}]

ProcessTyped ==
    /\ settings \in [production : BOOLEAN, configured : SUBSET Dependencies, auth : BOOLEAN]
    /\ instance \in {"booting", "refused", "serving", "stopping", "stopped"}
    /\ up \subseteq Dependencies
    /\ instance = "booting" => open = {} /\ pump = "none"

\* What a status says of the dependencies it was given for.
StatusMeans(said, health) ==
    /\ said = "ready" => \A d \in Dependencies : health[d] = "ok"
    /\ said = "degraded" => ~settings.production

\* A dependency is found well only while it answers, and a probe that is under
\* way saw everything that answered since it began.
ProbeHonest ==
    /\ probe \in ProbeRecords
    /\ probe.pc = "checking" => instance = "serving" /\ up \subseteq probe.seen
    /\ probe.pc \in {"checking", "answered"} =>
          \A d \in Dependencies :
              probe.health[d] = "ok" => d \in probe.seen /\ d \in settings.configured
    /\ probe.pc = "answered" => StatusMeans(probe.status, probe.health)

HttpTyped == httpRequest \in [HttpRequests -> HttpRecords]

InstanceInv == ProcessTyped /\ ServesWhole /\ ProbeHonest /\ HttpTyped

-------------------------------------------------------------------------------
LEMMA LayersOutside == Outside("guard") = {"security headers", "request id", "cors"}
<1>1. DOMAIN Middleware = 1 .. 4
  BY DEF Middleware
<1>2. /\ Middleware[1] = "guard" /\ Middleware[2] = "security headers"
      /\ Middleware[3] = "request id" /\ Middleware[4] = "cors"
  BY DEF Middleware
<1>3. {j \in 1 .. 4 : \E k \in 1 .. j - 1 : Middleware[k] = "guard"} = {2, 3, 4}
  <2>1. ASSUME NEW j \in 1 .. 4
        PROVE  (\E k \in 1 .. j - 1 : Middleware[k] = "guard") <=> j \in {2, 3, 4}
    <3>1. CASE j = 1
      BY <3>1
    <3>2. CASE j # 1
      <4>1. 1 \in 1 .. j - 1 /\ j \in {2, 3, 4}
        BY <3>2
      <4>. QED
        BY <1>2, <4>1
    <3>. QED
      BY <3>1, <3>2
  <2>. QED
    BY <2>1
<1>4. Outside("guard") = {Middleware[i] : i \in {2, 3, 4}}
  BY <1>1, <1>3 DEF Outside
<1>. QED
  BY <1>2, <1>4

\* The overall status is that of some dependency, and "ready" only of all.
LEMMA StatusOfDependencies ==
    ASSUME NEW health \in [Dependencies -> HealthStates \ {"unasked"}],
           settings.production \in BOOLEAN
    PROVE  /\ StatusMeans(OverallStatus(health), health)
           /\ OverallStatus(health) \in {"unavailable", "degraded", "ready"}
<1>1. ASSUME NEW d \in Dependencies
      PROVE  /\ Judged(health[d]) = "ready" => health[d] = "ok"
             /\ Judged(health[d]) = "degraded" => ~settings.production
             /\ Judged(health[d]) \in {"unavailable", "degraded", "ready"}
  <2>1. health[d] \in {"not_configured", "unavailable", "ok"}
    BY DEF HealthStates
  <2>2. CASE health[d] = "not_configured"
    <3>1. CASE settings.production
      BY <2>2, <3>1 DEF Judged
    <3>2. CASE ~settings.production
      BY <2>2, <3>2 DEF Judged
    <3>. QED
      BY <3>1, <3>2
  <2>3. CASE health[d] = "unavailable"
    BY <2>3 DEF Judged
  <2>4. CASE health[d] = "ok"
    BY <2>4 DEF Judged
  <2>. QED
    BY <2>1, <2>2, <2>3, <2>4
<1>2. /\ DOMAIN CRITICAL_DEPENDENCIES = 1 .. 2
      /\ CRITICAL_DEPENDENCIES[1] = "database" /\ CRITICAL_DEPENDENCIES[2] = "redis"
  BY DEF CRITICAL_DEPENDENCIES
<1>. DEFINE Both == DOMAIN CRITICAL_DEPENDENCIES
            Judge(i) == Judged(health[CRITICAL_DEPENDENCIES[i]])
            First(i) == Judge(i) # "ready" /\ \A j \in 1 .. i - 1 : Judge(j) = "ready"
<1>3. OverallStatus(health) =
        IF \E i \in Both : Judge(i) # "ready" THEN Judge(CHOOSE i \in Both : First(i)) ELSE "ready"
  BY DEF OverallStatus
<1>4. Both = 1 .. 2 /\ \A i \in Both : CRITICAL_DEPENDENCIES[i] \in Dependencies
  BY <1>2 DEF Dependencies
<1>5. CASE \E i \in Both : Judge(i) # "ready"
  <2>1. \E i \in Both : First(i)
    <3>1. CASE Judge(1) # "ready"
      <4>1. First(1) /\ 1 \in Both
        BY <1>4, <3>1
      <4>. QED
        BY <4>1
    <3>2. CASE Judge(1) = "ready"
      <4>1. Judge(2) # "ready"
        BY <1>4, <1>5, <3>2
      <4>2. \A j \in 1 .. 2 - 1 : j = 1
        OBVIOUS
      <4>3. First(2) /\ 2 \in Both
        BY <1>4, <3>2, <4>1, <4>2
      <4>. QED
        BY <4>3
    <3>. QED
      BY <3>1, <3>2
  <2>. HIDE DEF First, Judge, Both
  <2>2. PICK i \in Both : First(i) /\ i = CHOOSE j \in Both : First(j)
    BY <2>1
  <2>3. OverallStatus(health) = Judge(i) /\ Judge(i) # "ready"
    BY <1>3, <1>5, <2>2 DEF First
  <2>. QED
    BY <1>1, <1>4, <2>3 DEF Judge, StatusMeans
<1>6. CASE ~\E i \in Both : Judge(i) # "ready"
  <2>1. OverallStatus(health) = "ready" /\ Judge(1) = "ready" /\ Judge(2) = "ready"
    BY <1>3, <1>4, <1>6
  <2>2. ASSUME NEW d \in Dependencies PROVE health[d] = "ok"
    BY <1>1, <1>2, <2>1 DEF Dependencies
  <2>. QED
    BY <2>1, <2>2 DEF StatusMeans
<1>. QED
  BY <1>5, <1>6

LEMMA ProbeFacts ==
    ASSUME ProbeHonest
    PROVE  /\ probe.pc \in {"none", "checking", "answered"}
           /\ probe.pc = "checking" =>
                 probe \in [pc : {"checking"}, seen : SUBSET Dependencies,
                            health : [Dependencies -> HealthStates]]
           /\ probe.pc = "answered" =>
                 /\ probe.seen \subseteq Dependencies
                 /\ probe.health \in [Dependencies -> HealthStates \ {"unasked"}]
  BY DEF ProbeHonest, ProbeRecords, NoProbe

LEMMA InstanceStart == InstanceInit => InstanceInv
<1>. SUFFICES ASSUME InstanceInit PROVE InstanceInv
  OBVIOUS
<1>1. ProcessTyped /\ ServesWhole
  BY DEF InstanceInit, ProcessTyped, ServesWhole
<1>2. ProbeHonest
  BY DEF InstanceInit, ProbeHonest, ProbeRecords, NoProbe
<1>3. HttpTyped
  BY DEF InstanceInit, HttpTyped, HttpRecords
<1>. QED
  BY <1>1, <1>2, <1>3 DEF InstanceInv

LEMMA ProcessSteps ==
    ASSUME InstanceInv,
           Boot \/ PumpFails \/ StopHub \/ ResetSingletons \/ \E d \in Dependencies : Dispose(d)
    PROVE  InstanceInv'
<1>1. UNCHANGED <<settings, up, probe, httpRequest>> /\ (probe.pc = "checking" => instance' = "serving")
  BY DEF Boot, PumpFails, StopHub, ResetSingletons, Dispose, Drained, InstanceInv, ProbeHonest
<1>3. ProbeHonest' /\ HttpTyped'
  BY <1>1 DEF InstanceInv, ProbeHonest, StatusMeans, HttpTyped
<1>4. CASE Boot
  BY <1>3, <1>4 DEF Boot, MayStart, InstanceInv, ProcessTyped, ServesWhole
<1>5. CASE PumpFails
  BY <1>3, <1>5 DEF PumpFails, InstanceInv, ProcessTyped, ServesWhole
<1>6. CASE StopHub
  BY <1>3, <1>6 DEF StopHub, InstanceInv, ProcessTyped, ServesWhole
<1>7. CASE ResetSingletons
  BY <1>3, <1>7 DEF ResetSingletons, InstanceInv, ProcessTyped, ServesWhole
<1>8. ASSUME NEW d \in Dependencies, Dispose(d) PROVE InstanceInv'
  BY <1>3, <1>8 DEF Dispose, InstanceInv, ProcessTyped, ServesWhole
<1>. QED
  BY <1>4, <1>5, <1>6, <1>7, <1>8

LEMMA FlipStep == ASSUME InstanceInv, Flip PROVE InstanceInv'
<1>1. PICK d \in Dependencies :
        /\ up' = IF d \in up THEN up \ {d} ELSE up \cup {d}
        /\ probe' = IF probe.pc = "checking" THEN [probe EXCEPT !.seen = @ \cup up'] ELSE probe
  BY DEF Flip
<1>2. up' \subseteq Dependencies
  BY <1>1 DEF InstanceInv, ProcessTyped
<1>3. ProbeHonest'
  <2>1. CASE probe.pc = "checking"
    <3>1. probe \in [pc : {"checking"}, seen : SUBSET Dependencies,
                     health : [Dependencies -> HealthStates]]
      BY <2>1, ProbeFacts DEF InstanceInv
    <3>2. /\ probe' \in [pc : {"checking"}, seen : SUBSET Dependencies,
                         health : [Dependencies -> HealthStates]]
          /\ probe'.seen = probe.seen \cup up' /\ probe'.health = probe.health
      BY <1>1, <1>2, <2>1, <3>1
    <3>3. probe'.pc = "checking" /\ probe' \in ProbeRecords
      BY <3>2 DEF ProbeRecords
    <3>. QED
      BY <2>1, <3>2, <3>3 DEF InstanceInv, ProbeHonest, Flip
  <2>2. CASE probe.pc # "checking"
    <3>1. probe' = probe /\ settings' = settings /\ instance' = instance
      BY <1>1, <2>2 DEF Flip
    <3>. QED
      BY <2>2, <3>1 DEF InstanceInv, ProbeHonest, StatusMeans, Flip
  <2>. QED
    BY <2>1, <2>2
<1>. QED
  BY <1>2, <1>3 DEF Flip, InstanceInv, ProcessTyped, ServesWhole, HttpTyped

LEMMA ProbeArrivesStep == ASSUME InstanceInv, ProbeArrives PROVE InstanceInv'
<1>1. /\ probe' \in [pc : {"checking"}, seen : SUBSET Dependencies,
                     health : [Dependencies -> HealthStates]]
      /\ probe'.seen = up /\ \A d \in Dependencies : probe'.health[d] = "unasked"
  BY DEF ProbeArrives, InstanceInv, ProcessTyped, HealthStates
<1>2. probe' \in ProbeRecords /\ probe'.pc = "checking"
  BY <1>1 DEF ProbeRecords
<1>3. ProbeHonest'
  BY <1>1, <1>2 DEF ProbeArrives, ProbeHonest
<1>. QED
  BY <1>3 DEF ProbeArrives, InstanceInv, ProcessTyped, ServesWhole, HttpTyped

LEMMA CheckStep == ASSUME InstanceInv, NEW d \in Dependencies, Check(d) PROVE InstanceInv'
<1>1. PICK state \in {"not_configured", "unavailable", "ok"} :
        /\ probe' = [probe EXCEPT !.health[d] = state]
        /\ state = "ok" => d \in up /\ d \in settings.configured
  BY DEF Check
<1>2. /\ probe \in [pc : {"checking"}, seen : SUBSET Dependencies,
                    health : [Dependencies -> HealthStates]]
      /\ probe.pc = "checking" /\ instance = "serving" /\ up \subseteq probe.seen
  BY ProbeFacts DEF Check, InstanceInv, ProbeHonest
<1>3. /\ probe'.health \in [Dependencies -> HealthStates] /\ probe'.seen = probe.seen
      /\ probe' \in [pc : {"checking"}, seen : SUBSET Dependencies,
                     health : [Dependencies -> HealthStates]]
      /\ \A e \in Dependencies : probe'.health[e] = IF e = d THEN state ELSE probe.health[e]
  BY <1>1, <1>2 DEF HealthStates
<1>4. probe' \in ProbeRecords /\ probe'.pc = "checking"
  BY <1>3 DEF ProbeRecords
<1>5. ProbeHonest'
  BY <1>1, <1>2, <1>3, <1>4 DEF Check, InstanceInv, ProbeHonest
<1>. QED
  BY <1>2, <1>5 DEF Check, InstanceInv, ProcessTyped, ServesWhole, HttpTyped

LEMMA AnswerProbeStep == ASSUME InstanceInv, AnswerProbe PROVE InstanceInv'
<1>1. /\ probe \in [pc : {"checking"}, seen : SUBSET Dependencies,
                    health : [Dependencies -> HealthStates]]
      /\ probe.health \in [Dependencies -> HealthStates \ {"unasked"}]
      /\ probe.pc = "checking"
  BY ProbeFacts DEF AnswerProbe, InstanceInv
<1>2. /\ OverallStatus(probe.health) \in {"unavailable", "degraded", "ready"}
      /\ StatusMeans(OverallStatus(probe.health), probe.health)
  <2>1. settings.production \in BOOLEAN
    BY DEF InstanceInv, ProcessTyped
  <2>. QED
    BY <1>1, <2>1, StatusOfDependencies
<1>3. /\ probe' \in ProbeRecords
      /\ probe'.pc = "answered" /\ probe'.health = probe.health /\ probe'.seen = probe.seen
      /\ probe'.status = OverallStatus(probe.health)
  BY <1>1, <1>2 DEF AnswerProbe, ProbeRecords
<1>4. settings' = settings
  BY DEF AnswerProbe
<1>5. StatusMeans(probe.status, probe.health)'
  BY <1>2, <1>3, <1>4 DEF StatusMeans
<1>6. ProbeHonest'
  BY <1>1, <1>3, <1>4, <1>5 DEF InstanceInv, ProbeHonest
<1>. QED
  BY <1>6 DEF AnswerProbe, InstanceInv, ProcessTyped, ServesWhole, HttpTyped

LEMMA HttpTyping ==
    ASSUME HttpTyped, NEW r \in HttpRequests
    PROVE  /\ httpRequest[r].pc \in {"none", "running", "started", "finished"}
           /\ httpRequest[r].pc = "running" => httpRequest[r].starts = 0
           /\ httpRequest[r].pc \in {"started", "finished"} =>
                 httpRequest[r] \in [pc : {"started", "finished"}, starts : {1},
                                     layers : {Outside("guard")}]
<1>1. httpRequest[r] \in HttpRecords
  BY DEF HttpTyped
<1>. HIDE DEF Outside
<1>. QED
  BY <1>1 DEF HttpRecords

LEMMA HttpMoves ==
    ASSUME InstanceInv, NEW r \in HttpRequests, NEW next \in HttpRecords, HttpSteps(r, next)
    PROVE  InstanceInv'
<1>1. HttpTyped'
  BY DEF InstanceInv, HttpTyped, HttpSteps
<1>2. UNCHANGED <<settings, instance, up, flips, open, pump, probe>>
  BY DEF HttpSteps
<1>. QED
  BY <1>1, <1>2 DEF InstanceInv, ProcessTyped, ServesWhole, ProbeHonest, StatusMeans

LEMMA HttpRequestSteps ==
    ASSUME InstanceInv, NEW r \in HttpRequests,
           Serve(r) \/ Respond(r) \/ Escapes(r) \/ Complete(r)
    PROVE  InstanceInv'
<1>. DEFINE request == httpRequest[r]
<1>1. [pc |-> "running", starts |-> 0, layers |-> {}] \in HttpRecords
  BY DEF HttpRecords
<1>2. Started("guard") \in HttpRecords /\ [Started("guard") EXCEPT !.pc = "finished"] \in HttpRecords
  BY DEF HttpRecords, Started
<1>3. ASSUME request.pc = "started" PROVE request.starts = 1 /\ [request EXCEPT !.pc = "finished"] \in HttpRecords
  BY <1>3, HttpTyping DEF InstanceInv, HttpRecords
<1>4. request.pc = "running" => request.starts = 0
  BY HttpTyping DEF InstanceInv
<1>5. request.pc \in {"running", "started"} => ExceptionGuard(request) \in HttpRecords
  BY <1>2, <1>3, <1>4 DEF ExceptionGuard
<1>. QED
  BY <1>1, <1>2, <1>3, <1>5, HttpMoves DEF Serve, Respond, Escapes, Complete

\* The invariant is inductive.
LEMMA InstanceStep == InstanceInv /\ [InstanceNext]_instanceVars => InstanceInv'
<1>. SUFFICES ASSUME InstanceInv, [InstanceNext]_instanceVars PROVE InstanceInv'
  OBVIOUS
<1>1. CASE UNCHANGED instanceVars
  BY <1>1 DEF instanceVars, InstanceInv, ProcessTyped, ServesWhole, ProbeHonest, StatusMeans, HttpTyped
<1>2. CASE InstanceNext
  BY <1>2, ProcessSteps, FlipStep, ProbeArrivesStep, CheckStep, AnswerProbeStep, HttpRequestSteps
     DEF InstanceNext
<1>. QED
  BY <1>1, <1>2

LEMMA InstanceShows == InstanceInv => InstanceSound
<1>. SUFFICES ASSUME InstanceInv PROVE InstanceSound
  OBVIOUS
<1>1. ReadyIsTrue
  <2>. SUFFICES ASSUME probe.pc = "answered"
                PROVE  /\ probe.status = "ready" =>
                             settings.configured = Dependencies /\ probe.seen = Dependencies
                       /\ probe.status = "degraded" => ~settings.production
    BY DEF ReadyIsTrue
  <2>1. /\ probe.health \in [Dependencies -> HealthStates \ {"unasked"}]
        /\ probe.seen \subseteq Dependencies /\ settings.configured \subseteq Dependencies
        /\ StatusMeans(probe.status, probe.health)
        /\ \A d \in Dependencies : probe.health[d] = "ok" => d \in probe.seen /\ d \in settings.configured
    BY ProbeFacts DEF InstanceInv, ProcessTyped, ProbeHonest
  <2>. QED
    BY <2>1 DEF StatusMeans
<1>2. AnsweredOnce
  BY HttpTyping, LayersOutside DEF InstanceInv, AnsweredOnce
<1>. QED
  BY <1>1, <1>2 DEF InstanceInv, InstanceSound

(***************************************************************************)
(* The inductive invariant: a probe found well only what answered while it *)
(* ran, and a response has begun once, under the guard (health.py,         *)
(* main.py).                                                               *)
(***************************************************************************)
THEOREM InstanceInvariant == InstanceSpec => []InstanceInv
  BY InstanceStart, InstanceStep, PTL DEF InstanceSpec

(***************************************************************************)
(* Whatever comes and goes while a process boots, serves and stops, ready  *)
(* means that both dependencies answered, every answer begins once, and a  *)
(* process in production does not serve without its database.              *)
(***************************************************************************)
THEOREM InstanceIsSound == InstanceSpec => []InstanceSound
  BY InstanceInvariant, InstanceShows, PTL
-------------------------------------------------------------------------------
(***************************************************************************)
(* The connection of a tab (ChatConnection). A socket the manager keeps    *)
(* will tell of its end, and a tab without one that has listeners has a    *)
(* timer.                                                                  *)
(***************************************************************************)
\* A socket that is kept has its handlers and will tell its end.
KeptSocketHeard == ws # NoSocket => socket[ws] \in {"open", "closing"}

ConnectingForSomebody ==
    socketStatus = "connecting" =>
        listeners # {} /\ \E s \in Sockets : socket[s] \in {"ticket", "opening"}

IdleHasATimer ==
    listeners # {} /\ socketStatus = "inactive" =>
        TimerPending \/ reconnectAttempts >= MAX_RECONNECT_ATTEMPTS

\* Closed on purpose only when nobody listens.
ClosedForNobody == intentionalClose => listeners = {} /\ socketStatus = "inactive"

ConnectionInv ==
    /\ ConnectionTypeOK
    /\ KeptSocketHeard /\ ConnectingForSomebody /\ IdleHasATimer /\ ClosedForNobody
    /\ retries = reconnectAttempts

-------------------------------------------------------------------------------
LEMMA ConnectionStart == ConnectionInit => ConnectionInv
<1>. SUFFICES ASSUME ConnectionInit PROVE ConnectionInv
  OBVIOUS
<1>1. socket \in [Sockets -> SocketState]
  BY DEF ConnectionInit, SocketState
<1>2. looseTimers \in 0 .. MaxTimers /\ reconnectAttempts \in 0 .. MAX_RECONNECT_ATTEMPTS
  BY ConnectionAssumption DEF ConnectionInit
<1>3. ConnectionTypeOK
  BY <1>1, <1>2 DEF ConnectionInit, ConnectionTypeOK
<1>. QED
  BY <1>3 DEF ConnectionInit, ConnectionInv, KeptSocketHeard, ConnectingForSomebody,
              IdleHasATimer, ClosedForNobody

\* What ensureConnected leaves: a connection under way if somebody wants one.
LEMMA Ensured ==
    ASSUME ConnectionInv, NEW threads, NEW timer \in BOOLEAN,
           EnsureConnected(threads, socketStatus, timer), UNCHANGED ws
    PROVE  /\ socketStatus' \in {"inactive", "connecting", "open"}
           /\ socket' \in [Sockets -> SocketState]
           /\ reconnectTimer' \in BOOLEAN /\ intentionalClose' \in BOOLEAN
           /\ KeptSocketHeard' /\ (socketStatus' = "open" <=> ws' # NoSocket)
           /\ threads # {} => socketStatus' # "inactive" /\ intentionalClose' = FALSE
           /\ threads = {} => socketStatus' = socketStatus /\ intentionalClose' = intentionalClose
           /\ socketStatus' = "connecting" => \E s \in Sockets : socket'[s] \in {"ticket", "opening"}
<1>1. CASE threads # {} /\ socketStatus = "inactive"
  <2>1. PICK s \in Sockets : socket[s] = "free" /\ socket' = [socket EXCEPT ![s] = "ticket"]
    BY <1>1 DEF EnsureConnected
  <2>2. /\ socket' \in [Sockets -> SocketState] /\ socket'[s] = "ticket"
    BY <2>1 DEF ConnectionInv, ConnectionTypeOK, SocketState
  <2>3. ws = NoSocket /\ ws' = NoSocket
    BY <1>1 DEF ConnectionInv, ConnectionTypeOK
  <2>. QED
    BY <1>1, <2>2, <2>3 DEF EnsureConnected, KeptSocketHeard
<1>2. CASE ~(threads # {} /\ socketStatus = "inactive")
  <2>1. /\ socketStatus' = socketStatus /\ reconnectTimer' = timer
        /\ UNCHANGED <<intentionalClose, socket, ws>>
    BY <1>2 DEF EnsureConnected
  <2>2. intentionalClose => socketStatus = "inactive"
    BY DEF ConnectionInv, ClosedForNobody
  <2>3. intentionalClose \in BOOLEAN
    BY DEF ConnectionInv, ConnectionTypeOK
  <2>. QED
    BY <1>2, <2>1, <2>2, <2>3
       DEF ConnectionInv, ConnectionTypeOK, KeptSocketHeard, ConnectingForSomebody
<1>. QED
  BY <1>1, <1>2

\* A teardown leaves no kept socket, and every connection in a state of its own.
LEMMA TornDown ==
    ASSUME ConnectionInv, NEW s, Teardown(s)
    PROVE  /\ ws' = NoSocket /\ socketStatus' = "inactive"
           /\ socket' \in [Sockets -> SocketState]
<1>1. \A t \in Sockets : socket[t] \in SocketState
  BY DEF ConnectionInv, ConnectionTypeOK
<1>2. "free" \in SocketState /\ "deaf" \in SocketState
  BY DEF SocketState
<1>. QED
  BY <1>1, <1>2 DEF Teardown, Deafened

LEMMA SubscribeStep == ASSUME ConnectionInv, NEW t \in Threads, Subscribe(t) PROVE ConnectionInv'
<1>1. /\ listeners' \subseteq Threads /\ listeners' # {}
      /\ reconnectAttempts' = 0 /\ retries' = 0 /\ UNCHANGED <<ws, looseTimers>>
  BY DEF Subscribe, ConnectionInv, ConnectionTypeOK
<1>2. reconnectTimer \in BOOLEAN
  BY DEF ConnectionInv, ConnectionTypeOK
<1>3. EnsureConnected(listeners', socketStatus, reconnectTimer)
  BY DEF Subscribe
<1>4. /\ socketStatus' \in {"connecting", "open"} /\ intentionalClose' = FALSE
      /\ socket' \in [Sockets -> SocketState] /\ reconnectTimer' \in BOOLEAN
      /\ KeptSocketHeard' /\ (socketStatus' = "open" <=> ws' # NoSocket)
      /\ socketStatus' = "connecting" => \E s \in Sockets : socket'[s] \in {"ticket", "opening"}
  BY <1>1, <1>2, <1>3, Ensured
<1>5. ConnectionTypeOK'
  <2>1. reconnectAttempts' \in 0 .. MAX_RECONNECT_ATTEMPTS
    BY <1>1, ConnectionAssumption
  <2>2. ws' \in Sockets \cup {NoSocket} /\ looseTimers' \in 0 .. MaxTimers
    BY <1>1 DEF ConnectionInv, ConnectionTypeOK
  <2>3. socketStatus' \in {"inactive", "connecting", "open"} /\ intentionalClose' \in BOOLEAN
    BY <1>4
  <2>. QED
    BY <1>1, <1>4, <2>1, <2>2, <2>3, Zenon DEF ConnectionTypeOK
<1>. QED
  BY <1>1, <1>4, <1>5
     DEF ConnectionInv, ConnectingForSomebody, IdleHasATimer, ClosedForNobody

LEMMA UnsubscribeStep ==
    ASSUME ConnectionInv, NEW t \in Threads, Unsubscribe(t) PROVE ConnectionInv'
<1>1. listeners' \subseteq Threads /\ UNCHANGED <<looseTimers, reconnectAttempts, retries>>
  BY DEF Unsubscribe, ConnectionInv, ConnectionTypeOK
<1>2. CASE listeners' = {}
  <2>1. Teardown(NoSocket) /\ intentionalClose' = TRUE /\ reconnectTimer' = FALSE
    BY <1>2 DEF Unsubscribe
  <2>2. ws' = NoSocket /\ socketStatus' = "inactive" /\ socket' \in [Sockets -> SocketState]
    BY <2>1, TornDown
  <2>. QED
    BY <1>1, <1>2, <2>1, <2>2
       DEF ConnectionInv, ConnectionTypeOK, KeptSocketHeard, ConnectingForSomebody, IdleHasATimer,
           ClosedForNobody
<1>3. CASE listeners' # {}
  <2>1. UNCHANGED <<socketStatus, ws, socket, intentionalClose, reconnectTimer>> /\ listeners # {}
    BY <1>3 DEF Unsubscribe
  <2>. QED
    BY <1>1, <1>3, <2>1
       DEF ConnectionInv, ConnectionTypeOK, KeptSocketHeard, ConnectingForSomebody, IdleHasATimer,
           ClosedForNobody, TimerPending
<1>. QED
  BY <1>2, <1>3

\* A timer that is set is pending, and those it overtakes stay within the bound.
LEMMA TimerSet ==
    ASSUME ConnectionInv, SetTimer
    PROVE  reconnectTimer' = TRUE /\ looseTimers' \in 0 .. MaxTimers
  BY ConnectionAssumption DEF SetTimer, ConnectionInv, ConnectionTypeOK

LEMMA TicketSteps ==
    ASSUME ConnectionInv, NEW s \in Sockets, TicketArrives(s) \/ TicketFails(s) \/ EndsUnheard(s)
    PROVE  ConnectionInv'
<1>1. CASE TicketArrives(s)
  <2>1. /\ socket' \in [Sockets -> SocketState]
        /\ \A u \in Sockets : socket'[u] = IF u = s THEN "opening" ELSE socket[u]
        /\ socket[s] = "ticket"
    BY <1>1 DEF TicketArrives, ConnectionInv, ConnectionTypeOK, SocketState
  <2>2. KeptSocketHeard'
    BY <1>1, <2>1 DEF TicketArrives, ConnectionInv, ConnectionTypeOK, KeptSocketHeard
  <2>3. ConnectingForSomebody'
    BY <1>1, <2>1 DEF TicketArrives, ConnectionInv, ConnectingForSomebody
  <2>. QED
    BY <1>1, <2>1, <2>2, <2>3
       DEF TicketArrives, ConnectionInv, ConnectionTypeOK, IdleHasATimer, ClosedForNobody, TimerPending
<1>2. CASE TicketFails(s)
  <2>1. ws' = NoSocket /\ socketStatus' = "inactive" /\ socket' \in [Sockets -> SocketState]
    BY <1>2, TornDown DEF TicketFails
  <2>2. /\ listeners # {} => reconnectTimer' = TRUE
        /\ reconnectTimer' \in BOOLEAN /\ looseTimers' \in 0 .. MaxTimers
    BY <1>2, TimerSet DEF TicketFails, ConnectionInv, ConnectionTypeOK
  <2>. QED
    BY <1>2, <2>1, <2>2
       DEF TicketFails, ConnectionInv, ConnectionTypeOK, KeptSocketHeard, ConnectingForSomebody,
           IdleHasATimer, ClosedForNobody, TimerPending
<1>3. CASE EndsUnheard(s)
  <2>1. /\ socket' \in [Sockets -> SocketState]
        /\ \A u \in Sockets : socket'[u] = IF u = s THEN "free" ELSE socket[u]
        /\ socket[s] = "deaf"
    BY <1>3 DEF EndsUnheard, ConnectionInv, ConnectionTypeOK, SocketState
  <2>2. KeptSocketHeard'
    BY <1>3, <2>1 DEF EndsUnheard, ConnectionInv, ConnectionTypeOK, KeptSocketHeard
  <2>3. ConnectingForSomebody'
    BY <1>3, <2>1 DEF EndsUnheard, ConnectionInv, ConnectingForSomebody
  <2>. QED
    BY <1>3, <2>1, <2>2, <2>3
       DEF EndsUnheard, ConnectionInv, ConnectionTypeOK, IdleHasATimer, ClosedForNobody, TimerPending
<1>. QED
  BY <1>1, <1>2, <1>3

LEMMA OpensStep == ASSUME ConnectionInv, NEW s \in Sockets, Opens(s) PROVE ConnectionInv'
<1>1. /\ socket' \in [Sockets -> SocketState] /\ socket'[s] = "open"
      /\ ws' = s /\ s # NoSocket
  BY ConnectionAssumption DEF Opens, ConnectionInv, ConnectionTypeOK, SocketState
<1>2. 0 \in 0 .. MAX_RECONNECT_ATTEMPTS
  BY ConnectionAssumption
<1>3. ConnectionTypeOK'
  BY <1>1, <1>2 DEF Opens, ConnectionInv, ConnectionTypeOK
<1>4. KeptSocketHeard' /\ ConnectingForSomebody' /\ IdleHasATimer' /\ ClosedForNobody'
  BY <1>1 DEF Opens, KeptSocketHeard, ConnectingForSomebody, IdleHasATimer, ClosedForNobody
<1>. QED
  BY <1>3, <1>4 DEF Opens, ConnectionInv

\* Whichever socket ends, the manager begins again, has used up its attempts, or
\* nobody listens.
LEMMA ClosesStep == ASSUME ConnectionInv, NEW s \in Sockets, Closes(s) PROVE ConnectionInv'
<1>1. ws' = NoSocket /\ socketStatus' = "inactive" /\ socket' \in [Sockets -> SocketState]
  BY TornDown DEF Closes
<1>2. UNCHANGED <<listeners, intentionalClose>>
  BY DEF Closes
<1>3. CASE intentionalClose \/ listeners = {} \/ reconnectAttempts >= MAX_RECONNECT_ATTEMPTS
  <2>1. UNCHANGED <<reconnectTimer, looseTimers, reconnectAttempts, retries>>
    BY <1>3 DEF Closes
  <2>. QED
    BY <1>1, <1>2, <1>3, <2>1
       DEF ConnectionInv, ConnectionTypeOK, KeptSocketHeard, ConnectingForSomebody, IdleHasATimer,
           ClosedForNobody
<1>4. CASE ~(intentionalClose \/ listeners = {} \/ reconnectAttempts >= MAX_RECONNECT_ATTEMPTS)
  <2>1. SetTimer /\ reconnectAttempts' = reconnectAttempts + 1 /\ retries' = retries + 1
    BY <1>4 DEF Closes
  <2>2. reconnectTimer' = TRUE /\ looseTimers' \in 0 .. MaxTimers
    BY <2>1, TimerSet
  <2>3. reconnectAttempts' \in 0 .. MAX_RECONNECT_ATTEMPTS /\ retries' = reconnectAttempts'
    BY <1>4, <2>1, ConnectionAssumption DEF ConnectionInv, ConnectionTypeOK
  <2>. QED
    BY <1>1, <1>2, <1>4, <2>2, <2>3
       DEF ConnectionInv, ConnectionTypeOK, KeptSocketHeard, ConnectingForSomebody, IdleHasATimer,
           ClosedForNobody, TimerPending
<1>. QED
  BY <1>3, <1>4

LEMMA HeartbeatStep == ASSUME ConnectionInv, HeartbeatFails PROVE ConnectionInv'
<1>1. ws \in Sockets /\ socketStatus = "open"
  BY DEF HeartbeatFails, ConnectionInv, ConnectionTypeOK
<1>2. socket' \in [Sockets -> SocketState] /\ socket'[ws] = "closing"
  BY <1>1 DEF HeartbeatFails, ConnectionInv, ConnectionTypeOK, SocketState
<1>. QED
  BY <1>1, <1>2
     DEF HeartbeatFails, ConnectionInv, ConnectionTypeOK, KeptSocketHeard, ConnectingForSomebody,
         IdleHasATimer, ClosedForNobody

LEMMA TimerFiresStep ==
    ASSUME ConnectionInv, NEW kept \in BOOLEAN, ReconnectTimerFires(kept) PROVE ConnectionInv'
<1>1. /\ EnsureConnected(listeners, socketStatus, FALSE)
      /\ UNCHANGED <<listeners, ws, reconnectAttempts, retries>>
  BY DEF ReconnectTimerFires
<1>2. looseTimers' \in 0 .. MaxTimers
  BY ConnectionAssumption DEF ReconnectTimerFires, ConnectionInv, ConnectionTypeOK
<1>3. /\ socketStatus' \in {"inactive", "connecting", "open"}
      /\ socket' \in [Sockets -> SocketState]
      /\ reconnectTimer' \in BOOLEAN /\ intentionalClose' \in BOOLEAN
      /\ KeptSocketHeard' /\ (socketStatus' = "open" <=> ws' # NoSocket)
      /\ listeners # {} => socketStatus' # "inactive" /\ intentionalClose' = FALSE
      /\ listeners = {} => socketStatus' = socketStatus /\ intentionalClose' = intentionalClose
      /\ socketStatus' = "connecting" => \E s \in Sockets : socket'[s] \in {"ticket", "opening"}
  BY <1>1, Ensured
<1>4. ConnectionTypeOK'
  BY <1>1, <1>2, <1>3 DEF ConnectionInv, ConnectionTypeOK
<1>. QED
  BY <1>1, <1>3, <1>4
     DEF ConnectionInv, ConnectingForSomebody, IdleHasATimer, ClosedForNobody

\* The invariant is inductive.
LEMMA ConnectionStep == ConnectionInv /\ [ConnectionNext]_connectionVars => ConnectionInv'
<1>. SUFFICES ASSUME ConnectionInv, [ConnectionNext]_connectionVars PROVE ConnectionInv'
  OBVIOUS
<1>1. CASE UNCHANGED connectionVars
  BY <1>1 DEF connectionVars, ConnectionInv, ConnectionTypeOK, KeptSocketHeard,
              ConnectingForSomebody, IdleHasATimer, ClosedForNobody, TimerPending
<1>2. CASE ConnectionNext
  BY <1>2, SubscribeStep, UnsubscribeStep, TicketSteps, OpensStep, ClosesStep, HeartbeatStep,
     TimerFiresStep DEF ConnectionNext
<1>. QED
  BY <1>1, <1>2

LEMMA ConnectionShows == ConnectionInv => ConnectionTypeOK /\ ConnectionSound
<1>. SUFFICES ASSUME ConnectionInv PROVE ConnectionTypeOK /\ ConnectionSound
  OBVIOUS
<1>1. NeverForgotten
  BY DEF ConnectionInv, ConnectionTypeOK, KeptSocketHeard, ConnectingForSomebody, IdleHasATimer,
         NeverForgotten
<1>2. ReconnectsAreBounded
  BY ConnectionAssumption DEF ConnectionInv, ConnectionTypeOK, ReconnectsAreBounded
<1>. QED
  BY <1>1, <1>2 DEF ConnectionInv, ConnectionSound

(***************************************************************************)
(* The inductive invariant: the socket kept will tell its end, a           *)
(* connection under way is wanted, and nothing was closed on purpose while *)
(* somebody listens (ws-client.ts).                                        *)
(***************************************************************************)
THEOREM ConnectionInvariant == ConnectionSpec => []ConnectionInv
  BY ConnectionStart, ConnectionStep, PTL DEF ConnectionSpec

(***************************************************************************)
(* However many sockets end late, unheard or out of turn, a tab with a     *)
(* listener is never forgotten and never retries beyond its attempts.      *)
(***************************************************************************)
THEOREM TabNeverForgotten == ConnectionSpec => []ConnectionSound
  BY ConnectionInvariant, ConnectionShows, PTL

-------------------------------------------------------------------------------
(***************************************************************************)
(* The rooms of the chat server (ChatHub). What is still on its way to an  *)
(* instance none of its sockets was sent; who is meant has it or will be   *)
(* sent it.                                                                *)
(***************************************************************************)
Talking == {"idle", "announce", "publish"}

ConnRecords ==
    [pc : {"none"}]
    \cup [pc : {"ticket", "idle", "announce", "gone"},
          server : Servers, ticket : Tickets, closing : BOOLEAN]
    \cup [pc : {"publish"},
          server : Servers, ticket : Tickets, closing : BOOLEAN, event : Event]

SentRecords == [origin : Servers \cup {App}, to : SUBSET Conns, out : BOOLEAN, lost : BOOLEAN]

HubTyped ==
    /\ conn \in [Conns -> ConnRecords]
    /\ room \in [Servers -> SUBSET Conns]
    /\ channel \in [Servers -> Seq(Nat)]
    /\ sent \in Seq(SentRecords) /\ Len(sent) <= MaxEvents
    /\ got \in [Conns -> [Event -> Nat]]
    /\ told \in [Servers -> [Owners -> BOOLEAN]]

\* A ticket Redis still holds was not shown yet, and no two sockets live on one.
TicketsOnce ==
    \A c \in Conns : conn[c].pc \in Talking =>
        /\ conn[c].ticket \notin tickets
        /\ \A d \in Conns : d # c /\ conn[d].pc \in Talking => conn[c].ticket # conn[d].ticket

\* Only sockets let in, and not on their way out, are in the room of their instance.
RoomsHeld ==
    \A i \in Servers : \A c \in room[i] :
        conn[c].pc \in Talking /\ conn[c].server = i /\ ~conn[c].closing

\* Who publishes an event published it on his instance and is alone with it.
Publishers ==
    \A c \in Conns : conn[c].pc = "publish" =>
        /\ conn[c].event \in DOMAIN sent /\ ~sent[conn[c].event].out
        /\ \A d \in Conns : d # c /\ conn[d].pc = "publish" => conn[c].event # conn[d].event

InChannel(i, e) == \E n \in DOMAIN channel[i] : channel[i][n] = e

\* What Redis has for an instance went out, and is there once.
ChannelsOnce ==
    \A i \in Servers :
        /\ \A n \in DOMAIN channel[i] : channel[i][n] \in DOMAIN sent /\ sent[channel[i][n]].out
        /\ \A n, m \in DOMAIN channel[i] : n # m => channel[i][n] # channel[i][m]

\* What is still on its way to an instance none of its sockets was sent.
Unheard ==
    \A c \in Conns, e \in Event :
        /\ got[c][e] <= 1
        /\ e \notin DOMAIN sent \/ conn[c].pc = "none" => got[c][e] = 0
        /\ /\ e \in DOMAIN sent /\ conn[c].pc # "none" /\ sent[e].origin # conn[c].server
           /\ ~sent[e].out \/ InChannel(conn[c].server, e)
           => got[c][e] = 0

\* Whom an event is meant for is in his room, and has it or will be sent it.
Heard ==
    \A e \in DOMAIN sent : \A c \in sent[e].to :
        /\ conn[c].pc # "none" /\ c \in room[conn[c].server]
        /\ \/ got[c][e] = 1
           \/ /\ sent[e].origin # conn[c].server
              /\ ~sent[e].out \/ sent[e].lost \/ InChannel(conn[c].server, e)

HubInv ==
    /\ HubTyped /\ TicketsOnce /\ RoomsHeld /\ BadgeFollowsLastTab
    /\ Publishers /\ ChannelsOnce /\ Unheard /\ Heard

-------------------------------------------------------------------------------
LEMMA ConnTyping ==
    ASSUME HubTyped, NEW c \in Conns
    PROVE  /\ conn[c].pc \in {"none", "ticket", "idle", "announce", "gone", "publish"}
           /\ conn[c].pc # "none" =>
                /\ conn[c].server \in Servers /\ conn[c].ticket \in Tickets /\ conn[c].closing \in BOOLEAN
                /\ Server(c) \in Servers /\ Owner(c) \in Owners
           /\ conn[c].pc = "publish" => conn[c].event \in Event
<1>1. conn[c] \in ConnRecords
  BY DEF HubTyped
<1>. QED
  BY <1>1 DEF ConnRecords, Server, Owner, Owners

LEMMA SentTyping ==
    ASSUME HubTyped
    PROVE  /\ DOMAIN sent = 1 .. Len(sent) /\ Len(sent) \in Nat /\ DOMAIN sent \subseteq Event
           /\ \A e \in DOMAIN sent : sent[e] \in SentRecords
<1>1. DOMAIN sent = 1 .. Len(sent) /\ Len(sent) \in Nat
  BY LenProperties DEF HubTyped
<1>2. \A e \in DOMAIN sent : sent[e] \in SentRecords
  BY <1>1, ElementOfSeq DEF HubTyped
<1>3. DOMAIN sent \subseteq Event
  BY <1>1, HubAssumption DEF HubTyped, Event
<1>. QED
  BY <1>1, <1>2, <1>3

LEMMA HubShows == HubInv => HubSound
<1>. SUFFICES ASSUME HubInv PROVE HubSound
  OBVIOUS
<1>1. OneSocketPerTicket
  BY DEF HubInv, TicketsOnce, Talking, OneSocketPerTicket
<1>2. HeardOnce
  BY DEF HubInv, Unheard, HeardOnce
<1>3. HeardByTheRoom
  <2>1. ASSUME NEW e \in DOMAIN sent, sent[e].out, ~sent[e].lost,
               \A i \in Servers : \A n \in DOMAIN channel[i] : channel[i][n] # e,
               NEW c \in sent[e].to
        PROVE  got[c][e] = 1
    <3>1. sent[e] \in SentRecords
      BY SentTyping DEF HubInv
    <3>2. c \in Conns
      BY <3>1 DEF SentRecords
    <3>3. conn[c].server \in Servers
      BY <2>1, <3>2, ConnTyping DEF HubInv, Heard
    <3>4. ~InChannel(conn[c].server, e)
      BY <2>1, <3>3 DEF InChannel
    <3>. QED
      BY <2>1, <3>4 DEF HubInv, Heard
  <2>. QED
    BY <2>1 DEF HeardByTheRoom
<1>. QED
  BY <1>1, <1>2, <1>3 DEF HubSound, HubInv

LEMMA HubStart == HubInit => HubInv
<1>. SUFFICES ASSUME HubInit PROVE HubInv
  OBVIOUS
<1>1. /\ DOMAIN sent = {} /\ sent \in Seq(SentRecords) /\ Len(sent) <= MaxEvents
  BY EmptySeq, HubAssumption DEF HubInit
<1>2. \A c \in Conns : conn[c].pc = "none"
  BY DEF HubInit
<1>3. \A i \in Servers : DOMAIN channel[i] = {} /\ room[i] = {}
  <2>1. DOMAIN <<>> = {}
    OBVIOUS
  <2>2. \A i \in Servers : channel[i] = <<>> /\ room[i] = {}
    BY DEF HubInit
  <2>. QED
    BY <2>1, <2>2
<1>4. HubTyped
  BY <1>1, EmptySeq DEF HubInit, HubTyped, ConnRecords
<1>5. BadgeFollowsLastTab
  BY <1>3 DEF HubInit, BadgeFollowsLastTab, Here
<1>6. Unheard
  BY <1>1 DEF HubInit, Unheard
<1>. QED
  BY <1>1, <1>2, <1>3, <1>4, <1>5, <1>6
  DEF HubInv, TicketsOnce, RoomsHeld, Publishers, ChannelsOnce, Heard, Talking

-------------------------------------------------------------------------------
\* One socket goes on, on its instance and with its ticket.
SocketMoves(c) ==
    /\ conn' \in [Conns -> ConnRecords]
    /\ \A d \in Conns : d # c => conn'[d] = conn[d]
    /\ conn[c].pc # "none" /\ conn'[c].pc # "none"
    /\ conn'[c].server = conn[c].server
    /\ conn'[c].ticket = conn[c].ticket

LEMMA TicketsStand ==
    ASSUME HubInv, NEW c \in Conns, SocketMoves(c), conn[c].pc \in Talking, UNCHANGED tickets
    PROVE  TicketsOnce'
<1>1. \A d \in Conns : conn'[d].pc \in Talking => conn[d].pc \in Talking /\ conn'[d].ticket = conn[d].ticket
  BY DEF SocketMoves
<1>. QED
  BY <1>1 DEF HubInv, TicketsOnce

\* The events stay what they are, some of them meant for fewer.
SentKept ==
    /\ sent' \in Seq(SentRecords) /\ Len(sent') = Len(sent) /\ DOMAIN sent' = DOMAIN sent
    /\ \A e \in DOMAIN sent :
          /\ sent'[e].origin = sent[e].origin /\ sent'[e].out = sent[e].out
          /\ sent'[e].lost = sent[e].lost /\ sent'[e].to \subseteq sent[e].to

LEMMA SentEventsStand ==
    ASSUME HubInv, NEW c \in Conns, SocketMoves(c), SentKept, UNCHANGED <<channel, got>>,
           conn'[c].pc # "publish" \/ conn'[c] = conn[c]
    PROVE  ChannelsOnce' /\ Unheard' /\ Publishers'
<1>1. \A i, e : InChannel(i, e)' <=> InChannel(i, e)
  BY DEF InChannel
<1>2. ChannelsOnce'
  BY DEF HubInv, ChannelsOnce, SentKept
<1>3. Unheard'
  BY <1>1 DEF HubInv, Unheard, SentKept, SocketMoves
<1>4. \A d \in Conns : conn'[d].pc = "publish" => conn'[d] = conn[d]
  BY DEF SocketMoves
<1>5. Publishers'
  BY <1>4 DEF HubInv, Publishers, SentKept
<1>. QED
  BY <1>2, <1>3, <1>5

LEMMA NothingSent ==
    ASSUME HubInv, UNCHANGED sent
    PROVE  SentKept
  BY DEF SentKept, HubInv, HubTyped

LEMMA HeardStands ==
    ASSUME HubInv, SentKept, UNCHANGED <<channel, got>>,
           \A d \in Conns : conn[d].pc # "none" =>
               conn'[d].pc # "none" /\ conn'[d].server = conn[d].server,
           \A e \in DOMAIN sent : \A d \in sent'[e].to : d \in room[conn[d].server] => d \in room'[conn[d].server]
    PROVE  Heard'
<1>1. \A i, e : InChannel(i, e)' <=> InChannel(i, e)
  BY DEF InChannel
<1>2. \A e \in DOMAIN sent : \A d \in sent[e].to : d \in Conns
  BY SentTyping DEF SentRecords, HubInv
<1>. QED
  BY <1>1, <1>2 DEF HubInv, Heard, SentKept

\* Rooms and badges stay when nobody comes or goes.
LEMMA RoomsStand ==
    ASSUME HubInv, UNCHANGED <<room, told>>,
           \A d \in Conns : conn[d].pc \in Talking /\ ~conn[d].closing =>
               /\ conn'[d].pc \in Talking /\ ~conn'[d].closing
               /\ conn'[d].server = conn[d].server /\ conn'[d].ticket = conn[d].ticket
    PROVE  RoomsHeld' /\ BadgeFollowsLastTab'
<1>1. \A i \in Servers : \A d \in room[i] :
          /\ d \in Conns /\ conn[d].pc \in Talking /\ ~conn[d].closing /\ conn[d].server = i
  BY DEF HubInv, RoomsHeld, HubTyped
<1>2. RoomsHeld'
  BY <1>1 DEF RoomsHeld
<1>3. \A i \in Servers, u \in Owners : Here(i, u)' = Here(i, u)
  BY <1>1 DEF Here, Owner
<1>4. BadgeFollowsLastTab'
  BY <1>3 DEF HubInv, BadgeFollowsLastTab
<1>. QED
  BY <1>2, <1>4

-------------------------------------------------------------------------------
\* Tickets.

LEMMA AcceptStep ==
    ASSUME HubInv, NEW c \in Conns, NEW i \in Servers, NEW t \in Tickets, Accept(c, i, t)
    PROVE  HubInv'
<1>. PICK r : r = [pc |-> "ticket", server |-> i, ticket |-> t, closing |-> FALSE]
  OBVIOUS
<1>1. r \in ConnRecords /\ r.pc = "ticket"
  BY DEF ConnRecords
<1>2. /\ conn' \in [Conns -> ConnRecords] /\ conn[c].pc = "none"
      /\ \A d \in Conns : conn'[d] = IF d = c THEN r ELSE conn[d]
      /\ UNCHANGED <<tickets, room, channel, sent, got, told>>
  BY <1>1 DEF Accept, HubInv, HubTyped
<1>3. HubTyped'
  BY <1>2 DEF HubInv, HubTyped
<1>4. TicketsOnce' /\ Publishers'
  BY <1>1, <1>2 DEF HubInv, TicketsOnce, Publishers, Talking
<1>5. RoomsHeld' /\ BadgeFollowsLastTab'
  BY <1>2, RoomsStand DEF Talking
<1>6. ChannelsOnce' /\ \A j, e : InChannel(j, e)' <=> InChannel(j, e)
  BY <1>2 DEF HubInv, ChannelsOnce, InChannel
<1>7. Unheard'
  BY <1>1, <1>2, <1>6 DEF HubInv, Unheard
<1>8. Heard'
  BY <1>2, NothingSent, HeardStands
<1>. QED
  BY <1>3, <1>4, <1>5, <1>6, <1>7, <1>8 DEF HubInv

LEMMA ConsumeTicketStep == ASSUME HubInv, NEW c \in Conns, ConsumeTicket(c) PROVE HubInv'
<1>1. /\ conn[c] \in ConnRecords /\ conn[c].pc = "ticket"
      /\ UNCHANGED <<room, channel, sent, got, told>>
  BY DEF ConsumeTicket, HubInv, HubTyped
<1>2. PICK r : /\ r = [conn[c] EXCEPT !.pc = "idle"] \/ r = [conn[c] EXCEPT !.pc = "gone"]
               /\ conn' = [conn EXCEPT ![c] = r]
               /\ tickets' \subseteq tickets
               /\ r.pc = "idle" => conn[c].ticket \in tickets /\ tickets' = tickets \ {conn[c].ticket}
  <2>1. conn[c] \in [pc : {"ticket", "idle", "announce", "gone"},
                     server : Servers, ticket : Tickets, closing : BOOLEAN]
    BY <1>1 DEF ConnRecords
  <2>2. CASE conn[c].ticket \in tickets /\ tickets' = tickets \ {conn[c].ticket}
             /\ conn' = [conn EXCEPT ![c].pc = "idle"]
    BY <2>1, <2>2
  <2>3. CASE tickets' \in {tickets, tickets \ {conn[c].ticket}} /\ conn' = [conn EXCEPT ![c].pc = "gone"]
    <3>. DEFINE r == [conn[c] EXCEPT !.pc = "gone"]
    <3>1. r.pc = "gone"
      BY <2>1
    <3>2. conn' = [conn EXCEPT ![c] = r] /\ tickets' \subseteq tickets
      BY <2>3
    <3>. QED
      BY <3>1, <3>2
  <2>. QED
    BY <2>2, <2>3 DEF ConsumeTicket
<1>3. /\ r \in ConnRecords /\ r.pc \in {"idle", "gone"} /\ r.server = conn[c].server
      /\ r.ticket = conn[c].ticket
  <2>1. conn[c] \in [pc : {"ticket", "idle", "announce", "gone"},
                     server : Servers, ticket : Tickets, closing : BOOLEAN]
    BY <1>1 DEF ConnRecords
  <2>2. r \in [pc : {"ticket", "idle", "announce", "gone"},
               server : Servers, ticket : Tickets, closing : BOOLEAN]
        /\ r.pc \in {"idle", "gone"} /\ r.server = conn[c].server /\ r.ticket = conn[c].ticket
    BY <1>2, <2>1
  <2>. QED
    BY <2>2 DEF ConnRecords
<1>4. /\ conn' \in [Conns -> ConnRecords]
      /\ \A d \in Conns : conn'[d] = IF d = c THEN r ELSE conn[d]
  BY <1>2, <1>3 DEF HubInv, HubTyped
<1>5. SocketMoves(c)
  BY <1>1, <1>3, <1>4 DEF SocketMoves
<1>6. HubTyped'
  BY <1>1, <1>4 DEF HubInv, HubTyped
<1>7. TicketsOnce'
  BY <1>2, <1>3, <1>4 DEF HubInv, TicketsOnce, Talking
<1>8. RoomsHeld' /\ BadgeFollowsLastTab'
  BY <1>1, <1>4, RoomsStand DEF Talking
<1>9. ChannelsOnce' /\ Unheard' /\ Publishers'
  BY <1>1, <1>3, <1>4, <1>5, NothingSent, SentEventsStand
<1>10. Heard'
  BY <1>1, <1>3, <1>4, NothingSent, HeardStands
<1>. QED
  BY <1>6, <1>7, <1>8, <1>9, <1>10 DEF HubInv

-------------------------------------------------------------------------------
\* The room.

\* What a user's badge is told: of one instance and one user, if anything changed.
BadgeTold(i, u, changed, online) ==
    /\ told' \in [Servers -> [Owners -> BOOLEAN]]
    /\ \A j \in Servers : \A w \in Owners :
          told'[j][w] = IF changed = TRUE /\ j = i /\ w = u THEN online ELSE told[j][w]

\* Who is in the rooms once c came to, or went from, the one of instance i.
RoomBecomes(i, u, c, there) ==
    /\ room' \in [Servers -> SUBSET Conns]
    /\ \A j \in Servers : room'[j] = IF j = i THEN there ELSE room[j]
    /\ \A j \in Servers : \A w \in Owners :
          Here(j, w)' = IF j = i /\ w = u
                        THEN IF c \in there THEN Here(j, w) \cup {c} ELSE Here(j, w) \ {c}
                        ELSE Here(j, w)

\* The socket goes on to announce what its command changed.
LEMMA AnnouncingMoves ==
    ASSUME HubInv, NEW c \in Conns, conn[c].pc # "none",
           NEW srv, srv = Server(c), NEW own, own = Owner(c),
           NEW changed \in BOOLEAN, NEW online \in BOOLEAN, NEW closing \in BOOLEAN,
           Announcing(c, changed, online, closing)
    PROVE  /\ SocketMoves(c) /\ conn'[c].closing = closing
           /\ conn'[c].pc \in {"announce", "gone", "idle"}
           /\ conn'[c].pc = "gone" => closing = TRUE
           /\ BadgeTold(srv, own, changed, online)
<1>. PICK r : r = [pc |-> IF changed THEN "announce" ELSE IF closing THEN "gone" ELSE "idle",
                   server |-> conn[c].server, ticket |-> conn[c].ticket, closing |-> closing]
  OBVIOUS
<1>1. conn[c].server \in Servers /\ conn[c].ticket \in Tickets /\ Server(c) \in Servers /\ Owner(c) \in Owners
  BY ConnTyping DEF HubInv
<1>2. /\ r \in ConnRecords /\ r.pc \in {"announce", "gone", "idle"} /\ r.closing = closing
      /\ r.server = conn[c].server /\ r.ticket = conn[c].ticket /\ (r.pc = "gone" => closing = TRUE)
  BY <1>1 DEF ConnRecords
<1>3. conn' = [conn EXCEPT ![c] = r]
  BY DEF Announcing
<1>4. /\ conn' \in [Conns -> ConnRecords]
      /\ \A d \in Conns : conn'[d] = IF d = c THEN r ELSE conn[d]
  BY <1>2, <1>3 DEF HubInv, HubTyped
<1>5. BadgeTold(srv, own, changed, online)
  BY <1>1 DEF Announcing, HubInv, HubTyped, BadgeTold
<1>. QED
  BY <1>2, <1>4, <1>5 DEF SocketMoves

\* Who is in the room of an instance, for a user, once c came or went.
LEMMA HereChanges ==
    ASSUME HubInv, NEW c \in Conns, SocketMoves(c), NEW there \in SUBSET Conns,
           NEW srv, srv = Server(c), NEW own, own = Owner(c),
           there \cup {c} = room[srv] \cup {c}, room' = [room EXCEPT ![srv] = there]
    PROVE  RoomBecomes(srv, own, c, there)
<1>1. /\ room' \in [Servers -> SUBSET Conns]
      /\ \A i \in Servers : room'[i] = IF i = srv THEN there ELSE room[i]
  BY DEF HubInv, HubTyped
<1>2. \A d \in Conns : Owner(d)' = Owner(d)
  BY DEF Owner, SocketMoves
<1>3. \A i \in Servers : room[i] \subseteq Conns /\ (c \in room[i] => i = Server(c))
  BY DEF HubInv, HubTyped, RoomsHeld, Server
<1>. QED
  BY <1>1, <1>2, <1>3 DEF Here, RoomBecomes

LEMMA JoinStep == ASSUME HubInv, NEW c \in Conns, Join(c) PROVE HubInv'
<1>. PICK srv : srv = Server(c)
  OBVIOUS
<1>. PICK own : own = Owner(c)
  OBVIOUS
<1>. PICK changed \in BOOLEAN : changed <=> Here(srv, own) = {}
  OBVIOUS
<1>. PICK there : there = room[srv] \cup {c}
  OBVIOUS
<1>1. /\ conn[c].pc = "idle" /\ UNCHANGED <<tickets, channel, sent, got>>
      /\ Announcing(c, changed, TRUE, FALSE)
      /\ room' = [room EXCEPT ![srv] = there]
  BY DEF Join, Announcing
<1>2. /\ SocketMoves(c) /\ ~conn'[c].closing /\ conn'[c].pc \in {"announce", "idle"}
      /\ BadgeTold(srv, own, changed, TRUE)
  <2>. PICK online \in BOOLEAN : online = TRUE
    OBVIOUS
  <2>. PICK closing \in BOOLEAN : closing = FALSE
    OBVIOUS
  <2>1. conn[c].pc # "none" /\ Announcing(c, changed, online, closing)
    BY <1>1
  <2>2. /\ SocketMoves(c) /\ conn'[c].closing = closing
        /\ conn'[c].pc \in {"announce", "gone", "idle"} /\ (conn'[c].pc = "gone" => closing = TRUE)
        /\ BadgeTold(srv, own, changed, online)
    BY <2>1, AnnouncingMoves
  <2>. QED
    BY <2>2
<1>3. srv \in Servers /\ own \in Owners /\ there \in SUBSET Conns
  BY <1>1, ConnTyping DEF HubInv, HubTyped
<1>4. RoomBecomes(srv, own, c, there) /\ c \in there
  <2>1. there \cup {c} = room[srv] \cup {c} /\ c \in there
    OBVIOUS
  <2>. QED
    BY <1>1, <1>2, <1>3, <2>1, HereChanges
<1>5. HubTyped'
  BY <1>1, <1>2, <1>4 DEF HubInv, HubTyped, SocketMoves, BadgeTold, RoomBecomes
<1>6. TicketsOnce'
  BY <1>1, <1>2, TicketsStand DEF Talking
<1>7. RoomsHeld'
  BY <1>2, <1>4 DEF HubInv, RoomsHeld, SocketMoves, Server, RoomBecomes, Talking
<1>8. BadgeFollowsLastTab'
  <2>1. ASSUME NEW i \in Servers, NEW u \in Owners PROVE told'[i][u] <=> Here(i, u)' # {}
    <3>1. told[i][u] <=> Here(i, u) # {}
      BY DEF HubInv, BadgeFollowsLastTab
    <3>2. told'[i][u] = IF changed = TRUE /\ i = srv /\ u = own THEN TRUE ELSE told[i][u]
      BY <1>2 DEF BadgeTold
    <3>3. Here(i, u)' = IF i = srv /\ u = own THEN Here(i, u) \cup {c} ELSE Here(i, u)
      BY <1>4 DEF RoomBecomes
    <3>4. CASE i = srv /\ u = own
      BY <3>1, <3>2, <3>3, <3>4
    <3>5. CASE ~(i = srv /\ u = own)
      BY <3>1, <3>2, <3>3, <3>5
    <3>. QED
      BY <3>4, <3>5
  <2>. QED
    BY <2>1 DEF BadgeFollowsLastTab
<1>9. ChannelsOnce' /\ Unheard' /\ Publishers'
  BY <1>1, <1>2, NothingSent, SentEventsStand
<1>10. Heard'
  <2>1. \A i \in Servers : room[i] \subseteq room'[i]
    BY <1>4 DEF RoomBecomes
  <2>2. \A d \in Conns : conn[d].pc # "none" =>
            conn[d].server \in Servers /\ conn'[d].pc # "none" /\ conn'[d].server = conn[d].server
    BY <1>2, ConnTyping DEF SocketMoves, HubInv
  <2>3. \A e \in DOMAIN sent : \A d \in sent'[e].to : d \in Conns /\ conn[d].pc # "none"
    BY <1>1, SentTyping DEF SentRecords, HubInv, Heard
  <2>. QED
    BY <1>1, <2>1, <2>2, <2>3, NothingSent, HeardStands
<1>. QED
  BY <1>5, <1>6, <1>7, <1>8, <1>9, <1>10 DEF HubInv

LEMMA OutStep ==
    ASSUME HubInv, NEW c \in Conns, NEW closing \in BOOLEAN, conn[c].pc \in Talking,
           Out(c, closing), UNCHANGED <<tickets, channel, got>>
    PROVE  HubInv'
<1>. PICK srv : srv = Server(c)
  OBVIOUS
<1>. PICK own : own = Owner(c)
  OBVIOUS
<1>. PICK changed \in BOOLEAN : changed <=> Here(srv, own) = {c}
  OBVIOUS
<1>. PICK there : there = room[srv] \ {c}
  OBVIOUS
<1>1. /\ sent' = Forgetting(c) /\ Announcing(c, changed, FALSE, closing)
      /\ room' = [room EXCEPT ![srv] = there]
  BY DEF Out, Announcing
<1>2. /\ SocketMoves(c) /\ conn'[c].pc \in {"announce", "gone", "idle"}
      /\ BadgeTold(srv, own, changed, FALSE)
  <2>. PICK online \in BOOLEAN : online = FALSE
    OBVIOUS
  <2>1. conn[c].pc # "none" /\ Announcing(c, changed, online, closing)
    BY <1>1 DEF Talking
  <2>2. /\ SocketMoves(c) /\ conn'[c].pc \in {"announce", "gone", "idle"}
        /\ BadgeTold(srv, own, changed, online)
    BY <2>1, AnnouncingMoves
  <2>. QED
    BY <2>2
<1>3. srv \in Servers /\ own \in Owners /\ there \in SUBSET Conns
  BY ConnTyping DEF HubInv, HubTyped, Talking
<1>4. RoomBecomes(srv, own, c, there) /\ c \notin there
  <2>1. there \cup {c} = room[srv] \cup {c} /\ c \notin there
    OBVIOUS
  <2>. QED
    BY <1>1, <1>2, <1>3, <2>1, HereChanges
<1>5. \A i \in Servers : c \notin room'[i] /\ room'[i] = room[i] \ {c}
  BY <1>4 DEF HubInv, RoomsHeld, Server, RoomBecomes
<1>6. SentKept /\ \A e \in DOMAIN sent : c \notin sent'[e].to
  <2>1. DOMAIN sent = 1 .. Len(sent) /\ Len(sent) \in Nat
    BY SentTyping DEF HubInv
  <2>2. ASSUME NEW s \in SentRecords
        PROVE  LET less == [s EXCEPT !.to = s.to \ {c}]
               IN  /\ less \in SentRecords /\ less.origin = s.origin /\ less.out = s.out
                   /\ less.lost = s.lost /\ less.to = s.to \ {c}
    BY <2>2 DEF SentRecords
  <2>3. /\ DOMAIN sent' = DOMAIN sent /\ sent' = [e \in DOMAIN sent |-> sent'[e]]
        /\ \A e \in DOMAIN sent : sent'[e] = [sent[e] EXCEPT !.to = sent[e].to \ {c}]
    BY <1>1 DEF Forgetting
  <2>4. \A e \in DOMAIN sent : sent[e] \in SentRecords
    BY SentTyping DEF HubInv
  <2>5. \A e \in DOMAIN sent :
            /\ sent'[e] \in SentRecords
            /\ sent'[e].origin = sent[e].origin /\ sent'[e].out = sent[e].out
            /\ sent'[e].lost = sent[e].lost /\ sent'[e].to = sent[e].to \ {c}
    BY <2>2, <2>3, <2>4
  <2>6. sent' \in [1 .. Len(sent) -> SentRecords]
    BY <2>1, <2>3, <2>5
  <2>7. sent' \in Seq(SentRecords)
    BY <2>1, <2>6, SeqDef
  <2>8. Len(sent') = Len(sent)
    BY <2>1, <2>3, <2>7, LenProperties
  <2>. QED
    BY <2>3, <2>5, <2>7, <2>8 DEF SentKept
<1>7. HubTyped'
  BY <1>2, <1>4, <1>6 DEF HubInv, HubTyped, SocketMoves, SentKept, BadgeTold, RoomBecomes
<1>8. TicketsOnce'
  BY <1>2, TicketsStand DEF Talking
<1>9. RoomsHeld'
  BY <1>2, <1>5 DEF HubInv, HubTyped, RoomsHeld, SocketMoves
<1>10. BadgeFollowsLastTab'
  <2>1. ASSUME NEW i \in Servers, NEW u \in Owners PROVE told'[i][u] <=> Here(i, u)' # {}
    <3>1. told[i][u] <=> Here(i, u) # {}
      BY DEF HubInv, BadgeFollowsLastTab
    <3>2. told'[i][u] = IF changed = TRUE /\ i = srv /\ u = own THEN FALSE ELSE told[i][u]
      BY <1>2 DEF BadgeTold
    <3>3. Here(i, u)' = IF i = srv /\ u = own THEN Here(i, u) \ {c} ELSE Here(i, u)
      BY <1>4 DEF RoomBecomes
    <3>4. CASE i = srv /\ u = own
      <4>1. changed <=> Here(i, u) = {c}
        BY <3>4
      <4>. QED
        BY <3>1, <3>2, <3>3, <3>4, <4>1
    <3>5. CASE ~(i = srv /\ u = own)
      BY <3>1, <3>2, <3>3, <3>5
    <3>. QED
      BY <3>4, <3>5
  <2>. QED
    BY <2>1 DEF BadgeFollowsLastTab
<1>11. ChannelsOnce' /\ Unheard' /\ Publishers'
  BY <1>2, <1>6, SentEventsStand
<1>12. Heard'
  <2>1. \A d \in Conns : conn[d].pc # "none" =>
            conn[d].server \in Servers /\ conn'[d].pc # "none" /\ conn'[d].server = conn[d].server
    BY <1>2, ConnTyping DEF SocketMoves, HubInv
  <2>2. \A e \in DOMAIN sent : \A d \in sent'[e].to : d # c /\ d \in Conns /\ conn[d].pc # "none"
    BY <1>6, SentTyping DEF SentKept, SentRecords, HubInv, Heard
  <2>3. \A e \in DOMAIN sent : \A d \in sent'[e].to : d \in room[conn[d].server] => d \in room'[conn[d].server]
    BY <1>5, <2>1, <2>2
  <2>. QED
    BY <1>6, <2>1, <2>3, HeardStands
<1>. QED
  BY <1>7, <1>8, <1>9, <1>10, <1>11, <1>12 DEF HubInv

LEMMA TypingStep == ASSUME HubInv, NEW c \in Conns, Typing(c) PROVE HubInv'
<1>. PICK r : r = [conn[c] EXCEPT !.pc = "announce"]
  OBVIOUS
<1>1. /\ conn[c] \in [pc : {"ticket", "idle", "announce", "gone"},
                      server : Servers, ticket : Tickets, closing : BOOLEAN]
      /\ conn[c].pc = "idle" /\ UNCHANGED <<tickets, room, channel, sent, got, told>>
  BY DEF Typing, HubInv, HubTyped, ConnRecords
<1>2. /\ r \in ConnRecords /\ r.pc = "announce" /\ r.server = conn[c].server
      /\ r.ticket = conn[c].ticket /\ r.closing = conn[c].closing
  BY <1>1 DEF ConnRecords
<1>3. conn' = [conn EXCEPT ![c] = r]
  BY DEF Typing
<1>4. /\ conn' \in [Conns -> ConnRecords]
      /\ \A d \in Conns : conn'[d] = IF d = c THEN r ELSE conn[d]
  BY <1>2, <1>3 DEF HubInv, HubTyped
<1>5. SocketMoves(c)
  BY <1>1, <1>2, <1>4 DEF SocketMoves
<1>6. HubTyped'
  BY <1>1, <1>4 DEF HubInv, HubTyped
<1>7. TicketsOnce'
  BY <1>1, <1>5, TicketsStand DEF Talking
<1>8. RoomsHeld' /\ BadgeFollowsLastTab'
  BY <1>1, <1>2, <1>4, RoomsStand DEF Talking
<1>9. ChannelsOnce' /\ Unheard' /\ Publishers'
  BY <1>1, <1>2, <1>4, <1>5, NothingSent, SentEventsStand
<1>10. Heard'
  BY <1>1, <1>2, <1>4, NothingSent, HeardStands
<1>. QED
  BY <1>6, <1>7, <1>8, <1>9, <1>10 DEF HubInv

-------------------------------------------------------------------------------
\* Delivery.

LEMMA AudienceInRooms ==
    ASSUME HubInv
    PROVE  /\ Audience \subseteq Conns
           /\ \A c \in Audience : conn[c].pc # "none" /\ conn[c].server \in Servers
                                  /\ c \in room[conn[c].server]
<1>1. ASSUME NEW c \in Audience
      PROVE  c \in Conns /\ conn[c].pc # "none" /\ conn[c].server \in Servers /\ c \in room[conn[c].server]
  <2>1. PICK i \in Servers : c \in room[i]
    BY DEF Audience
  <2>. QED
    BY <2>1 DEF HubInv, HubTyped, RoomsHeld, Talking
<1>. QED
  BY <1>1

LEMMA DeliveredTo ==
    ASSUME HubInv, NEW i \in Servers, NEW e \in Event
    PROVE  /\ Delivered(i, e) \in [Conns -> [Event -> Nat]]
           /\ \A c \in Conns, x \in Event :
                  Delivered(i, e)[c][x] = IF c \in room[i] /\ x = e THEN got[c][e] + 1 ELSE got[c][x]
<1>1. \A c \in Conns : got[c] \in [Event -> Nat]
  BY DEF HubInv, HubTyped
<1>2. \A c \in Conns : [got[c] EXCEPT ![e] = got[c][e] + 1] \in [Event -> Nat]
  BY <1>1
<1>3. Delivered(i, e) = [c \in Conns |-> IF c \in room[i] THEN [got[c] EXCEPT ![e] = got[c][e] + 1] ELSE got[c]]
  BY DEF Delivered
<1>. QED
  BY <1>1, <1>2, <1>3

\* An event is sent: the last, and meant for everyone in any room.
LEMMA SentOn ==
    ASSUME HubInv, NEW s \in SentRecords, Len(sent) < MaxEvents, sent' = Append(sent, s)
    PROVE  /\ sent' \in Seq(SentRecords) /\ Len(sent') <= MaxEvents
           /\ Len(sent) + 1 \in Event /\ Len(sent) + 1 \notin DOMAIN sent
           /\ DOMAIN sent' = DOMAIN sent \cup {Len(sent) + 1}
           /\ \A e \in DOMAIN sent : sent'[e] = sent[e]
           /\ sent'[Len(sent) + 1] = s
<1>1. sent \in Seq(SentRecords) /\ Len(sent) \in Nat /\ DOMAIN sent = 1 .. Len(sent)
  BY SentTyping DEF HubInv, HubTyped
<1>2. /\ sent' \in Seq(SentRecords) /\ Len(sent') = Len(sent) + 1
      /\ \A e \in 1 .. Len(sent) : sent'[e] = sent[e]
      /\ sent'[Len(sent) + 1] = s
  BY <1>1, AppendProperties
<1>3. DOMAIN sent' = 1 .. Len(sent) + 1
  BY <1>2, LenProperties
<1>. QED
  BY <1>1, <1>2, <1>3, HubAssumption DEF Event

LEMMA DeliverHereStep == ASSUME HubInv, NEW c \in Conns, DeliverHere(c) PROVE HubInv'
<1>. PICK n : n = Len(sent) + 1
  OBVIOUS
<1>. PICK s : s = [origin |-> Server(c), to |-> Audience, out |-> FALSE, lost |-> FALSE]
  OBVIOUS
<1>. PICK r : r = [pc |-> "publish", server |-> conn[c].server, ticket |-> conn[c].ticket,
                   closing |-> conn[c].closing, event |-> n]
  OBVIOUS
<1>1. /\ conn[c].pc = "announce" /\ Len(sent) < MaxEvents /\ sent' = Append(sent, s)
      /\ got' = Delivered(Server(c), n) /\ conn' = [conn EXCEPT ![c] = r]
      /\ UNCHANGED <<tickets, room, channel, told>>
  BY DEF DeliverHere
<1>2. /\ conn[c].server \in Servers /\ conn[c].ticket \in Tickets /\ conn[c].closing \in BOOLEAN
      /\ Server(c) = conn[c].server
  BY <1>1, ConnTyping DEF HubInv, Server
<1>3. s \in SentRecords /\ s.origin = conn[c].server /\ s.to = Audience /\ ~s.out
  BY <1>2, AudienceInRooms DEF SentRecords
<1>4. /\ sent' \in Seq(SentRecords) /\ Len(sent') <= MaxEvents
      /\ n \in Event /\ n \notin DOMAIN sent /\ DOMAIN sent' = DOMAIN sent \cup {n}
      /\ \A e \in DOMAIN sent : sent'[e] = sent[e]
      /\ sent'[n] = s
  BY <1>1, <1>3, SentOn
<1>5. /\ r \in ConnRecords /\ r.pc = "publish" /\ r.server = conn[c].server /\ r.ticket = conn[c].ticket
      /\ r.closing = conn[c].closing /\ r.event = n
  BY <1>2, <1>4 DEF ConnRecords
<1>6. /\ conn' \in [Conns -> ConnRecords]
      /\ \A d \in Conns : conn'[d] = IF d = c THEN r ELSE conn[d]
  BY <1>1, <1>5 DEF HubInv, HubTyped
<1>7. SocketMoves(c)
  BY <1>1, <1>5, <1>6 DEF SocketMoves
<1>8. /\ got' \in [Conns -> [Event -> Nat]]
      /\ \A d \in Conns, x \in Event :
             got'[d][x] = IF d \in room[conn[c].server] /\ x = n THEN got[d][n] + 1 ELSE got[d][x]
  BY <1>1, <1>2, <1>4, DeliveredTo
<1>9. HubTyped'
  BY <1>1, <1>4, <1>6, <1>8 DEF HubInv, HubTyped
<1>10. TicketsOnce'
  BY <1>1, <1>7, TicketsStand DEF Talking
<1>11. RoomsHeld' /\ BadgeFollowsLastTab'
  BY <1>1, <1>5, <1>6, RoomsStand DEF Talking
<1>12. Publishers'
  BY <1>3, <1>4, <1>5, <1>6 DEF HubInv, Publishers
<1>13. /\ ChannelsOnce'
       /\ \A i \in Servers : \A e : InChannel(i, e)' <=> InChannel(i, e)
       /\ \A i \in Servers : ~InChannel(i, n)
  BY <1>1, <1>4 DEF HubInv, ChannelsOnce, InChannel
<1>14. \A d \in Conns : got[d][n] = 0
  BY <1>4 DEF HubInv, Unheard
<1>15. \A d \in Conns : /\ conn'[d].pc = "none" <=> conn[d].pc = "none"
                        /\ conn[d].pc # "none" => conn[d].server \in Servers /\ conn'[d].server = conn[d].server
  BY <1>1, <1>5, <1>6, ConnTyping DEF HubInv
<1>16. \A d \in room[conn[c].server] : conn[d].pc # "none" /\ conn[d].server = conn[c].server
  BY <1>2 DEF HubInv, RoomsHeld, Talking
<1>17. Unheard'
  <2>1. ASSUME NEW d \in Conns
        PROVE  /\ got'[d][n] = IF d \in room[conn[c].server] THEN 1 ELSE 0
               /\ \A x \in Event : x # n => got'[d][x] = got[d][x]
    <3>1. n \in Event /\ got[d][n] = 0
      BY <1>4, <1>14
    <3>2. \A x \in Event :
              got'[d][x] = IF d \in room[conn[c].server] /\ x = n THEN got[d][n] + 1 ELSE got[d][x]
      BY <1>8
    <3>. QED
      BY <3>1, <3>2
  <2>2. ASSUME NEW d \in Conns
        PROVE  /\ got'[d][n] <= 1
               /\ conn'[d].pc = "none" => got'[d][n] = 0
               /\ conn'[d].pc # "none" /\ sent'[n].origin # conn'[d].server => got'[d][n] = 0
    BY <1>3, <1>4, <1>15, <1>16, <2>1
  <2>3. ASSUME NEW d \in Conns, NEW x \in Event, x # n
        PROVE  /\ got'[d][x] <= 1
               /\ x \notin DOMAIN sent' \/ conn'[d].pc = "none" => got'[d][x] = 0
               /\ /\ x \in DOMAIN sent' /\ conn'[d].pc # "none" /\ sent'[x].origin # conn'[d].server
                  /\ ~sent'[x].out \/ InChannel(conn[d].server, x)'
                  => got'[d][x] = 0
    BY <1>4, <1>13, <1>15, <2>1, <2>3 DEF HubInv, Unheard
  <2>. QED
    BY <1>4, <2>2, <2>3 DEF Unheard
<1>18. Heard'
  <2>1. ASSUME NEW d \in Audience
        PROVE  /\ conn'[d].pc # "none" /\ d \in room'[conn'[d].server]
               /\ got'[d][n] = 1 \/ (sent'[n].origin # conn'[d].server /\ ~sent'[n].out)
    <3>1. d \in Conns /\ conn[d].pc # "none" /\ conn[d].server \in Servers /\ d \in room[conn[d].server]
      BY AudienceInRooms
    <3>2. CASE conn[d].server = conn[c].server
      <4>1. n \in Event /\ got[d][n] = 0 /\ d \in room[conn[c].server]
        BY <1>4, <1>14, <3>1, <3>2
      <4>2. got'[d][n] = got[d][n] + 1
        BY <1>8, <3>1, <4>1
      <4>. QED
        BY <1>1, <1>15, <3>1, <4>1, <4>2
    <3>3. CASE conn[d].server # conn[c].server
      BY <1>1, <1>3, <1>4, <1>15, <3>1, <3>3
    <3>. QED
      BY <3>2, <3>3
  <2>2. ASSUME NEW e \in DOMAIN sent, NEW d \in sent[e].to
        PROVE  /\ conn'[d].pc # "none" /\ d \in room'[conn'[d].server]
               /\ \/ got'[d][e] = 1
                  \/ /\ sent'[e].origin # conn'[d].server
                     /\ ~sent'[e].out \/ sent'[e].lost \/ InChannel(conn[d].server, e)'
    <3>1. d \in Conns /\ e \in Event /\ e # n
      BY <1>4, SentTyping DEF SentRecords, HubInv
    <3>2. got'[d][e] = got[d][e]
      BY <1>8, <3>1
    <3>. QED
      BY <1>1, <1>4, <1>13, <1>15, <3>1, <3>2 DEF HubInv, Heard
  <2>. QED
    BY <1>3, <1>4, <2>1, <2>2 DEF Heard
<1>. QED
  BY <1>9, <1>10, <1>11, <1>12, <1>13, <1>17, <1>18 DEF HubInv

\* An event goes out: to all the channels, where it was in none.
LEMMA ChannelsTake ==
    ASSUME HubInv, NEW e \in Event, \A i \in Servers : ~InChannel(i, e),
           channel' = [i \in Servers |-> Append(channel[i], e)]
    PROVE  /\ channel' \in [Servers -> Seq(Nat)]
           /\ \A i \in Servers : \A n, m \in DOMAIN channel'[i] : n # m => channel'[i][n] # channel'[i][m]
           /\ \A i \in Servers : \A x : InChannel(i, x)' <=> InChannel(i, x) \/ x = e
<1>1. ASSUME NEW i \in Servers
      PROVE  /\ channel'[i] \in Seq(Nat)
             /\ DOMAIN channel'[i] = DOMAIN channel[i] \cup {Len(channel[i]) + 1}
             /\ Len(channel[i]) + 1 \notin DOMAIN channel[i]
             /\ \A n \in DOMAIN channel[i] : channel'[i][n] = channel[i][n]
             /\ channel'[i][Len(channel[i]) + 1] = e
  <2>1. channel'[i] = Append(channel[i], e) /\ channel[i] \in Seq(Nat) /\ e \in Nat
    BY DEF HubInv, HubTyped, Event
  <2>2. /\ channel'[i] \in Seq(Nat) /\ Len(channel'[i]) = Len(channel[i]) + 1
        /\ \A n \in 1 .. Len(channel[i]) : channel'[i][n] = channel[i][n]
        /\ channel'[i][Len(channel[i]) + 1] = e
    BY <2>1, AppendProperties
  <2>3. /\ DOMAIN channel'[i] = 1 .. Len(channel'[i])
        /\ DOMAIN channel[i] = 1 .. Len(channel[i]) /\ Len(channel[i]) \in Nat
    BY <2>1, <2>2, LenProperties
  <2>. QED
    BY <2>2, <2>3
<1>2. channel' \in [Servers -> Seq(Nat)]
  BY <1>1
<1>3. ASSUME NEW i \in Servers, NEW n \in DOMAIN channel'[i], NEW m \in DOMAIN channel'[i], n # m
      PROVE  channel'[i][n] # channel'[i][m]
  <2>1. \A k \in DOMAIN channel[i] : channel[i][k] # e
    BY DEF InChannel
  <2>2. n \in DOMAIN channel[i] /\ m \in DOMAIN channel[i] => channel[i][n] # channel[i][m]
    BY <1>3 DEF HubInv, ChannelsOnce
  <2>. QED
    BY <1>1, <1>3, <2>1, <2>2
<1>4. ASSUME NEW i \in Servers, NEW x PROVE InChannel(i, x)' <=> InChannel(i, x) \/ x = e
  <2>1. (\E n \in DOMAIN channel'[i] : channel'[i][n] = x) <=>
        x = e \/ \E n \in DOMAIN channel[i] : channel[i][n] = x
    BY <1>1
  <2>. QED
    BY <2>1 DEF InChannel
<1>. QED
  BY <1>2, <1>3, <1>4

LEMMA PublishControlStep == ASSUME HubInv, NEW c \in Conns, PublishControl(c) PROVE HubInv'
<1>. PICK p : p = conn[c].event
  OBVIOUS
<1>. PICK r : r = [pc |-> IF conn[c].closing THEN "gone" ELSE "idle", server |-> conn[c].server,
                   ticket |-> conn[c].ticket, closing |-> conn[c].closing]
  OBVIOUS
<1>1. /\ conn[c].pc = "publish" /\ Publishing(p) /\ conn' = [conn EXCEPT ![c] = r]
      /\ UNCHANGED <<tickets, room, got, told>>
  BY DEF PublishControl
<1>2. /\ conn[c].server \in Servers /\ conn[c].ticket \in Tickets /\ conn[c].closing \in BOOLEAN
      /\ p \in Event /\ p \in DOMAIN sent /\ ~sent[p].out
  BY <1>1, ConnTyping DEF HubInv, Publishers
<1>3. /\ r \in ConnRecords /\ r.pc \in {"gone", "idle"} /\ r.server = conn[c].server
      /\ r.ticket = conn[c].ticket /\ r.closing = conn[c].closing
      /\ r.pc = "gone" => conn[c].closing
  BY <1>2 DEF ConnRecords
<1>4. /\ conn' \in [Conns -> ConnRecords]
      /\ \A d \in Conns : conn'[d] = IF d = c THEN r ELSE conn[d]
  BY <1>1, <1>3 DEF HubInv, HubTyped
<1>5. SocketMoves(c)
  BY <1>1, <1>3, <1>4 DEF SocketMoves
<1>6. /\ sent' \in Seq(SentRecords) /\ Len(sent') = Len(sent) /\ DOMAIN sent' = DOMAIN sent
      /\ \A e \in DOMAIN sent : e # p => sent'[e] = sent[e]
      /\ sent'[p].out /\ sent'[p].origin = sent[p].origin /\ sent'[p].to = sent[p].to
      /\ sent'[p].lost \/ channel' = [i \in Servers |-> Append(channel[i], p)]
      /\ channel' = channel \/ channel' = [i \in Servers |-> Append(channel[i], p)]
  <2>1. sent[p] \in SentRecords /\ sent \in Seq(SentRecords) /\ DOMAIN sent = 1 .. Len(sent)
    BY <1>2, SentTyping DEF HubInv, HubTyped
  <2>2. ASSUME NEW s \in SentRecords, sent' = [sent EXCEPT ![p] = s]
        PROVE  /\ sent' \in Seq(SentRecords) /\ Len(sent') = Len(sent) /\ DOMAIN sent' = DOMAIN sent
               /\ \A e \in DOMAIN sent : e # p => sent'[e] = sent[e]
               /\ sent'[p] = s
    BY <1>2, <2>1, <2>2, ExceptSeq
  <2>3. CASE /\ channel' = [i \in Servers |-> Append(channel[i], p)]
             /\ sent' = [sent EXCEPT ![p].out = TRUE]
    <3>. PICK s : s = [sent[p] EXCEPT !.out = TRUE]
      OBVIOUS
    <3>1. s \in SentRecords /\ s.out /\ s.origin = sent[p].origin /\ s.to = sent[p].to
      BY <2>1 DEF SentRecords
    <3>2. sent' = [sent EXCEPT ![p] = s]
      BY <2>3
    <3>. QED
      BY <2>2, <2>3, <3>1, <3>2
  <2>4. CASE /\ channel' = channel
             /\ sent' = [sent EXCEPT ![p].out = TRUE, ![p].lost = TRUE]
    <3>. PICK s : s = [sent[p] EXCEPT !.out = TRUE, !.lost = TRUE]
      OBVIOUS
    <3>1. s \in SentRecords /\ s.out /\ s.lost /\ s.origin = sent[p].origin /\ s.to = sent[p].to
      BY <2>1 DEF SentRecords
    <3>2. sent' = [sent EXCEPT ![p] = s]
      BY <1>2, <2>1, <2>4
    <3>. QED
      BY <2>2, <2>4, <3>1, <3>2
  <2>. QED
    BY <1>1, <2>3, <2>4 DEF Publishing
<1>7. \A i \in Servers : ~InChannel(i, p)
  BY <1>2 DEF HubInv, ChannelsOnce, InChannel
<1>8. /\ channel' \in [Servers -> Seq(Nat)]
      /\ \A i \in Servers : \A n, m \in DOMAIN channel'[i] : n # m => channel'[i][n] # channel'[i][m]
      /\ \A i \in Servers : \A x : InChannel(i, x) => InChannel(i, x)'
      /\ \A i \in Servers : \A x : InChannel(i, x)' => InChannel(i, x) \/ x = p
      /\ sent'[p].lost \/ \A i \in Servers : InChannel(i, p)'
  <2>1. CASE channel' = [i \in Servers |-> Append(channel[i], p)]
    <3>1. /\ channel' \in [Servers -> Seq(Nat)]
          /\ \A i \in Servers : \A n, m \in DOMAIN channel'[i] : n # m => channel'[i][n] # channel'[i][m]
          /\ \A i \in Servers : \A x : InChannel(i, x)' <=> InChannel(i, x) \/ x = p
      BY <1>2, <1>7, <2>1, ChannelsTake
    <3>. QED
      BY <3>1
  <2>2. CASE channel' = channel /\ sent'[p].lost
    <3>1. \A i \in Servers : \A x : InChannel(i, x)' <=> InChannel(i, x)
      BY <2>2 DEF InChannel
    <3>2. channel' \in [Servers -> Seq(Nat)]
      BY <2>2 DEF HubInv, HubTyped
    <3>3. \A i \in Servers : \A n, m \in DOMAIN channel'[i] : n # m => channel'[i][n] # channel'[i][m]
      BY <2>2 DEF HubInv, ChannelsOnce
    <3>. QED
      BY <2>2, <3>1, <3>2, <3>3
  <2>. QED
    BY <1>6, <2>1, <2>2
<1>9. HubTyped'
  BY <1>1, <1>4, <1>6, <1>8 DEF HubInv, HubTyped
<1>10. TicketsOnce'
  BY <1>1, <1>5, TicketsStand DEF Talking
<1>11. RoomsHeld' /\ BadgeFollowsLastTab'
  BY <1>1, <1>3, <1>4, RoomsStand DEF Talking
<1>12. Publishers'
  BY <1>1, <1>3, <1>4, <1>6 DEF HubInv, Publishers
<1>13. ChannelsOnce'
  <2>1. \A i \in Servers : \A n \in DOMAIN channel[i] : channel[i][n] \in DOMAIN sent /\ sent[channel[i][n]].out
    BY DEF HubInv, ChannelsOnce
  <2>2. \A i \in Servers : \A x : InChannel(i, x) => x \in DOMAIN sent /\ sent[x].out
    BY <2>1 DEF InChannel
  <2>3. \A i \in Servers : \A x : InChannel(i, x)' => x \in DOMAIN sent' /\ sent'[x].out
    BY <1>2, <1>6, <1>8, <2>2
  <2>4. (\A i \in Servers : \A n \in DOMAIN channel[i] : InChannel(i, channel[i][n]))'
    BY DEF InChannel
  <2>. QED
    BY <1>8, <2>3, <2>4 DEF ChannelsOnce
<1>14. \A d \in Conns : /\ conn'[d].pc = "none" <=> conn[d].pc = "none"
                        /\ conn[d].pc # "none" => conn[d].server \in Servers /\ conn'[d].server = conn[d].server
  BY <1>1, <1>3, <1>4, ConnTyping DEF HubInv
<1>15. Unheard'
  <2>1. ASSUME NEW d \in Conns, NEW e \in Event
        PROVE  /\ got'[d][e] <= 1
               /\ e \notin DOMAIN sent' \/ conn'[d].pc = "none" => got'[d][e] = 0
    BY <1>1, <1>6, <1>14 DEF HubInv, Unheard
  <2>2. ASSUME NEW d \in Conns, NEW e \in Event, e \in DOMAIN sent', conn'[d].pc # "none",
               sent'[e].origin # conn'[d].server, ~sent'[e].out \/ InChannel(conn[d].server, e)'
        PROVE  got'[d][e] = 0
    <3>1. conn[d].pc # "none" /\ conn[d].server \in Servers /\ conn'[d].server = conn[d].server
      BY <1>14, <2>2
    <3>2. e \in DOMAIN sent /\ sent[e].origin # conn[d].server
      BY <1>6, <2>2, <3>1
    <3>3. ~sent[e].out \/ InChannel(conn[d].server, e)
      BY <1>2, <1>6, <1>8, <2>2, <3>1, <3>2
    <3>. QED
      BY <1>1, <3>1, <3>2, <3>3 DEF HubInv, Unheard
  <2>. QED
    BY <2>1, <2>2 DEF Unheard
<1>16. Heard'
  <2>1. ASSUME NEW e \in DOMAIN sent, NEW d \in sent'[e].to
        PROVE  /\ conn'[d].pc # "none" /\ d \in room'[conn'[d].server]
               /\ \/ got'[d][e] = 1
                  \/ /\ sent'[e].origin # conn'[d].server
                     /\ ~sent'[e].out \/ sent'[e].lost \/ InChannel(conn[d].server, e)'
    <3>1. d \in sent[e].to /\ sent'[e].origin = sent[e].origin
      BY <1>6, <2>1
    <3>2. d \in Conns
      BY <3>1, SentTyping DEF SentRecords, HubInv
    <3>3. /\ conn[d].pc # "none" /\ d \in room[conn[d].server]
          /\ \/ got[d][e] = 1
             \/ /\ sent[e].origin # conn[d].server
                /\ ~sent[e].out \/ sent[e].lost \/ InChannel(conn[d].server, e)
      BY <3>1 DEF HubInv, Heard
    <3>4. conn[d].server \in Servers /\ conn'[d].server = conn[d].server /\ conn'[d].pc # "none"
      BY <1>14, <3>2, <3>3
    <3>5. CASE e = p
      BY <1>1, <1>8, <3>1, <3>3, <3>4, <3>5
    <3>6. CASE e # p
      BY <1>1, <1>6, <1>8, <3>1, <3>3, <3>4, <3>6
    <3>. QED
      BY <3>5, <3>6
  <2>. QED
    BY <1>6, <2>1 DEF Heard
<1>. QED
  BY <1>9, <1>10, <1>11, <1>12, <1>13, <1>15, <1>16 DEF HubInv

LEMMA PublishMessageStep == ASSUME HubInv, PublishMessage PROVE HubInv'
<1>. PICK n : n = Len(sent) + 1
  OBVIOUS
<1>. PICK s : s = [origin |-> App, to |-> Audience, out |-> TRUE, lost |-> FALSE]
  OBVIOUS
<1>1. /\ Len(sent) < MaxEvents /\ sent' = Append(sent, s)
      /\ channel' = [i \in Servers |-> Append(channel[i], n)]
      /\ UNCHANGED <<tickets, conn, room, got, told>>
  BY DEF PublishMessage
<1>2. s \in SentRecords /\ s.origin = App /\ s.to = Audience /\ s.out
  BY AudienceInRooms DEF SentRecords
<1>3. /\ sent' \in Seq(SentRecords) /\ Len(sent') <= MaxEvents
      /\ n \in Event /\ n \notin DOMAIN sent /\ DOMAIN sent' = DOMAIN sent \cup {n}
      /\ \A e \in DOMAIN sent : sent'[e] = sent[e]
      /\ sent'[n] = s
  BY <1>1, <1>2, SentOn
<1>4. /\ channel' \in [Servers -> Seq(Nat)]
      /\ \A i \in Servers : \A k, m \in DOMAIN channel'[i] : k # m => channel'[i][k] # channel'[i][m]
      /\ \A i \in Servers : \A x : InChannel(i, x)' <=> InChannel(i, x) \/ x = n
  <2>1. \A i \in Servers : ~InChannel(i, n)
    BY <1>3 DEF HubInv, ChannelsOnce, InChannel
  <2>. QED
    BY <1>1, <1>3, <2>1, ChannelsTake
<1>5. HubTyped'
  BY <1>1, <1>3, <1>4 DEF HubInv, HubTyped
<1>6. TicketsOnce'
  BY <1>1 DEF HubInv, TicketsOnce
<1>7. RoomsHeld' /\ BadgeFollowsLastTab'
  BY <1>1, RoomsStand
<1>8. Publishers'
  BY <1>1, <1>3 DEF HubInv, Publishers
<1>9. ChannelsOnce'
  <2>1. \A i \in Servers : \A x : InChannel(i, x) => x \in DOMAIN sent /\ sent[x].out
    BY DEF HubInv, ChannelsOnce, InChannel
  <2>2. \A i \in Servers : \A x : InChannel(i, x)' => x \in DOMAIN sent' /\ sent'[x].out
    BY <1>2, <1>3, <1>4, <2>1
  <2>3. (\A i \in Servers : \A k \in DOMAIN channel[i] : InChannel(i, channel[i][k]))'
    BY DEF InChannel
  <2>. QED
    BY <1>4, <2>2, <2>3 DEF ChannelsOnce
<1>10. \A d \in Conns : conn[d].pc # "none" => conn[d].server \in Servers
  BY ConnTyping DEF HubInv
<1>11. Unheard'
  <2>1. \A d \in Conns : got[d][n] = 0
    BY <1>3 DEF HubInv, Unheard
  <2>2. ASSUME NEW d \in Conns, NEW e \in Event, e # n
        PROVE  /\ got'[d][e] <= 1
               /\ e \notin DOMAIN sent' \/ conn'[d].pc = "none" => got'[d][e] = 0
               /\ /\ e \in DOMAIN sent' /\ conn'[d].pc # "none" /\ sent'[e].origin # conn'[d].server
                  /\ ~sent'[e].out \/ InChannel(conn[d].server, e)'
                  => got'[d][e] = 0
    BY <1>1, <1>3, <1>4, <1>10, <2>2 DEF HubInv, Unheard
  <2>3. \A d \in Conns : got'[d][n] <= 1 /\ got'[d][n] = 0
    BY <1>1, <2>1
  <2>. QED
    BY <2>2, <2>3 DEF Unheard
<1>12. Heard'
  <2>1. ASSUME NEW d \in Audience
        PROVE  /\ conn'[d].pc # "none" /\ d \in room'[conn'[d].server]
               /\ sent'[n].origin # conn'[d].server /\ InChannel(conn[d].server, n)'
    BY <1>1, <1>2, <1>3, <1>4, AudienceInRooms, HubAssumption
  <2>2. ASSUME NEW e \in DOMAIN sent, NEW d \in sent[e].to
        PROVE  /\ conn'[d].pc # "none" /\ d \in room'[conn'[d].server]
               /\ \/ got'[d][e] = 1
                  \/ /\ sent'[e].origin # conn'[d].server
                     /\ ~sent'[e].out \/ sent'[e].lost \/ InChannel(conn[d].server, e)'
    <3>1. d \in Conns
      BY SentTyping DEF SentRecords, HubInv
    <3>. QED
      BY <1>1, <1>3, <1>4, <1>10, <3>1 DEF HubInv, Heard
  <2>. QED
    BY <1>2, <1>3, <2>1, <2>2 DEF Heard
<1>. QED
  BY <1>5, <1>6, <1>7, <1>8, <1>9, <1>11, <1>12 DEF HubInv

LEMMA PumpStep == ASSUME HubInv, NEW i \in Servers, Pump(i) PROVE HubInv'
<1>. PICK h : h = Head(channel[i])
  OBVIOUS
<1>1. /\ channel[i] # <<>> /\ channel' = [channel EXCEPT ![i] = Tail(channel[i])]
      /\ got' = IF sent[h].origin = i THEN got ELSE Delivered(i, h)
      /\ UNCHANGED <<tickets, conn, room, sent, told>>
  BY DEF Pump
<1>2. channel[i] \in Seq(Nat)
  BY DEF HubInv, HubTyped
<1>3. /\ channel' \in [Servers -> Seq(Nat)]
      /\ \A j \in Servers : channel'[j] = IF j = i THEN Tail(channel[i]) ELSE channel[j]
  BY <1>1, <1>2, HeadTailProperties DEF HubInv, HubTyped
<1>4. /\ 1 \in DOMAIN channel[i] /\ channel[i][1] = h
      /\ \A n \in DOMAIN Tail(channel[i]) : n + 1 \in DOMAIN channel[i] /\ n + 1 # 1
                                            /\ Tail(channel[i])[n] = channel[i][n + 1]
      /\ \A n \in DOMAIN channel[i] : n # 1 =>
            n - 1 \in DOMAIN Tail(channel[i]) /\ Tail(channel[i])[n - 1] = channel[i][n]
      /\ \A n \in DOMAIN channel[i] : n \in Nat
  <2>1. /\ Tail(channel[i]) \in Seq(Nat) /\ Len(Tail(channel[i])) = Len(channel[i]) - 1
        /\ \A n \in 1 .. Len(Tail(channel[i])) : Tail(channel[i])[n] = channel[i][n + 1]
    BY <1>1, <1>2, HeadTailProperties
  <2>2. /\ DOMAIN channel[i] = 1 .. Len(channel[i]) /\ Len(channel[i]) \in Nat
        /\ DOMAIN Tail(channel[i]) = 1 .. Len(Tail(channel[i]))
        /\ Len(Tail(channel[i])) \in Nat
    BY <1>2, <2>1, LenProperties
  <2>3. Len(channel[i]) # 0
    BY <1>1, <1>2, EmptySeq
  <2>4. channel[i][1] = h /\ 1 \in DOMAIN channel[i]
    BY <1>1, <1>2, <2>2, <2>3
  <2>5. ASSUME NEW n \in DOMAIN Tail(channel[i])
        PROVE  n + 1 \in DOMAIN channel[i] /\ n + 1 # 1 /\ Tail(channel[i])[n] = channel[i][n + 1]
    BY <2>1, <2>2
  <2>6. ASSUME NEW n \in DOMAIN channel[i], n # 1
        PROVE  n - 1 \in DOMAIN Tail(channel[i]) /\ Tail(channel[i])[n - 1] = channel[i][n]
    <3>1. n \in Nat /\ n - 1 \in 1 .. Len(Tail(channel[i])) /\ (n - 1) + 1 = n
      BY <2>1, <2>2, <2>6
    <3>2. Tail(channel[i])[n - 1] = channel[i][(n - 1) + 1]
      BY <2>1, <3>1
    <3>. QED
      BY <2>2, <3>1, <3>2
  <2>7. \A n \in DOMAIN channel[i] : n \in Nat
    BY <2>2
  <2>. QED
    BY <2>4, <2>5, <2>6, <2>7
<1>5. /\ h \in DOMAIN sent /\ sent[h].out /\ h \in Event /\ InChannel(i, h)
  BY <1>4, SentTyping DEF HubInv, ChannelsOnce, InChannel
<1>6. ~InChannel(i, h)'
  <2>1. \A n \in DOMAIN Tail(channel[i]) : Tail(channel[i])[n] # h
    BY <1>4 DEF HubInv, ChannelsOnce
  <2>. QED
    BY <1>3, <2>1 DEF InChannel
<1>7. \A j \in Servers : \A x : (j # i \/ x # h) => (InChannel(j, x)' <=> InChannel(j, x))
  <2>1. ASSUME NEW x, x # h
        PROVE  (\E n \in DOMAIN Tail(channel[i]) : Tail(channel[i])[n] = x) <=>
               \E n \in DOMAIN channel[i] : channel[i][n] = x
    BY <1>4, <2>1
  <2>. QED
    BY <1>3, <2>1 DEF InChannel
<1>8. /\ got' \in [Conns -> [Event -> Nat]]
      /\ \A d \in Conns, x \in Event :
             got'[d][x] = IF sent[h].origin # i /\ d \in room[i] /\ x = h THEN got[d][h] + 1 ELSE got[d][x]
  <2>1. CASE sent[h].origin = i
    BY <1>1, <2>1 DEF HubInv, HubTyped
  <2>2. CASE sent[h].origin # i
    <3>1. got' = Delivered(i, h)
      BY <1>1, <2>2
    <3>2. /\ Delivered(i, h) \in [Conns -> [Event -> Nat]]
          /\ \A d \in Conns, x \in Event :
                Delivered(i, h)[d][x] = IF d \in room[i] /\ x = h THEN got[d][h] + 1 ELSE got[d][x]
      BY <1>5, DeliveredTo
    <3>. QED
      BY <2>2, <3>1, <3>2
  <2>. QED
    BY <2>1, <2>2
<1>9. HubTyped'
  BY <1>1, <1>3, <1>8 DEF HubInv, HubTyped
<1>10. TicketsOnce' /\ Publishers'
  BY <1>1 DEF HubInv, TicketsOnce, Publishers
<1>11. RoomsHeld' /\ BadgeFollowsLastTab'
  BY <1>1, RoomsStand
<1>12. ChannelsOnce'
  <2>1. \A n \in DOMAIN Tail(channel[i]) :
            Tail(channel[i])[n] \in DOMAIN sent /\ sent[Tail(channel[i])[n]].out
    BY <1>4 DEF HubInv, ChannelsOnce
  <2>2. ASSUME NEW n \in DOMAIN Tail(channel[i]), NEW m \in DOMAIN Tail(channel[i]), n # m
        PROVE  Tail(channel[i])[n] # Tail(channel[i])[m]
    <3>1. n \in Nat /\ m \in Nat
      <4>1. Tail(channel[i]) \in Seq(Nat)
        BY <1>1, <1>2, HeadTailProperties
      <4>. QED
        BY <4>1, LenProperties
    <3>2. n + 1 # m + 1
      BY <2>2, <3>1
    <3>. QED
      BY <1>4, <3>2 DEF HubInv, ChannelsOnce
  <2>. QED
    BY <1>1, <1>3, <2>1, <2>2 DEF HubInv, ChannelsOnce
<1>13. \A d \in Conns : conn[d].pc # "none" => conn[d].server \in Servers
  BY ConnTyping DEF HubInv
<1>14. \A d \in room[i] : d \in Conns /\ conn[d].pc # "none" /\ conn[d].server = i
  BY DEF HubInv, HubTyped, RoomsHeld, Talking
<1>15. sent[h].origin # i => \A d \in room[i] : got[d][h] = 0
  BY <1>5, <1>14 DEF HubInv, Unheard
<1>16. Unheard'
  <2>1. ASSUME NEW d \in Conns, NEW e \in Event
        PROVE  /\ got'[d][e] <= 1
               /\ e \notin DOMAIN sent' \/ conn'[d].pc = "none" => got'[d][e] = 0
    <3>1. got[d][e] <= 1 /\ (e \notin DOMAIN sent \/ conn[d].pc = "none" => got[d][e] = 0)
      BY DEF HubInv, Unheard
    <3>2. CASE sent[h].origin # i /\ d \in room[i] /\ e = h
      <4>1. got'[d][e] = 0 + 1
        BY <1>8, <1>15, <3>2
      <4>. QED
        BY <1>1, <1>5, <1>14, <3>2, <4>1
    <3>3. CASE ~(sent[h].origin # i /\ d \in room[i] /\ e = h)
      BY <1>1, <1>8, <3>1, <3>3
    <3>. QED
      BY <3>2, <3>3
  <2>2. ASSUME NEW d \in Conns, NEW e \in Event, e \in DOMAIN sent', conn'[d].pc # "none",
               sent'[e].origin # conn'[d].server, ~sent'[e].out \/ InChannel(conn[d].server, e)'
        PROVE  got'[d][e] = 0
    <3>1. conn[d].server \in Servers /\ conn'[d] = conn[d] /\ sent' = sent
      BY <1>1, <1>13, <2>2
    <3>2. ~(d \in room[i] /\ e = h)
      BY <1>5, <1>6, <1>14, <2>2, <3>1
    <3>3. got'[d][e] = got[d][e]
      BY <1>8, <3>2
    <3>4. ~sent[e].out \/ InChannel(conn[d].server, e)
      BY <1>6, <1>7, <2>2, <3>1
    <3>. QED
      BY <2>2, <3>1, <3>3, <3>4 DEF HubInv, Unheard
  <2>. QED
    BY <2>1, <2>2 DEF Unheard
<1>17. Heard'
  <2>1. ASSUME NEW e \in DOMAIN sent, NEW d \in sent[e].to
        PROVE  /\ conn[d].pc # "none" /\ d \in room[conn[d].server]
               /\ \/ got'[d][e] = 1
                  \/ /\ sent[e].origin # conn[d].server
                     /\ ~sent[e].out \/ sent[e].lost \/ InChannel(conn[d].server, e)'
    <3>1. d \in Conns /\ e \in Event
      BY SentTyping DEF SentRecords, HubInv
    <3>2. /\ conn[d].pc # "none" /\ d \in room[conn[d].server]
          /\ \/ got[d][e] = 1
             \/ /\ sent[e].origin # conn[d].server
                /\ ~sent[e].out \/ sent[e].lost \/ InChannel(conn[d].server, e)
      BY DEF HubInv, Heard
    <3>3. conn[d].server \in Servers
      BY <1>13, <3>1, <3>2
    <3>4. CASE conn[d].server = i /\ e = h /\ sent[h].origin # i
      <4>1. d \in room[i] /\ got[d][h] = 0
        BY <1>15, <3>2, <3>4
      <4>2. got'[d][e] = 0 + 1
        BY <1>8, <3>1, <3>4, <4>1
      <4>. QED
        BY <3>2, <4>2
    <3>5. CASE ~(conn[d].server = i /\ e = h /\ sent[h].origin # i)
      <4>1. got'[d][e] = got[d][e]
        BY <1>8, <1>14, <3>1, <3>5
      <4>2. sent[e].origin # conn[d].server => (InChannel(conn[d].server, e)' <=> InChannel(conn[d].server, e))
        <5>1. conn' = conn
          BY <1>1
        <5>2. sent[e].origin # conn[d].server => conn[d].server # i \/ e # h
          BY <3>5
        <5>3. InChannel(conn[d].server, e)' <=> \E k \in DOMAIN channel'[conn[d].server] :
                                                    channel'[conn[d].server][k] = e
          BY <5>1 DEF InChannel
        <5>4. \A j \in Servers : InChannel(j, e)' <=> \E k \in DOMAIN channel'[j] : channel'[j][k] = e
          BY DEF InChannel
        <5>. QED
          BY <1>7, <3>3, <5>2, <5>3, <5>4
      <4>. QED
        BY <3>2, <4>1, <4>2
    <3>. QED
      BY <3>4, <3>5
  <2>. QED
    BY <1>1, <2>1 DEF Heard
<1>. QED
  BY <1>9, <1>10, <1>11, <1>12, <1>16, <1>17 DEF HubInv

LEMMA HubStep == HubInv /\ [HubNext]_hubVars => HubInv'
<1>. SUFFICES ASSUME HubInv, [HubNext]_hubVars PROVE HubInv'
  OBVIOUS
<1>1. ASSUME NEW c \in Conns, NEW i \in Servers, NEW t \in Tickets, Accept(c, i, t) PROVE HubInv'
  BY <1>1, AcceptStep
<1>2. ASSUME NEW c \in Conns, ConsumeTicket(c) \/ Join(c) \/ Typing(c) PROVE HubInv'
  BY <1>2, ConsumeTicketStep, JoinStep, TypingStep
<1>3. ASSUME NEW c \in Conns, Leave(c) PROVE HubInv'
  BY <1>3, OutStep DEF Leave, Talking
<1>4. ASSUME NEW c \in Conns, Drop(c) PROVE HubInv'
  BY <1>4, OutStep DEF Drop, Talking
<1>5. ASSUME NEW c \in Conns, DeliverHere(c) \/ PublishControl(c) PROVE HubInv'
  BY <1>5, DeliverHereStep, PublishControlStep
<1>6. ASSUME PublishMessage \/ \E i \in Servers : Pump(i) PROVE HubInv'
  BY <1>6, PublishMessageStep, PumpStep
<1>7. CASE UNCHANGED hubVars
  <2>1. UNCHANGED <<tickets, conn, room, channel, sent, got, told>>
    BY <1>7 DEF hubVars
  <2>2. HubTyped' /\ TicketsOnce' /\ Publishers'
    BY <2>1 DEF HubInv, HubTyped, TicketsOnce, Publishers
  <2>3. RoomsHeld' /\ BadgeFollowsLastTab'
    BY <2>1, RoomsStand
  <2>4. ChannelsOnce' /\ Unheard' /\ Heard'
    BY <2>1 DEF HubInv, ChannelsOnce, Unheard, Heard, InChannel
  <2>. QED
    BY <2>2, <2>3, <2>4 DEF HubInv
<1>. QED
  BY <1>1, <1>2, <1>3, <1>4, <1>5, <1>6, <1>7 DEF HubNext

(***************************************************************************)
(* The inductive invariant of the hub: a ticket still held was shown by    *)
(* nobody, a room holds only sockets let in, what is on its way to an      *)
(* instance none of its sockets was sent, and whoever an event is meant    *)
(* for has it or will be sent it (chat_realtime.py).                       *)
(***************************************************************************)
THEOREM HubInvariant == HubSpec => []HubInv
<1>. QED
  BY HubStart, HubStep, PTL DEF HubSpec

(***************************************************************************)
(* On any number of instances, sockets, tickets and events: a ticket lets  *)
(* in one socket, a badge follows the last tab of its user on an instance, *)
(* nobody is sent an event twice, and the room hears what went out.        *)
(***************************************************************************)
THEOREM HubServesOnce == HubSpec => []HubSound
<1>. QED
  BY HubInvariant, HubShows, PTL

-------------------------------------------------------------------------------
(***************************************************************************)
(* A conversation and its threads (ChatMessages). Whatever is said of a    *)
(* row, in an event, on a page or in a hook, is true of the row, and stays *)
(* true.                                                                   *)
(***************************************************************************)
KnownLine == [id : Nat, row : Row]

Acts == [pc : {"idle", "send"}] \cup [pc : {"edit"}, id : Nat] \cup [pc : {"mark"}, ids : SUBSET Nat]

RowsTyped ==
    /\ messages \in Seq(Row) /\ Len(messages) <= MaxMessages
    /\ hidden \in [Participants -> BOOLEAN]
    /\ deletedAt \in [Participants -> Nat]
    /\ \A u \in Participants : deletedAt[u] <= Len(messages)
    /\ blocked \in [Participants -> BOOLEAN]
    /\ DeletedChatMissesNothing

\* An edit is of a message there is, a mark of messages of the other.
ActionsAimed ==
    /\ action \in [Participants -> Acts]
    /\ \A u \in Participants :
          /\ Doing(u, "edit") => action[u].id \in DOMAIN messages
          /\ Doing(u, "mark") =>
                \A m \in action[u].ids : m \in DOMAIN messages /\ messages[m].by # u

\* A row that travels: of a message there is, and read only if that is.
RowClaim(m, row) == m \in DOMAIN messages /\ row \in Row /\ (row.read => messages[m].read)

Truthful(e) ==
    \/ e.type \in {"message", "message_update"} /\ RowClaim(e.id, e.row)
    \/ e.type = "messages_read" /\ \A m \in e.ids : m \in DOMAIN messages /\ messages[m].read

EventsTrue == \A e \in events : Truthful(e)

Lists(list) ==
    /\ list \in Seq(KnownLine)
    /\ \A i \in DOMAIN list : RowClaim(list[i].id, list[i].row)

Fetched == [items : Seq(KnownLine), nextCursor : Nat]
Pages == [open : {"rendered", "live"}, history : Seq(KnownLine), live : Seq(KnownLine),
          nextCursor : Nat, older : {NoPage} \cup Fetched, first : Nat]

\* Fetched pages end where what is shown begins.
Fits(fetched, cursor) ==
    /\ fetched \in Fetched
    /\ Lists(fetched.items)
    /\ JoinsUp(fetched.items, fetched.nextCursor)
    /\ fetched.nextCursor # 1 /\ fetched.nextCursor <= cursor
    /\ fetched.items # <<>> /\ Len(fetched.items) = cursor - fetched.items[1].id

Once(page) ==
    /\ \A i, j \in DOMAIN page.live : i # j => page.live[i].id # page.live[j].id
    /\ \A i \in DOMAIN page.history, j \in DOMAIN page.live :
          page.history[i].id = page.live[j].id => page.live[j].id < page.first

PageOK(page) ==
    /\ page \in Pages
    /\ Lists(page.history) /\ Lists(page.live)
    /\ JoinsUp(page.history, page.nextCursor)
    /\ page.nextCursor # 1 /\ page.nextCursor <= page.first
    /\ page.nextCursor # NoCursor => page.history # <<>>
    /\ Once(page)
    /\ page.older # NoPage => page.nextCursor # NoCursor /\ Fits(page.older, page.nextCursor)

ThreadsKept ==
    /\ thread = [v \in Viewers |-> thread[v]]
    /\ \A v \in Viewers : thread[v] = Closed \/ PageOK(thread[v])

Known(rows) == \A m \in DOMAIN rows : RowClaim(m, rows[m])

KnownKept ==
    /\ knownRows = [v \in Viewers |-> knownRows[v]]
    /\ \A v \in Viewers : Known(knownRows[v])

ChatInv == RowsTyped /\ ActionsAimed /\ EventsTrue /\ ThreadsKept /\ KnownKept

-------------------------------------------------------------------------------
LEMMA ChatShows == ChatInv => ChatTypeOK /\ ThreadSound
<1>. SUFFICES ASSUME ChatInv PROVE ChatTypeOK /\ ThreadSound
  OBVIOUS
<1>1. \A m \in DOMAIN messages : messages[m] \in Row
  BY ElementOfSeq, LenProperties DEF ChatInv, RowsTyped
<1>2. \A u \in Participants : action[u].pc \in {"idle", "send", "edit", "mark"}
  BY DEF ChatInv, ActionsAimed, Acts
<1>3. \A u \in Participants : /\ hidden[u] \in BOOLEAN /\ deletedAt[u] \in 0 .. Len(messages)
                               /\ blocked[u] \in BOOLEAN
  BY LenProperties DEF ChatInv, RowsTyped
<1>4. \A v \in Viewers : DOMAIN knownRows[v] \subseteq DOMAIN messages
  BY DEF ChatInv, KnownKept, Known, RowClaim
<1>5. \A v \in Viewers : thread[v].open # "no" => PageOK(thread[v])
  BY DEF ChatInv, ThreadsKept, Closed
<1>6. ASSUME NEW v \in Viewers, thread[v].open # "no", NEW line \in Lines(thread[v])
      PROVE  line.id \in DOMAIN messages /\ (line.row.read => messages[line.id].read)
  BY <1>5, <1>6 DEF PageOK, Lists, RowClaim, Lines
<1>7. ChatTypeOK
  BY <1>1, <1>2, <1>3, <1>4, <1>6 DEF ChatTypeOK, ChatInv, RowsTyped
<1>8. HistoryJoinsUp /\ ThreadShowsOnce
  BY <1>5 DEF HistoryJoinsUp, ThreadShowsOnce, PageOK, Once
<1>9. NoFalseRead /\ DeletedChatMissesNothing
  BY <1>6 DEF NoFalseRead, ChatInv, RowsTyped
<1>. QED
  BY <1>7, <1>8, <1>9 DEF ThreadSound

LEMMA ChatStart == ChatInit => ChatInv
<1>. SUFFICES ASSUME ChatInit PROVE ChatInv
  OBVIOUS
<1>1. RowsTyped
  <2>1. messages = <<>> /\ Len(messages) = 0 /\ messages \in Seq(Row) /\ DOMAIN messages = {}
    BY EmptySeq DEF ChatInit
  <2>. QED
    BY <2>1, ChatAssumption DEF ChatInit, RowsTyped, DeletedChatMissesNothing
<1>2. ActionsAimed
  BY DEF ChatInit, ActionsAimed, Acts, NoAction, Doing
<1>3. ThreadsKept
  BY DEF ChatInit, ThreadsKept, Closed
<1>4. KnownKept
  <2>1. \A v \in Viewers : knownRows[v] = <<>>
    BY DEF ChatInit
  <2>2. \A v \in Viewers : DOMAIN knownRows[v] = {}
    BY <2>1
  <2>. QED
    BY <2>2 DEF ChatInit, KnownKept, Known
<1>. QED
  BY <1>1, <1>2, <1>3, <1>4 DEF ChatInit, ChatInv, EventsTrue

-------------------------------------------------------------------------------
\* Messages are added and read, never taken away or unread.
RowsGoOn ==
    \A m \in DOMAIN messages :
        /\ m \in DOMAIN messages'
        /\ messages'[m].by = messages[m].by
        /\ messages[m].read => messages'[m].read

\* Of the rows a page says only what they keep saying.
LEMMA PagesStay ==
    ASSUME \A m, row : RowClaim(m, row) => RowClaim(m, row)'
    PROVE  \A page : PageOK(page) => PageOK(page)'
<1>1. \A list : Lists(list) => Lists(list)'
  BY DEF Lists
<1>2. \A fetched, cursor : Fits(fetched, cursor) => Fits(fetched, cursor)'
  BY <1>1 DEF Fits, JoinsUp
<1>. QED
  BY <1>1, <1>2 DEF PageOK, JoinsUp, Once

LEMMA ThreadsStand ==
    ASSUME ChatInv, RowsGoOn, UNCHANGED <<thread, knownRows>>
    PROVE  ThreadsKept' /\ KnownKept'
<1>1. \A m, row : RowClaim(m, row) => RowClaim(m, row)'
  BY DEF RowClaim, RowsGoOn
<1>2. \A page : PageOK(page) => PageOK(page)'
  BY <1>1, PagesStay
<1>3. \A rows : Known(rows) => Known(rows)'
  BY <1>1 DEF Known
<1>4. ThreadsKept'
  BY <1>2 DEF ChatInv, ThreadsKept
<1>5. KnownKept'
  BY <1>3 DEF ChatInv, KnownKept
<1>. QED
  BY <1>4, <1>5

LEMMA EventsStayTrue ==
    ASSUME ChatInv, RowsGoOn,
           \A e \in events' : e \in events \/ Truthful(e)'
    PROVE  EventsTrue'
<1>1. \A m, row : RowClaim(m, row) => RowClaim(m, row)'
  BY DEF RowClaim, RowsGoOn
<1>2. \A e : Truthful(e) => Truthful(e)'
  BY <1>1 DEF Truthful, RowsGoOn
<1>. QED
  BY <1>2 DEF ChatInv, EventsTrue

LEMMA ActionsStand ==
    ASSUME ChatInv, RowsGoOn, NEW u \in Participants, Does(u, NoAction) \/ UNCHANGED action
    PROVE  ActionsAimed'
<1>1. NoAction \in Acts /\ NoAction.pc = "idle"
  BY DEF NoAction, Acts
<1>2. action' \in [Participants -> Acts]
  BY <1>1 DEF ChatInv, ActionsAimed, Does
<1>3. \A w \in Participants : action'[w] = action[w] \/ action'[w].pc = "idle"
  BY <1>1 DEF ChatInv, ActionsAimed, Does
<1>. QED
  BY <1>2, <1>3 DEF ChatInv, ActionsAimed, Doing, RowsGoOn

\* What is about the rows and the pages stays when only an action begins.
LEMMA RowsRest ==
    ASSUME ChatInv, UNCHANGED <<messages, events, thread, knownRows>>
    PROVE  RowsGoOn /\ EventsTrue' /\ ThreadsKept' /\ KnownKept'
<1>1. RowsGoOn
  BY DEF RowsGoOn
<1>2. EventsTrue'
  BY <1>1, EventsStayTrue
<1>. QED
  BY <1>1, <1>2, ThreadsStand

-------------------------------------------------------------------------------
\* What the participants do.

LEMMA SendChecksStep == ASSUME ChatInv, NEW u \in Participants, SendChecks(u) PROVE ChatInv'
<1>1. RowsTyped'
  BY DEF SendChecks, ChatInv, RowsTyped, DeletedChatMissesNothing
<1>2. ActionsAimed'
  <2>1. [pc |-> "send"] \in Acts
    BY DEF Acts
  <2>2. action' \in [Participants -> Acts]
    BY <2>1 DEF SendChecks, Does, ChatInv, ActionsAimed
  <2>3. \A w \in Participants : action'[w] = action[w] \/ action'[w].pc = "send"
    BY DEF SendChecks, Does, ChatInv, ActionsAimed
  <2>. QED
    BY <2>2, <2>3 DEF SendChecks, ChatInv, ActionsAimed, Doing
<1>. QED
  BY <1>1, <1>2, RowsRest DEF SendChecks, ChatInv

LEMMA SendWritesStep == ASSUME ChatInv, NEW u \in Participants, SendWrites(u) PROVE ChatInv'
<1>. DEFINE row == NewMessage(u)
<1>. PICK n : n = Len(messages) + 1
  OBVIOUS
<1>1. messages' = Append(messages, row) /\ messages \in Seq(Row) /\ Len(messages) < MaxMessages
  BY DEF SendWrites, ChatInv, RowsTyped
<1>2. row \in Row /\ ~row.read
  BY DEF NewMessage, Row
<1>. HIDE DEF row
<1>3. /\ messages' \in Seq(Row) /\ Len(messages') = Len(messages) + 1
      /\ DOMAIN messages' = 1 .. Len(messages) + 1 /\ DOMAIN messages = 1 .. Len(messages)
      /\ \A m \in DOMAIN messages : messages'[m] = messages[m]
      /\ Len(messages) \in Nat
  BY <1>1, <1>2, AppendProperties, LenProperties
<1>4. RowsGoOn
  BY <1>3 DEF RowsGoOn
<1>5. RowsTyped'
  <2>1. Len(messages') <= MaxMessages
    BY <1>1, <1>3, ChatAssumption
  <2>2. Other(u) \in Participants
    BY DEF Other, Participants
  <2>3. hidden' \in [Participants -> BOOLEAN] /\ hidden'[Other(u)] = FALSE
    BY <2>2 DEF SendWrites, ChatInv, RowsTyped
  <2>4. deletedAt' \in [Participants -> Nat] /\ deletedAt'[Other(u)] = 0
    BY <2>2, <2>3 DEF SendWrites, ChatInv, RowsTyped
  <2>5. \A w \in Participants : w # Other(u) =>
           w = u /\ hidden'[w] = hidden[w] /\ deletedAt'[w] = deletedAt[w]
    BY <2>2 DEF SendWrites, ChatInv, RowsTyped, Other, Participants
  <2>6. \A w \in Participants : deletedAt'[w] <= Len(messages')
    <3> SUFFICES ASSUME NEW w \in Participants PROVE deletedAt'[w] <= Len(messages')
      OBVIOUS
    <3>1. deletedAt[w] \in Nat /\ deletedAt[w] <= Len(messages)
      BY DEF ChatInv, RowsTyped
    <3>2. deletedAt'[w] = 0 \/ deletedAt'[w] = deletedAt[w]
      BY <2>4, <2>5
    <3>. QED
      BY <1>3, <3>1, <3>2
  <2>7. messages'[Len(messages) + 1].by = u
    BY <1>1, <1>3, AppendProperties DEF row, NewMessage
  <2>8. DeletedChatMissesNothing'
    <3> SUFFICES ASSUME NEW w \in Participants, hidden'[w], NEW m \in DOMAIN messages', m > deletedAt'[w]
                 PROVE  messages'[m].by = w
      BY DEF DeletedChatMissesNothing
    <3>1. w = u /\ hidden[w] /\ m > deletedAt[w]
      BY <2>3, <2>5
    <3>2. CASE m \in DOMAIN messages
      BY <1>3, <3>1, <3>2 DEF DeletedChatMissesNothing, ChatInv, RowsTyped
    <3>3. CASE m = Len(messages) + 1
      BY <2>7, <3>1, <3>3
    <3> QED
      BY <1>3, <3>2, <3>3
  <2>. QED
    BY <1>3, <2>1, <2>3, <2>4, <2>6, <2>8 DEF SendWrites, ChatInv, RowsTyped
<1>6. EventsTrue'
  <2>1. events' = events \cup {Inserted(n, row)}
    BY DEF SendWrites, Publishes, row
  <2>2. n \in DOMAIN messages'
    BY <1>3
  <2>3. RowClaim(n, row)'
    BY <1>2, <2>2 DEF RowClaim, row
  <2>4. Truthful(Inserted(n, row))'
    BY <2>3 DEF Truthful, Inserted, row
  <2>. QED
    BY <1>4, <2>1, <2>4, EventsStayTrue
<1>7. ActionsAimed'
  BY <1>4, ActionsStand DEF SendWrites
<1>8. ThreadsKept' /\ KnownKept'
  BY <1>4, ThreadsStand DEF SendWrites
<1>. QED
  BY <1>5, <1>6, <1>7, <1>8 DEF ChatInv

LEMMA EditReadsStep == ASSUME ChatInv, NEW u \in Participants, EditReads(u) PROVE ChatInv'
<1>1. PICK m \in DOMAIN messages : Does(u, [pc |-> "edit", id |-> m])
  BY DEF EditReads
<1>2. RowsTyped'
  BY DEF EditReads, ChatInv, RowsTyped, DeletedChatMissesNothing
<1>3. m \in Nat
  BY LenProperties DEF ChatInv, RowsTyped
<1>4. ActionsAimed'
  <2>1. [pc |-> "edit", id |-> m] \in Acts
    BY <1>3 DEF Acts
  <2>2. action' \in [Participants -> Acts]
    BY <1>1, <2>1 DEF Does, ChatInv, ActionsAimed
  <2>3. \A w \in Participants : action'[w] = action[w] \/ (action'[w].pc = "edit" /\ action'[w].id = m)
    BY <1>1 DEF Does, ChatInv, ActionsAimed
  <2>. QED
    BY <2>2, <2>3 DEF EditReads, ChatInv, ActionsAimed, Doing
<1>. QED
  BY <1>2, <1>4, RowsRest DEF EditReads, ChatInv

\* A row is written: as read as it was, and by whom it was.
LEMMA RowWritten ==
    ASSUME ChatInv, NEW m \in DOMAIN messages, NEW row \in Row,
           messages' = [messages EXCEPT ![m] = row],
           row.by = messages[m].by, row.read = messages[m].read,
           UNCHANGED <<hidden, deletedAt, blocked, thread, knownRows>>,
           events' = events \cup {Updated(m, row)}
    PROVE  RowsGoOn /\ RowsTyped' /\ EventsTrue' /\ ThreadsKept' /\ KnownKept'
<1>1. /\ messages' \in Seq(Row) /\ Len(messages') = Len(messages)
      /\ DOMAIN messages' = DOMAIN messages
      /\ \A k \in DOMAIN messages : messages'[k] = IF k = m THEN row ELSE messages[k]
  BY ExceptSeq, LenProperties DEF ChatInv, RowsTyped
<1>2. RowsGoOn
  BY <1>1 DEF RowsGoOn
<1>3. RowsTyped'
  BY <1>1 DEF ChatInv, RowsTyped, DeletedChatMissesNothing
<1>4. RowClaim(m, row)'
  BY <1>1 DEF RowClaim
<1>5. Truthful(Updated(m, row))'
  BY <1>4 DEF Truthful, Updated
<1>6. EventsTrue'
  BY <1>2, <1>5, EventsStayTrue
<1>. QED
  BY <1>2, <1>3, <1>6, ThreadsStand

LEMMA RowFields ==
    ASSUME ChatInv, NEW m \in DOMAIN messages, NEW edited \in BOOLEAN, NEW deleted \in BOOLEAN,
           NEW text \in BOOLEAN
    PROVE  /\ [messages EXCEPT ![m].edited = edited, ![m].text = text] =
              [messages EXCEPT ![m] = [messages[m] EXCEPT !.edited = edited, !.text = text]]
           /\ [messages EXCEPT ![m].deleted = deleted, ![m].text = text] =
              [messages EXCEPT ![m] = [messages[m] EXCEPT !.deleted = deleted, !.text = text]]
           /\ [messages[m] EXCEPT !.edited = edited, !.text = text] \in Row
           /\ [messages[m] EXCEPT !.deleted = deleted, !.text = text] \in Row
<1>1. messages[m] \in Row
  BY ElementOfSeq, LenProperties DEF ChatInv, RowsTyped
<1>2. /\ [messages[m] EXCEPT !.edited = edited, !.text = text] \in Row
      /\ [messages[m] EXCEPT !.deleted = deleted, !.text = text] \in Row
  BY <1>1 DEF Row
<1>3. /\ [messages EXCEPT ![m].edited = edited, ![m].text = text] =
         [messages EXCEPT ![m] = [messages[m] EXCEPT !.edited = edited, !.text = text]]
      /\ [messages EXCEPT ![m].deleted = deleted, ![m].text = text] =
         [messages EXCEPT ![m] = [messages[m] EXCEPT !.deleted = deleted, !.text = text]]
  BY <1>1
<1>. QED
  BY <1>2, <1>3

LEMMA EditWritesStep == ASSUME ChatInv, NEW u \in Participants, EditWrites(u) PROVE ChatInv'
<1>. PICK m : m = action[u].id
  OBVIOUS
<1>. PICK row : row = [messages[m] EXCEPT !.edited = TRUE, !.text = TRUE]
  OBVIOUS
<1>1. m \in DOMAIN messages
  BY DEF EditWrites, ChatInv, ActionsAimed
<1>2. messages[m] \in Row
  BY <1>1, ElementOfSeq, LenProperties DEF ChatInv, RowsTyped
<1>3. row \in Row /\ row.by = messages[m].by /\ row.read = messages[m].read
  BY <1>2 DEF Row
<1>4. messages' = [messages EXCEPT ![m] = row]
  BY <1>1, RowFields DEF EditWrites
<1>5. events' = events \cup {Updated(m, messages'[m])} /\ messages'[m] = row
  BY <1>1, <1>4 DEF EditWrites, Publishes
<1>6. RowsGoOn /\ RowsTyped' /\ EventsTrue' /\ ThreadsKept' /\ KnownKept'
  BY <1>1, <1>3, <1>4, <1>5, RowWritten DEF EditWrites
<1>7. ActionsAimed'
  BY <1>6, ActionsStand DEF EditWrites
<1>. QED
  BY <1>6, <1>7 DEF ChatInv

LEMMA DeleteMessageStep == ASSUME ChatInv, NEW u \in Participants, NEW m, Delete(u, m) PROVE ChatInv'
<1>. PICK row : row = [messages[m] EXCEPT !.deleted = TRUE, !.text = FALSE]
  OBVIOUS
<1>1. m \in DOMAIN messages
  BY DEF Delete
<1>2. messages[m] \in Row
  BY <1>1, ElementOfSeq, LenProperties DEF ChatInv, RowsTyped
<1>3. row \in Row /\ row.by = messages[m].by /\ row.read = messages[m].read
  BY <1>2 DEF Row
<1>4. messages' = [messages EXCEPT ![m] = row]
  BY <1>1, RowFields DEF Delete
<1>5. events' = events \cup {Updated(m, messages'[m])} /\ messages'[m] = row
  BY <1>1, <1>4 DEF Delete, Publishes
<1>6. RowsGoOn /\ RowsTyped' /\ EventsTrue' /\ ThreadsKept' /\ KnownKept'
  BY <1>1, <1>3, <1>4, <1>5, RowWritten DEF Delete
<1>7. ActionsAimed'
  BY <1>6, ActionsStand DEF Delete
<1>. QED
  BY <1>6, <1>7 DEF ChatInv

LEMMA MarkReadsStep == ASSUME ChatInv, NEW u \in Participants, MarkReads(u) PROVE ChatInv'
<1>. PICK ids : ids = {m \in DOMAIN messages : messages[m].by # u /\ ~messages[m].read}
  OBVIOUS
<1>1. Does(u, [pc |-> "mark", ids |-> ids])
  BY DEF MarkReads
<1>2. RowsTyped'
  BY DEF MarkReads, ChatInv, RowsTyped, DeletedChatMissesNothing
<1>3. ids \subseteq Nat /\ \A m \in ids : m \in DOMAIN messages /\ messages[m].by # u
  BY LenProperties DEF ChatInv, RowsTyped
<1>4. ActionsAimed'
  <2>1. [pc |-> "mark", ids |-> ids] \in Acts
    BY <1>3 DEF Acts
  <2>2. action' \in [Participants -> Acts]
    BY <1>1, <2>1 DEF Does, ChatInv, ActionsAimed
  <2>3. \A w \in Participants :
            action'[w] = action[w] \/ (w = u /\ action'[w].pc = "mark" /\ action'[w].ids = ids)
    BY <1>1 DEF Does, ChatInv, ActionsAimed
  <2>. QED
    BY <1>3, <2>2, <2>3 DEF MarkReads, ChatInv, ActionsAimed, Doing
<1>. QED
  BY <1>2, <1>4, RowsRest DEF MarkReads, ChatInv

LEMMA MarkWritesStep == ASSUME ChatInv, NEW u \in Participants, MarkWrites(u) PROVE ChatInv'
<1>. PICK ids : ids = action[u].ids
  OBVIOUS
<1>1. \A m \in ids : m \in DOMAIN messages /\ messages[m].by # u
  BY DEF MarkWrites, ChatInv, ActionsAimed
<1>2. \A m \in DOMAIN messages : messages[m] \in Row
  BY ElementOfSeq, LenProperties DEF ChatInv, RowsTyped
<1>3. ASSUME NEW row \in Row
      PROVE  LET marked == [row EXCEPT !.read = TRUE]
             IN  row.read \in BOOLEAN /\ marked \in Row /\ marked.by = row.by /\ marked.read = TRUE
  BY <1>3 DEF Row
<1>4. /\ DOMAIN messages' = DOMAIN messages
      /\ messages' = [m \in DOMAIN messages |-> messages'[m]]
      /\ \A m \in DOMAIN messages :
            /\ messages'[m] \in Row
            /\ messages'[m].by = messages[m].by
            /\ messages[m].read \/ messages[m].by # u => messages'[m].read
  <2>1. /\ DOMAIN messages' = DOMAIN messages
        /\ messages' = [m \in DOMAIN messages |-> messages'[m]]
    BY DEF MarkWrites
  <2>2. ASSUME NEW m \in DOMAIN messages
        PROVE  /\ messages'[m] \in Row
               /\ messages'[m].by = messages[m].by
               /\ messages[m].read \/ messages[m].by # u => messages'[m].read
    <3>1. messages'[m] = IF messages[m].by # u THEN [messages[m] EXCEPT !.read = TRUE] ELSE messages[m]
      BY DEF MarkWrites
    <3>2. messages[m] \in Row
      BY <1>2
    <3>. QED
      BY <1>3, <3>1, <3>2
  <2>. QED
    BY <2>1, <2>2
<1>5. messages' \in Seq(Row) /\ Len(messages') = Len(messages)
  <2>1. DOMAIN messages = 1 .. Len(messages) /\ Len(messages) \in Nat
    BY LenProperties DEF ChatInv, RowsTyped
  <2>2. messages' \in [1 .. Len(messages) -> Row]
    BY <1>4, <2>1
  <2>3. messages' \in Seq(Row)
    BY <2>1, <2>2, SeqDef
  <2>. QED
    BY <1>4, <2>1, <2>3, LenProperties
<1>6. RowsGoOn
  BY <1>4 DEF RowsGoOn
<1>7. RowsTyped'
  BY <1>5 DEF MarkWrites, ChatInv, RowsTyped, DeletedChatMissesNothing
<1>8. EventsTrue'
  <2>1. events' = events \cup {[type |-> "messages_read", by |-> u, ids |-> ids]}
    BY DEF MarkWrites, Publishes
  <2>2. \A m \in ids : m \in DOMAIN messages' /\ messages'[m].read
    BY <1>1, <1>4
  <2>3. Truthful([type |-> "messages_read", by |-> u, ids |-> ids])'
    BY <2>2 DEF Truthful
  <2>. QED
    BY <1>6, <2>1, <2>3, EventsStayTrue
<1>9. ActionsAimed'
  BY <1>6, ActionsStand DEF MarkWrites
<1>10. ThreadsKept' /\ KnownKept'
  BY <1>6, ThreadsStand DEF MarkWrites
<1>. QED
  BY <1>7, <1>8, <1>9, <1>10 DEF ChatInv

LEMMA ConversationStep ==
    ASSUME ChatInv, NEW u \in Participants,
           ActionFails(u) \/ DeleteChat(u) \/ Block(u) \/ Unblock(u) \/ Reopen
    PROVE  ChatInv'
<1>1. UNCHANGED <<messages, events, thread, knownRows>> /\ (Does(u, NoAction) \/ UNCHANGED action)
  BY DEF ActionFails, DeleteChat, Block, Unblock, Reopen
<1>2. RowsGoOn /\ EventsTrue' /\ ThreadsKept' /\ KnownKept'
  BY <1>1, RowsRest
<1>3. ActionsAimed'
  BY <1>1, <1>2, ActionsStand
<1>4. RowsTyped'
  <2>0. Len(messages) \in Nat
    BY LenProperties DEF ChatInv, RowsTyped
  <2>1. /\ hidden' \in [Participants -> BOOLEAN]
        /\ deletedAt' \in [Participants -> Nat]
        /\ \A w \in Participants : deletedAt'[w] <= Len(messages)
        /\ blocked' \in [Participants -> BOOLEAN]
    <3>1. CASE ActionFails(u)
      BY <3>1 DEF ActionFails, ChatInv, RowsTyped
    <3>2. CASE DeleteChat(u)
      BY <2>0, <3>2 DEF DeleteChat, ChatInv, RowsTyped
    <3>3. CASE Block(u) \/ Unblock(u)
      BY <3>3 DEF Block, Unblock, ChatInv, RowsTyped
    <3>4. CASE Reopen
      <4>1. /\ hidden' = [hidden EXCEPT ![Buyer] = FALSE] /\ blocked' = blocked
            /\ deletedAt' = [deletedAt EXCEPT ![Buyer] = 0]
        BY <3>4 DEF Reopen
      <4>2. /\ hidden \in [Participants -> BOOLEAN] /\ blocked \in [Participants -> BOOLEAN]
            /\ deletedAt \in [Participants -> Nat]
            /\ \A w \in Participants : deletedAt[w] <= Len(messages)
        BY DEF ChatInv, RowsTyped
      <4>3. \A w \in Participants : deletedAt'[w] = 0 \/ deletedAt'[w] = deletedAt[w]
        BY <4>1, <4>2
      <4>4. \A w \in Participants : deletedAt'[w] <= Len(messages)
        BY <2>0, <4>2, <4>3
      <4>5. hidden' \in [Participants -> BOOLEAN] /\ deletedAt' \in [Participants -> Nat]
        BY <4>1, <4>2
      <4>. QED
        BY <4>1, <4>2, <4>4, <4>5
    <3>. QED
      BY <3>1, <3>2, <3>3, <3>4
  <2>2. DeletedChatMissesNothing'
    BY LenProperties DEF ActionFails, DeleteChat, Block, Unblock, Reopen, ChatInv, RowsTyped, DeletedChatMissesNothing
  <2>. QED
    BY <1>1, <2>1, <2>2 DEF ChatInv, RowsTyped
<1>. QED
  BY <1>2, <1>3, <1>4 DEF ChatInv

-------------------------------------------------------------------------------
\* What a thread shows.

LEMMA OpenPage ==
    ASSUME ChatInv, NEW v \in Viewers, thread[v].open # "no"
    PROVE  PageOK(thread[v])
BY DEF ChatInv, ThreadsKept, Closed

LEMMA LineAdded ==
    ASSUME NEW page, NEW m \in Nat, NEW row, PageOK(page), RowClaim(m, row)
    PROVE  PageOK(HandleMessageInsert(page, m, row))
<1>1. CASE \E line \in Lines(page) : line.id = m
  BY <1>1 DEF HandleMessageInsert
<1>2. CASE ~\E line \in Lines(page) : line.id = m
  <2>. DEFINE new == Append(page.live, Shown(m, row))
  <2>1. Shown(m, row) \in KnownLine
    BY DEF RowClaim, Shown, KnownLine
  <2>2. /\ new \in Seq(KnownLine) /\ DOMAIN new = 1 .. Len(page.live) + 1
        /\ DOMAIN page.live = 1 .. Len(page.live)
        /\ \A i \in DOMAIN page.live : new[i] = page.live[i]
        /\ new[Len(page.live) + 1] = Shown(m, row) /\ Len(page.live) \in Nat
    BY <2>1, AppendProperties, LenProperties DEF PageOK, Lists
  <2>. HIDE DEF new
  <2>3. \A i \in DOMAIN new : i \in DOMAIN page.live \/ i = Len(page.live) + 1
    BY <2>2
  <2>4. new[Len(page.live) + 1].id = m /\ new[Len(page.live) + 1].row = row
    BY <2>2 DEF Shown
  <2>5. Lists(new)
    BY <2>2, <2>3, <2>4 DEF Lists, PageOK
  <2>6. /\ \A i \in DOMAIN page.live : page.live[i].id # m
        /\ \A i \in DOMAIN page.history : page.history[i].id # m
    BY <1>2 DEF Lines
  <2>. PICK added : added = [page EXCEPT !.live = new]
    OBVIOUS
  <2>7. /\ added \in Pages /\ added.live = new /\ added.history = page.history
        /\ added.nextCursor = page.nextCursor /\ added.older = page.older /\ added.first = page.first
    BY <2>2 DEF PageOK, Pages
  <2>8. Once(added)
    <3>1. \A i, j \in DOMAIN new : i # j => new[i].id # new[j].id
      <4> SUFFICES ASSUME NEW i \in DOMAIN new, NEW j \in DOMAIN new, i # j
                   PROVE  new[i].id # new[j].id
        OBVIOUS
      <4>1. CASE i \in DOMAIN page.live /\ j \in DOMAIN page.live
        BY <2>2, <4>1 DEF PageOK, Once
      <4>2. CASE i = Len(page.live) + 1
        BY <2>2, <2>3, <2>4, <2>6, <4>2
      <4>3. CASE j = Len(page.live) + 1
        BY <2>2, <2>3, <2>4, <2>6, <4>3
      <4>. QED
        BY <2>3, <4>1, <4>2, <4>3
    <3>2. \A i \in DOMAIN page.history, j \in DOMAIN new :
             page.history[i].id = new[j].id => new[j].id < page.first
      BY <2>2, <2>3, <2>4, <2>6 DEF PageOK, Once
    <3>. QED
      BY <2>7, <3>1, <3>2 DEF Once
  <2>9. PageOK(added)
    BY <2>5, <2>7, <2>8 DEF PageOK
  <2>. QED
    BY <1>2, <2>9 DEF HandleMessageInsert, new
<1>. QED
  BY <1>1, <1>2

\* The lines of a list are replaced, each under its id.
LEMMA LinesReplaced ==
    ASSUME NEW list, NEW rows, Lists(list), \A m \in DOMAIN rows : m \in Nat /\ RowClaim(m, rows[m])
    PROVE  /\ Lists(Replaced(list, rows))
           /\ DOMAIN Replaced(list, rows) = DOMAIN list
           /\ \A i \in DOMAIN list : Replaced(list, rows)[i].id = list[i].id
<1>. DEFINE new == Replaced(list, rows)
<1>1. \A i \in DOMAIN list : list[i] \in KnownLine
  BY ElementOfSeq, LenProperties DEF Lists
<1>2. \A m \in DOMAIN rows : Shown(m, rows[m]) \in KnownLine /\ Shown(m, rows[m]).id = m
                             /\ Shown(m, rows[m]).row = rows[m]
  BY DEF Shown, KnownLine, RowClaim
<1>3. new = [i \in DOMAIN list |-> new[i]]
  BY DEF Replaced
<1>4. \A i \in DOMAIN list :
          new[i] = IF list[i].id \in DOMAIN rows THEN Shown(list[i].id, rows[list[i].id]) ELSE list[i]
  BY DEF Replaced
<1>. HIDE DEF new
<1>5. \A i \in DOMAIN list : /\ new[i] \in KnownLine
                             /\ new[i].id = list[i].id
                             /\ RowClaim(new[i].id, new[i].row)
  BY <1>1, <1>2, <1>4 DEF Lists
<1>6. DOMAIN list = 1 .. Len(list) /\ Len(list) \in Nat
  BY LenProperties DEF Lists
<1>7. new \in [1 .. Len(list) -> KnownLine]
  BY <1>3, <1>5, <1>6
<1>8. new \in Seq(KnownLine)
  BY <1>6, <1>7, SeqDef
<1>9. DOMAIN new = DOMAIN list
  BY <1>3
<1>10. Lists(new)
  BY <1>5, <1>8, <1>9 DEF Lists
<1>. QED
  BY <1>5, <1>9, <1>10 DEF new

LEMMA PageUpdated ==
    ASSUME NEW page, NEW rows, PageOK(page), \A m \in DOMAIN rows : m \in Nat /\ RowClaim(m, rows[m])
    PROVE  PageOK(HandleMessageUpdates(page, rows))
<1>. PICK history : history = Replaced(page.history, rows)
  OBVIOUS
<1>. PICK live : live = Replaced(page.live, rows)
  OBVIOUS
<1>1. /\ Lists(history) /\ DOMAIN history = DOMAIN page.history
      /\ \A i \in DOMAIN page.history : history[i].id = page.history[i].id
  BY LinesReplaced DEF PageOK
<1>2. /\ Lists(live) /\ DOMAIN live = DOMAIN page.live
      /\ \A i \in DOMAIN page.live : live[i].id = page.live[i].id
  BY LinesReplaced DEF PageOK
<1>3. /\ page.history \in Seq(KnownLine) /\ history \in Seq(KnownLine)
      /\ DOMAIN page.history = 1 .. Len(page.history) /\ Len(page.history) \in Nat
      /\ DOMAIN history = 1 .. Len(history) /\ Len(history) \in Nat
  BY <1>1, LenProperties DEF PageOK, Lists
<1>4. history # <<>> <=> page.history # <<>>
  <2>1. \A s \in Seq(KnownLine) : s = <<>> <=> Len(s) = 0
    BY EmptySeq, LenProperties
  <2>2. Len(history) = Len(page.history)
    BY <1>1, <1>3
  <2>. QED
    BY <1>3, <2>1, <2>2
<1>5. JoinsUp(history, page.nextCursor)
  <2>1. page.history # <<>> => 1 \in DOMAIN page.history
    BY <1>3, EmptySeq
  <2>2. \A i \in DOMAIN page.history : 1 \in DOMAIN page.history
    BY <1>3
  <2>3. \A i \in DOMAIN history : history[i].id = history[1].id + i - 1
    BY <1>1, <2>2 DEF PageOK, JoinsUp
  <2>4. history # <<>> => history[1].id = page.history[1].id
    BY <1>1, <1>4, <2>1
  <2>. QED
    BY <1>4, <2>3, <2>4 DEF PageOK, JoinsUp
<1>. PICK updated : updated = [page EXCEPT !.history = history, !.live = live]
  OBVIOUS
<1>6. /\ updated \in Pages /\ updated.live = live /\ updated.history = history
      /\ updated.nextCursor = page.nextCursor /\ updated.older = page.older /\ updated.first = page.first
  BY <1>1, <1>2 DEF PageOK, Pages, Lists
<1>7. Once(updated)
  BY <1>1, <1>2, <1>6 DEF Once, PageOK
<1>8. PageOK(updated)
  BY <1>1, <1>2, <1>4, <1>5, <1>6, <1>7 DEF PageOK
<1>. QED
  BY <1>8 DEF HandleMessageUpdates

\* One viewer's page changes: to one that is in order, with rows known that claim
\* nothing false.
LEMMA PageChanges ==
    ASSUME ChatInv, NEW v \in Viewers, NEW page, NEW rows,
           thread' = [thread EXCEPT ![v] = page],
           knownRows' = [knownRows EXCEPT ![v] = rows],
           page = Closed \/ PageOK(page), Known(rows),
           UNCHANGED <<messages, hidden, deletedAt, blocked, action, events>>
    PROVE  ChatInv'
<1>1. RowsTyped' /\ ActionsAimed' /\ EventsTrue'
  BY DEF ChatInv, RowsTyped, DeletedChatMissesNothing, ActionsAimed, Doing, EventsTrue, Truthful, RowClaim
<1>2. \A m, row : RowClaim(m, row) => RowClaim(m, row)'
  BY DEF RowClaim
<1>3. ThreadsKept'
  <2>1. \A w \in Viewers : thread'[w] = IF w = v THEN page ELSE thread[w]
    BY DEF ChatInv, ThreadsKept
  <2>2. thread' = [w \in Viewers |-> thread'[w]]
    BY DEF ChatInv, ThreadsKept
  <2>3. \A w \in Viewers : thread'[w] = Closed \/ PageOK(thread'[w])
    BY <2>1 DEF ChatInv, ThreadsKept
  <2>4. \A p : PageOK(p) => PageOK(p)'
    BY <1>2, PagesStay
  <2>5. \A w \in Viewers : (thread[w] = Closed \/ PageOK(thread[w]))'
    BY <2>3, <2>4 DEF Closed
  <2>. QED
    BY <2>2, <2>5 DEF ThreadsKept
<1>4. KnownKept'
  <2>1. \A w \in Viewers : knownRows'[w] = IF w = v THEN rows ELSE knownRows[w]
    BY DEF ChatInv, KnownKept
  <2>2. knownRows' = [w \in Viewers |-> knownRows'[w]]
    BY DEF ChatInv, KnownKept
  <2>3. \A w \in Viewers : Known(knownRows'[w])
    BY <2>1 DEF ChatInv, KnownKept
  <2>4. \A w \in Viewers : Known(knownRows[w])'
    BY <1>2, <2>3 DEF Known
  <2>. QED
    BY <2>2, <2>4 DEF KnownKept
<1>. QED
  BY <1>1, <1>3, <1>4 DEF ChatInv

\* Only the page changes.
LEMMA OnlyPageChanges ==
    ASSUME ChatInv, NEW v \in Viewers, NEW page, thread' = [thread EXCEPT ![v] = page],
           page = Closed \/ PageOK(page),
           UNCHANGED <<messages, hidden, deletedAt, blocked, action, events, knownRows>>
    PROVE  ChatInv'
<1>1. knownRows' = [knownRows EXCEPT ![v] = knownRows[v]] /\ Known(knownRows[v])
  BY DEF ChatInv, KnownKept
<1>. QED
  BY <1>1, PageChanges

LEMMA NothingKnown == Known(<<>>)
<1>1. DOMAIN <<>> = {}
  OBVIOUS
<1>. QED
  BY <1>1 DEF Known

\* A page read: the messages before its cursor, joined up, and the cursor of the next.
LEMMA PageRead ==
    ASSUME ChatInv, NEW cursor \in Nat, cursor = NoCursor \/ cursor \in DOMAIN messages \ {1}
    PROVE  LET page == Page(cursor)
           IN  /\ page \in Fetched /\ Lists(page.items) /\ JoinsUp(page.items, page.nextCursor)
               /\ page.nextCursor # 1
               /\ page.nextCursor # NoCursor => page.items # <<>>
               /\ cursor # NoCursor => Fits(page, cursor)
<1>a. PICK last : last = IF cursor = NoCursor THEN Len(messages) ELSE cursor - 1
  OBVIOUS
<1>b. PICK oldest : oldest = IF last > PageSize THEN last - PageSize + 1 ELSE 1
  OBVIOUS
<1>c. PICK n : n = last - oldest + 1
  OBVIOUS
<1>d. PICK items : items = [i \in 1 .. n |-> Shown(oldest + i - 1, messages[oldest + i - 1])]
  OBVIOUS
<1>e. PICK next : next = IF oldest > 1 THEN oldest ELSE NoCursor
  OBVIOUS
<1>1. Page(cursor) = [items |-> items, nextCursor |-> next]
  BY <1>a, <1>b, <1>c, <1>d, <1>e DEF Page
<1>2. DOMAIN messages = 1 .. Len(messages) /\ Len(messages) \in Nat
  BY LenProperties DEF ChatInv, RowsTyped
<1>3. /\ last \in Nat /\ last <= Len(messages) /\ oldest \in Nat \ {0} /\ n \in Nat
      /\ next \in Nat /\ next # 1 /\ (cursor # NoCursor => last = cursor - 1 /\ last >= 1)
  BY <1>2, <1>a, <1>b, <1>c, <1>e, ChatAssumption DEF NoCursor
<1>4. /\ next # NoCursor => next = oldest /\ n >= 1
      /\ next = NoCursor => oldest = 1
      /\ last >= 1 => n >= 1 /\ oldest <= last
  BY <1>3, <1>a, <1>b, <1>c, <1>e, ChatAssumption DEF NoCursor
<1>5. \A i \in 1 .. n : /\ oldest + i - 1 \in DOMAIN messages
                        /\ items[i] = Shown(oldest + i - 1, messages[oldest + i - 1])
  <2> SUFFICES ASSUME NEW i \in 1 .. n PROVE oldest + i - 1 \in DOMAIN messages
    BY <1>d
  <2>1. i \in Nat /\ i >= 1 /\ i <= last - oldest + 1
    BY <1>3, <1>c
  <2>. QED
    BY <1>2, <1>3, <2>1
<1>6. \A m \in DOMAIN messages : messages[m] \in Row /\ m \in Nat
  BY <1>2, ElementOfSeq, LenProperties DEF ChatInv, RowsTyped
<1>7. \A i \in 1 .. n : /\ items[i] \in KnownLine /\ items[i].id = oldest + i - 1
                        /\ items[i].row = messages[items[i].id]
                        /\ RowClaim(items[i].id, items[i].row)
  <2> SUFFICES ASSUME NEW i \in 1 .. n
               PROVE  /\ items[i] \in KnownLine /\ items[i].id = oldest + i - 1
                      /\ items[i].row = messages[items[i].id]
                      /\ RowClaim(items[i].id, items[i].row)
    OBVIOUS
  <2>1. PICK m \in DOMAIN messages : m = oldest + i - 1
    BY <1>5
  <2>2. items[i] = Shown(m, messages[m]) /\ m \in Nat /\ messages[m] \in Row
    BY <1>5, <1>6, <2>1
  <2>. QED
    BY <2>1, <2>2 DEF Shown, KnownLine, RowClaim
<1>8. items \in [1 .. n -> KnownLine]
  BY <1>7, <1>d
<1>9. items \in Seq(KnownLine) /\ DOMAIN items = 1 .. n /\ Len(items) = n
  <2>1. items \in Seq(KnownLine)
    BY <1>3, <1>8, SeqDef
  <2>2. DOMAIN items = 1 .. n /\ DOMAIN items = 1 .. Len(items) /\ Len(items) \in Nat
    BY <1>8, <2>1, LenProperties
  <2>. QED
    BY <1>3, <2>1, <2>2
<1>10. Lists(items)
  BY <1>7, <1>9 DEF Lists
<1>11. n >= 1 => items # <<>> /\ items[1].id = oldest
  <2> SUFFICES ASSUME n >= 1 PROVE items # <<>> /\ items[1].id = oldest
    OBVIOUS
  <2>1. 1 \in 1 .. n
    BY <1>3
  <2>2. items[1].id = oldest + 1 - 1
    BY <1>7, <2>1
  <2>3. items # <<>>
    BY <1>9, <2>1, EmptySeq
  <2>. QED
    BY <1>3, <2>2, <2>3
<1>12. JoinsUp(items, next)
  <2>1. \A i \in DOMAIN items : items[i].id = items[1].id + i - 1
    <3> SUFFICES ASSUME NEW i \in 1 .. n PROVE items[i].id = items[1].id + i - 1
      BY <1>9
    <3>1. items[1].id = oldest /\ items[i].id = oldest + i - 1
      BY <1>3, <1>7, <1>11
    <3> QED
      BY <1>3, <3>1
  <2>2. items # <<>> => n >= 1
    BY <1>3, <1>9, EmptySeq, LenProperties
  <2>. QED
    BY <1>4, <1>11, <2>1, <2>2 DEF JoinsUp
<1>13. Page(cursor) \in Fetched /\ Page(cursor).items = items /\ Page(cursor).nextCursor = next
  BY <1>1, <1>3, <1>9 DEF Fetched
<1>14. cursor # NoCursor => Fits(Page(cursor), cursor)
  <2> SUFFICES ASSUME cursor # NoCursor PROVE Fits(Page(cursor), cursor)
    OBVIOUS
  <2>1. last = cursor - 1 /\ last >= 1 /\ n >= 1 /\ oldest <= last
    BY <1>3, <1>4
  <2>2. next <= cursor /\ Len(items) = cursor - items[1].id
    BY <1>c, <1>3, <1>4, <1>9, <1>11, <2>1 DEF NoCursor
  <2>. QED
    BY <1>3, <1>10, <1>11, <1>12, <1>13, <2>1, <2>2 DEF Fits
<1>. QED
  BY <1>3, <1>4, <1>10, <1>11, <1>12, <1>13, <1>14

LEMMA RenderStep == ASSUME ChatInv, NEW v \in Viewers, Render(v) PROVE ChatInv'
<1>. PICK read : read = Page(NoCursor)
  OBVIOUS
<1>. PICK page : page = [open |-> "rendered", history |-> read.items, live |-> <<>>,
                         nextCursor |-> read.nextCursor, older |-> NoPage,
                         first |-> IF read.nextCursor = NoCursor THEN 1 ELSE read.nextCursor]
  OBVIOUS
<1>1. /\ read \in Fetched /\ Lists(read.items) /\ JoinsUp(read.items, read.nextCursor)
      /\ read.nextCursor # 1 /\ (read.nextCursor # NoCursor => read.items # <<>>)
  BY PageRead DEF NoCursor
<1>2. Lists(<<>>) /\ <<>> \in Seq(KnownLine) /\ DOMAIN <<>> = {}
  BY EmptySeq DEF Lists
<1>3. page \in Pages
  BY <1>1, <1>2 DEF Pages, Fetched
<1>4. PageOK(page)
  <2>1. page.nextCursor <= page.first
    BY <1>1 DEF Fetched, NoCursor
  <2>2. Once(page)
    BY <1>2 DEF Once
  <2>. QED
    BY <1>1, <1>2, <1>3, <2>1, <2>2 DEF PageOK
<1>5. thread' = [thread EXCEPT ![v] = page] /\ knownRows' = [knownRows EXCEPT ![v] = <<>>]
  BY DEF Render
<1>. QED
  BY <1>4, <1>5, NothingKnown, PageChanges DEF Render

LEMMA JoinsStep == ASSUME ChatInv, NEW v \in Viewers, Joins(v) PROVE ChatInv'
<1>. PICK page : page = [thread[v] EXCEPT !.open = "live"]
  OBVIOUS
<1>1. PageOK(thread[v])
  BY OpenPage DEF Joins
<1>2. /\ page \in Pages /\ page.history = thread[v].history /\ page.live = thread[v].live
      /\ page.nextCursor = thread[v].nextCursor /\ page.older = thread[v].older
      /\ page.first = thread[v].first
  BY <1>1 DEF PageOK, Pages
<1>3. PageOK(page)
  BY <1>1, <1>2 DEF PageOK, Once
<1>4. thread' = [thread EXCEPT ![v] = page]
  BY DEF Joins, ChatInv, ThreadsKept
<1>. QED
  BY <1>3, <1>4, OnlyPageChanges DEF Joins

LEMMA LoadOlderStep == ASSUME ChatInv, NEW v \in Viewers, LoadOlder(v) PROVE ChatInv'
<1>. PICK old : old = thread[v]
  OBVIOUS
<1>. PICK read : read = Page(old.nextCursor)
  OBVIOUS
<1>. PICK page : page = [old EXCEPT !.older = read]
  OBVIOUS
<1>1. PageOK(old) /\ old.nextCursor # NoCursor
  BY OpenPage DEF LoadOlder
<1>2. old.nextCursor \in Nat /\ old.nextCursor \in DOMAIN messages \ {1}
  <2>1. old.history # <<>> /\ old.history \in Seq(KnownLine) /\ Lists(old.history)
    BY <1>1 DEF PageOK, Pages
  <2>2. 1 \in DOMAIN old.history
    BY <2>1, EmptySeq, LenProperties
  <2>3. old.history[1].id = old.nextCursor /\ old.history[1].id \in DOMAIN messages
    BY <1>1, <2>1, <2>2 DEF PageOK, JoinsUp, Lists, RowClaim
  <2>. QED
    BY <1>1, <2>3 DEF PageOK, Pages
<1>3. read \in Fetched /\ Fits(read, old.nextCursor)
  BY <1>1, <1>2, PageRead
<1>4. /\ page \in Pages /\ page.history = old.history /\ page.live = old.live
      /\ page.nextCursor = old.nextCursor /\ page.older = read /\ page.first = old.first
  BY <1>1, <1>3 DEF PageOK, Pages
<1>5. PageOK(page)
  BY <1>1, <1>3, <1>4 DEF PageOK, Once
<1>6. thread' = [thread EXCEPT ![v] = page]
  BY DEF LoadOlder, ChatInv, ThreadsKept
<1>. QED
  BY <1>5, <1>6, OnlyPageChanges DEF LoadOlder

\* What a page shows, and what was fetched before it, in one stretch.
Joined(all, cursor, page) ==
    /\ Lists(all) /\ JoinsUp(all, cursor) /\ all # <<>>
    /\ \A i \in DOMAIN all : \/ all[i].id < page.nextCursor
                             \/ \E j \in DOMAIN page.history : all[i] = page.history[j]

\* Two stretches that meet are one.
LEMMA StretchesMeet ==
    ASSUME NEW fetched, NEW page, PageOK(page), page.nextCursor # NoCursor,
           Fits(fetched, page.nextCursor)
    PROVE  Joined(fetched.items \o page.history, fetched.nextCursor, page)
<1>a. PICK a : a = fetched.items
  OBVIOUS
<1>b. PICK b : b = page.history
  OBVIOUS
<1>c. PICK all : all = a \o b
  OBVIOUS
<1>k. PICK k : k = Len(a)
  OBVIOUS
<1>1. /\ a \in Seq(KnownLine) /\ b \in Seq(KnownLine) /\ a # <<>> /\ b # <<>>
      /\ Lists(a) /\ Lists(b) /\ page.nextCursor \in Nat
  BY <1>a, <1>b DEF PageOK, Pages, Fits, Fetched
<1>2. /\ DOMAIN a = 1 .. k /\ k \in Nat \ {0} /\ DOMAIN b = 1 .. Len(b) /\ Len(b) \in Nat \ {0}
  BY <1>1, <1>k, EmptySeq, LenProperties
<1>3. /\ all \in Seq(KnownLine) /\ Len(all) = k + Len(b) /\ DOMAIN all = 1 .. k + Len(b)
      /\ \A i \in 1 .. k + Len(b) : all[i] = IF i <= k THEN a[i] ELSE b[i - k]
  <2>1. /\ a \o b \in Seq(KnownLine) /\ Len(a \o b) = Len(a) + Len(b)
        /\ \A i \in 1 .. Len(a) + Len(b) : (a \o b)[i] = IF i <= Len(a) THEN a[i] ELSE b[i - Len(a)]
    BY <1>1, ConcatProperties
  <2>2. DOMAIN (a \o b) = 1 .. Len(a) + Len(b)
    BY <2>1, LenProperties
  <2>. QED
    BY <1>c, <1>k, <2>1, <2>2
<1>4. \A i \in DOMAIN all : \/ i \in DOMAIN a /\ all[i] = a[i]
                            \/ i - k \in DOMAIN b /\ all[i] = b[i - k] /\ i > k
  <2> SUFFICES ASSUME NEW i \in 1 .. k + Len(b)
               PROVE  \/ i \in DOMAIN a /\ all[i] = a[i]
                      \/ i - k \in DOMAIN b /\ all[i] = b[i - k] /\ i > k
    BY <1>3
  <2>1. i \in Nat /\ i >= 1 /\ i <= k + Len(b)
    BY <1>2
  <2>2. CASE i <= k
    BY <1>2, <1>3, <2>1, <2>2
  <2>3. CASE i > k
    BY <1>2, <1>3, <2>1, <2>3
  <2>. QED
    BY <1>2, <2>1, <2>2, <2>3
<1>5. /\ \A i \in DOMAIN a : a[i].id = a[1].id + i - 1
      /\ \A j \in DOMAIN b : b[j].id = b[1].id + j - 1
      /\ a[1].id \in Nat /\ b[1].id = page.nextCursor /\ k = page.nextCursor - a[1].id
  <2>1. a[1] \in KnownLine
    BY <1>1, <1>2, ElementOfSeq
  <2>. QED
    BY <1>1, <1>a, <1>b, <1>k, <2>1 DEF Fits, JoinsUp, PageOK, KnownLine
<1>6. all[1] = a[1]
  <2>1. 1 \in 1 .. k + Len(b) /\ 1 <= k
    BY <1>2
  <2>. QED
    BY <1>3, <2>1
<1>7. \A i \in DOMAIN all : all[i].id = all[1].id + i - 1
  <2> SUFFICES ASSUME NEW i \in DOMAIN all PROVE all[i].id = a[1].id + i - 1
    BY <1>6
  <2>1. i \in Nat
    BY <1>3
  <2>2. CASE i \in DOMAIN a /\ all[i] = a[i]
    BY <1>5, <2>2
  <2>3. CASE i - k \in DOMAIN b /\ all[i] = b[i - k]
    <3>1. b[i - k].id = b[1].id + (i - k) - 1
      BY <1>5, <2>3
    <3>2. all[i].id = page.nextCursor + (i - k) - 1
      BY <1>5, <2>3, <3>1
    <3>3. a[1].id \in Nat /\ page.nextCursor \in Nat /\ k \in Nat /\ k = page.nextCursor - a[1].id
      BY <1>1, <1>2, <1>5
    <3>. QED
      BY <2>1, <3>2, <3>3
  <2>. QED
    BY <1>4, <2>2, <2>3
<1>8. all # <<>>
  BY <1>2, <1>3, EmptySeq
<1>9. JoinsUp(all, fetched.nextCursor)
  BY <1>1, <1>a, <1>6, <1>7, <1>8 DEF JoinsUp, Fits
<1>10. Lists(all)
  BY <1>1, <1>3, <1>4 DEF Lists
<1>11. \A i \in DOMAIN a : a[i].id < page.nextCursor
  <2> SUFFICES ASSUME NEW i \in 1 .. k PROVE a[i].id < page.nextCursor
    BY <1>2
  <2>1. a[i].id = a[1].id + i - 1
    BY <1>2, <1>5
  <2>. QED
    BY <1>1, <1>2, <1>5, <2>1
<1>. QED
  <2>1. \A i \in DOMAIN all : \/ all[i].id < page.nextCursor
                             \/ \E j \in DOMAIN page.history : all[i] = page.history[j]
    BY <1>4, <1>11, <1>b
  <2>2. Joined(all, fetched.nextCursor, page)
    BY <1>8, <1>9, <1>10, <2>1 DEF Joined
  <2>. QED
    BY <1>a, <1>b, <1>c, <2>2

LEMMA OlderArrivesStep == ASSUME ChatInv, NEW v \in Viewers, OlderArrives(v) PROVE ChatInv'
<1>. PICK old : old = thread[v]
  OBVIOUS
<1>b. PICK all : all = old.older.items \o old.history
  OBVIOUS
<1>c. PICK page : page = [old EXCEPT !.history = all, !.nextCursor = old.older.nextCursor,
                                    !.older = NoPage]
  OBVIOUS
<1>1. PageOK(old) /\ old.older # NoPage
  BY OpenPage DEF OlderArrives
<1>2. old.nextCursor # NoCursor /\ Fits(old.older, old.nextCursor)
  BY <1>1 DEF PageOK
<1>3. /\ Lists(all) /\ JoinsUp(all, old.older.nextCursor) /\ all # <<>>
      /\ \A i \in DOMAIN all : \/ all[i].id < old.nextCursor
                               \/ \E j \in DOMAIN old.history : all[i] = old.history[j]
  <2>1. Joined(old.older.items \o old.history, old.older.nextCursor, old)
    BY <1>1, <1>2, StretchesMeet
  <2>. QED
    BY <1>b, <2>1 DEF Joined
<1>4. /\ old.older.nextCursor \in Nat /\ old.nextCursor \in Nat /\ old.first \in Nat
      /\ old.older.nextCursor # 1 /\ old.older.nextCursor <= old.first
      /\ old.nextCursor <= old.first
  BY <1>1, <1>2 DEF PageOK, Pages, Fits, Fetched
<1>5. /\ page \in Pages /\ page.history = all /\ page.live = old.live
      /\ page.nextCursor = old.older.nextCursor /\ page.older = NoPage /\ page.first = old.first
  BY <1>1, <1>3, <1>4, <1>c DEF PageOK, Pages, Lists
<1>6. Once(page)
  <2>1. ASSUME NEW i \in DOMAIN all, NEW j \in DOMAIN old.live, all[i].id = old.live[j].id
        PROVE  old.live[j].id < old.first
    <3>0. old.live[j].id \in Nat
      <4>1. old.live \in Seq(KnownLine)
        BY <1>1 DEF PageOK, Lists
      <4>2. old.live[j] \in KnownLine
        BY <4>1, ElementOfSeq, LenProperties
      <4>. QED
        BY <4>2 DEF KnownLine
    <3>1. CASE all[i].id < old.nextCursor
      BY <1>4, <2>1, <3>0, <3>1
    <3>2. CASE \E h \in DOMAIN old.history : all[i] = old.history[h]
      BY <1>1, <2>1, <3>2 DEF PageOK, Once
    <3>. QED
      BY <1>3, <3>1, <3>2
  <2>2. \A i, j \in DOMAIN old.live : i # j => old.live[i].id # old.live[j].id
    BY <1>1 DEF PageOK, Once
  <2>. QED
    BY <1>5, <2>1, <2>2 DEF Once
<1>7. PageOK(page)
  BY <1>1, <1>3, <1>4, <1>5, <1>6 DEF PageOK
<1>8. thread' = [thread EXCEPT ![v] = page]
  BY <1>b, <1>c DEF OlderArrives, ChatInv, ThreadsKept
<1>. QED
  BY <1>7, <1>8, OnlyPageChanges DEF OlderArrives

LEMMA OlderFailsStep == ASSUME ChatInv, NEW v \in Viewers, OlderFails(v) PROVE ChatInv'
<1>. PICK page : page = [thread[v] EXCEPT !.older = NoPage]
  OBVIOUS
<1>1. PageOK(thread[v])
  BY OpenPage DEF OlderFails
<1>2. /\ page \in Pages /\ page.history = thread[v].history /\ page.live = thread[v].live
      /\ page.nextCursor = thread[v].nextCursor /\ page.older = NoPage /\ page.first = thread[v].first
  BY <1>1 DEF PageOK, Pages
<1>3. PageOK(page)
  BY <1>1, <1>2 DEF PageOK, Once
<1>4. thread' = [thread EXCEPT ![v] = page]
  BY DEF OlderFails, ChatInv, ThreadsKept
<1>. QED
  BY <1>3, <1>4, OnlyPageChanges DEF OlderFails

LEMMA CloseThreadStep == ASSUME ChatInv, NEW v \in Viewers, CloseThread(v) PROVE ChatInv'
BY NothingKnown, PageChanges DEF CloseThread

LEMMA EventArrivesStep == ASSUME ChatInv, NEW v \in Viewers, EventArrives(v) PROVE ChatInv'
<1>1. PICK e \in events : MessageArrives(v, e) \/ ReadArrives(v, e)
  BY DEF EventArrives
<1>2. PageOK(thread[v]) /\ Known(knownRows[v])
  BY OpenPage DEF EventArrives, ChatInv, KnownKept
<1>3. DOMAIN messages \subseteq Nat
  BY LenProperties DEF ChatInv, RowsTyped
<1>4. Truthful(e)
  BY DEF ChatInv, EventsTrue
<1>5. ASSUME NEW page, PageOK(page), thread' = [thread EXCEPT ![v] = page],
             NEW rows, Known(rows), knownRows' = [knownRows EXCEPT ![v] = rows]
      PROVE  ChatInv'
  BY <1>5, PageChanges DEF EventArrives
<1>6. CASE MessageArrives(v, e)
  <2>1. RowClaim(e.id, e.row) /\ e.id \in Nat
    BY <1>3, <1>4, <1>6 DEF MessageArrives, Truthful, RowClaim
  <2>. PICK rows : rows = Remembered(v, e.id, e.row)
    OBVIOUS
  <2>2. Known(rows)
    BY <1>2, <2>1 DEF Known, Remembered
  <2>. PICK one : one = [id \in {e.id} |-> e.row]
    OBVIOUS
  <2>3. \A m \in DOMAIN one : m \in Nat /\ RowClaim(m, one[m])
    BY <2>1
  <2>. PICK page : page = IF e.type = "message" THEN HandleMessageInsert(thread[v], e.id, e.row)
                          ELSE HandleMessageUpdates(thread[v], one)
    OBVIOUS
  <2>4. PageOK(page)
    BY <1>2, <2>1, <2>3, LineAdded, PageUpdated
  <2>5. thread' = [thread EXCEPT ![v] = page] /\ knownRows' = [knownRows EXCEPT ![v] = rows]
    BY <1>6 DEF MessageArrives, ChatInv, ThreadsKept
  <2>. QED
    BY <1>5, <2>2, <2>4, <2>5
<1>7. CASE ReadArrives(v, e)
  <2>. PICK known : known = knownRows[v]
    OBVIOUS
  <2>. PICK marked : marked = [id \in e.ids \cap DOMAIN known |-> [known[id] EXCEPT !.read = TRUE]]
    OBVIOUS
  <2>. PICK rows : rows = [id \in DOMAIN known |-> IF id \in e.ids THEN marked[id] ELSE known[id]]
    OBVIOUS
  <2>1. \A m \in e.ids : m \in DOMAIN messages /\ messages[m].read
    BY <1>4, <1>7 DEF ReadArrives, Truthful
  <2>2. \A m \in DOMAIN known : RowClaim(m, known[m])
    BY <1>2 DEF Known
  <2>3. ASSUME NEW m \in DOMAIN marked PROVE m \in Nat /\ RowClaim(m, marked[m])
    <3>1. m \in DOMAIN known /\ m \in e.ids /\ marked[m] = [known[m] EXCEPT !.read = TRUE]
      BY <2>3
    <3>2. known[m] \in Row
      BY <2>2, <3>1 DEF RowClaim
    <3>3. marked[m] \in Row
      BY <3>1, <3>2 DEF Row
    <3>. QED
      BY <1>3, <2>1, <3>1, <3>3 DEF RowClaim
  <2>4. Known(rows)
    BY <2>2, <2>3 DEF Known
  <2>. PICK page : page = HandleMessageUpdates(thread[v], marked)
    OBVIOUS
  <2>5. PageOK(page)
    BY <1>2, <2>3, PageUpdated
  <2>6. thread' = [thread EXCEPT ![v] = page] /\ knownRows' = [knownRows EXCEPT ![v] = rows]
    BY <1>7 DEF ReadArrives, ChatInv, ThreadsKept, KnownKept
  <2>. QED
    BY <1>5, <2>4, <2>5, <2>6
<1>. QED
  BY <1>1, <1>6, <1>7

LEMMA ChatStep == ChatInv /\ [ChatNext]_chatVars => ChatInv'
<1>. SUFFICES ASSUME ChatInv, [ChatNext]_chatVars PROVE ChatInv'
  OBVIOUS
<1>1. ASSUME NEW u \in Participants,
             \/ SendChecks(u) \/ SendWrites(u) \/ EditReads(u) \/ EditWrites(u)
             \/ MarkReads(u) \/ MarkWrites(u) \/ \E m \in 1 .. MaxMessages : Delete(u, m)
      PROVE  ChatInv'
  BY <1>1, SendChecksStep, SendWritesStep, EditReadsStep, EditWritesStep, MarkReadsStep,
     MarkWritesStep, DeleteMessageStep
<1>2. ASSUME NEW u \in Participants,
             ActionFails(u) \/ DeleteChat(u) \/ Block(u) \/ Unblock(u) \/ Reopen
      PROVE  ChatInv'
  BY <1>2, ConversationStep
<1>3. ASSUME NEW v \in Viewers,
             \/ Render(v) \/ Joins(v) \/ CloseThread(v) \/ EventArrives(v)
             \/ LoadOlder(v) \/ OlderArrives(v) \/ OlderFails(v)
      PROVE  ChatInv'
  BY <1>3, RenderStep, JoinsStep, CloseThreadStep, EventArrivesStep, LoadOlderStep, OlderArrivesStep,
     OlderFailsStep
<1>4. CASE UNCHANGED chatVars
  <2>1. RowsTyped' /\ ActionsAimed'
    BY <1>4 DEF chatVars, ChatInv, RowsTyped, DeletedChatMissesNothing, ActionsAimed, Doing
  <2>. QED
    BY <1>4, <2>1, RowsRest DEF chatVars, ChatInv
<1>5. Buyer \in Participants
  BY DEF Participants
<1>. QED
  BY <1>1, <1>2, <1>3, <1>4, <1>5 DEF ChatNext

(***************************************************************************)
(* The inductive invariant of a conversation: whatever travels or is shown *)
(* of a row - an event, a line of a thread, a row a hook remembers - is of *)
(* a message there is and claims a reading only if the row has it, and     *)
(* rows only grow in number and are never unread (chat-service.ts,         *)
(* chat-thread.tsx, use-chat-socket.ts).                                   *)
(***************************************************************************)
THEOREM ChatInvariant == ChatSpec => []ChatInv
<1>. QED
  BY ChatStart, ChatStep, PTL DEF ChatSpec

(***************************************************************************)
(* However events come - late, twice, in another order, or not at all -    *)
(* and older pages are loaded: the pages join up without gap or repetition,*)
(* no message of the first page or newer is shown twice, none as read that *)
(* was not, and a deleted conversation comes back to whoever is written to *)
(* (chat-thread.tsx, use-chat-socket.ts, chat-service.ts:86-125, 331-360). *)
(***************************************************************************)
THEOREM ThreadsTellTheTruth == ChatSpec => []ThreadSound
<1>. QED
  BY ChatInvariant, ChatShows, PTL

-------------------------------------------------------------------------------
(***************************************************************************)
(* The limiter (RateLimit). Every request of the window counted since the  *)
(* set was lost is in the set.                                             *)
(***************************************************************************)
HitRecords ==
    [pc : {"none"}] \cup [pc : {"waiting", "open", "closed"}, now : Nat]
                    \cup [pc : {"allowed", "refused"}, now : Nat, epoch : Nat]
                    \cup [pc : {"lost"}, told : {"open", "closed"}, now : Nat, epoch : Nat]

LimiterTyped ==
    /\ time \in Nat /\ flushes \in Nat
    /\ hit \in [Hits -> HitRecords]
    /\ entries \subseteq Hits

\* No request is older than its latency, or from the future.
ClocksFresh == \A r \in Hits :
    /\ hit[r].pc # "none" => hit[r].now <= time
    /\ Waiting(r) => time <= hit[r].now + MaxLatency

\* The set holds requests counted since it was lost, and every one of the window.
EntriesOfEpoch == \A q \in entries : Counted(q) /\ hit[q].epoch = flushes
WindowKept ==
    \A q \in Hits : Counted(q) /\ hit[q].epoch = flushes /\ hit[q].now > time - Window => q \in entries
EpochsPast == \A q \in Hits : Counted(q) => hit[q].epoch <= flushes

LimiterInv ==
    /\ LimiterTyped /\ ClocksFresh /\ EntriesOfEpoch /\ WindowKept /\ EpochsPast
    /\ LimiterSound

\* The requests that the two properties count.
AllowedWith(r) ==
    {q \in Hits :
        /\ hit[q].pc = "allowed"
        /\ hit[q].epoch = hit[r].epoch
        /\ hit[q].now \in hit[r].now - (Window - MaxLatency) + 1 .. hit[r].now}

OthersWith(r) ==
    {q \in Hits \ {r} :
        /\ Counted(q)
        /\ hit[q].epoch = hit[r].epoch
        /\ hit[q].now > hit[r].now - Window}

-------------------------------------------------------------------------------
LEMMA Counts ==
    ASSUME NEW S \in SUBSET Hits
    PROVE  /\ IsFiniteSet(S) /\ Cardinality(S) \in Nat
           /\ \A T \in SUBSET S : IsFiniteSet(T) /\ Cardinality(T) \in Nat /\ Cardinality(T) <= Cardinality(S)
<1>1. MaxHits \in Nat
  BY LimiterAssumption
<1>2. IsFiniteSet(Hits)
  BY <1>1, FS_Interval DEF Hits
<1>3. IsFiniteSet(S)
  BY <1>2, FS_Subset
<1>4. ASSUME NEW T \in SUBSET S
      PROVE  IsFiniteSet(T) /\ Cardinality(T) \in Nat /\ Cardinality(T) <= Cardinality(S)
  BY <1>3, FS_Subset, FS_CardinalityType
<1>. QED
  BY <1>3, <1>4, FS_CardinalityType

LEMMA Sound ==
    LimiterSound <=>
        /\ \A r \in Hits : hit[r].pc = "allowed" => Cardinality(AllowedWith(r)) <= Limit
        /\ \A r \in Hits : hit[r].pc = "refused" => Cardinality(OthersWith(r)) >= Limit
  BY DEF LimiterSound, WindowsHoldTheLimit, RefusedForOthersInWindow, AllowedWith, OthersWith

LEMMA HitTyping ==
    ASSUME LimiterTyped, NEW r \in Hits
    PROVE  /\ hit[r].pc \in {"none", "waiting", "open", "closed", "allowed", "refused", "lost"}
           /\ hit[r].pc # "none" => hit[r].now \in Nat
           /\ Counted(r) => hit[r].epoch \in Nat
<1>1. hit[r] \in HitRecords
  BY DEF LimiterTyped
<1>. QED
  BY <1>1 DEF HitRecords, Counted

LEMMA LimiterStart == LimiterInit => LimiterInv
<1>. SUFFICES ASSUME LimiterInit PROVE LimiterInv
  OBVIOUS
<1>1. \A r \in Hits : hit[r].pc = "none"
  BY DEF LimiterInit
<1>2. LimiterTyped
  BY DEF LimiterInit, LimiterTyped, HitRecords
<1>3. LimiterSound
  BY <1>1, Sound
<1>. QED
  BY <1>1, <1>2, <1>3 DEF LimiterInit, LimiterInv, ClocksFresh, EntriesOfEpoch, WindowKept,
                          EpochsPast, Waiting, Counted

\* What is decided stays as it was decided.
CountedStays == \A q \in Hits : Counted(q) => hit'[q] = hit[q]

\* A step that decides nothing changes no count.
LEMMA NothingCounted ==
    ASSUME LimiterInv, CountedStays, \A q \in Hits : Counted(q)' => Counted(q)
    PROVE  LimiterSound'
<1>1. \A q \in Hits : Counted(q)' <=> Counted(q)
  BY DEF CountedStays, Counted
<1>2. ASSUME NEW r \in Hits, hit'[r].pc = "allowed" PROVE Cardinality(AllowedWith(r)') <= Limit
  <2>1. hit'[r] = hit[r]
    BY <1>1, <1>2 DEF CountedStays, Counted
  <2>2. AllowedWith(r)' = AllowedWith(r)
    BY <1>1, <2>1 DEF AllowedWith, CountedStays, Counted
  <2>. QED
    BY <1>2, <2>1, <2>2, Sound DEF LimiterInv
<1>3. ASSUME NEW r \in Hits, hit'[r].pc = "refused" PROVE Cardinality(OthersWith(r)') >= Limit
  <2>1. hit'[r] = hit[r]
    BY <1>1, <1>3 DEF CountedStays, Counted
  <2>2. OthersWith(r)' = OthersWith(r)
    BY <1>1, <2>1 DEF OthersWith, CountedStays
  <2>. QED
    BY <1>3, <2>1, <2>2, Sound DEF LimiterInv
<1>4. /\ \A r \in Hits : hit'[r].pc = "allowed" => Cardinality(AllowedWith(r)') <= Limit
      /\ \A r \in Hits : hit'[r].pc = "refused" => Cardinality(OthersWith(r)') >= Limit
  BY <1>2, <1>3
<1>. QED
  BY <1>4 DEF LimiterSound, WindowsHoldTheLimit, RefusedForOthersInWindow, AllowedWith, OthersWith

LEMMA ReadClockStep == ASSUME LimiterInv, NEW r \in Hits, ReadClock(r) PROVE LimiterInv'
<1>1. /\ hit[r].pc = "none" /\ time \in Nat
      /\ [pc |-> "waiting", now |-> time] \in HitRecords
  BY DEF ReadClock, LimiterInv, LimiterTyped, HitRecords
<1>2. /\ hit' \in [Hits -> HitRecords]
      /\ \A q \in Hits : hit'[q] = IF q = r THEN [pc |-> "waiting", now |-> time] ELSE hit[q]
      /\ UNCHANGED <<time, entries, flushes>>
  BY <1>1 DEF ReadClock, LimiterInv, LimiterTyped
<1>3. CountedStays /\ \A q \in Hits : Counted(q)' => Counted(q)
  BY <1>1, <1>2 DEF CountedStays, Counted
<1>4. LimiterSound'
  BY <1>3, NothingCounted
<1>5. LimiterTyped'
  BY <1>2 DEF LimiterInv, LimiterTyped
<1>6. ClocksFresh'
  <2>1. time <= time /\ time <= time + MaxLatency
    BY <1>1, LimiterAssumption
  <2>2. ASSUME NEW q \in Hits
        PROVE  /\ hit'[q].pc # "none" => hit'[q].now <= time
               /\ hit'[q].pc = "waiting" => time <= hit'[q].now + MaxLatency
    BY <1>2, <2>1 DEF LimiterInv, ClocksFresh, Waiting
  <2>. QED
    BY <1>2, <2>2 DEF ClocksFresh, Waiting
<1>7. EntriesOfEpoch' /\ WindowKept' /\ EpochsPast'
  <2>1. \A q \in Hits : Counted(q)' => Counted(q) /\ hit'[q] = hit[q]
    BY <1>3 DEF CountedStays
  <2>2. \A q \in entries : q \in Hits /\ Counted(q)' /\ hit'[q] = hit[q]
    BY <1>1, <1>2 DEF LimiterInv, LimiterTyped, EntriesOfEpoch, Counted
  <2>. QED
    BY <1>2, <2>1, <2>2 DEF LimiterInv, EntriesOfEpoch, WindowKept, EpochsPast
<1>. QED
  BY <1>4, <1>5, <1>6, <1>7 DEF LimiterInv

LEMMA DegradedStep == ASSUME LimiterInv, NEW r \in Hits, Degraded(r) PROVE LimiterInv'
<1>. DEFINE next == [pc |-> ByTheSetting, now |-> hit[r].now]
<1>1. /\ hit[r].pc = "waiting" /\ hit[r].now \in Nat
      /\ next \in HitRecords /\ next.pc \in {"open", "closed"} /\ next.now = hit[r].now
  BY HitTyping DEF Degraded, ByTheSetting, LimiterInv, HitRecords, Waiting
<1>. HIDE DEF next
<1>2. /\ hit' \in [Hits -> HitRecords]
      /\ \A q \in Hits : hit'[q] = IF q = r THEN next ELSE hit[q]
      /\ UNCHANGED <<time, entries, flushes>>
  BY <1>1 DEF Degraded, LimiterInv, LimiterTyped, next
<1>3. CountedStays /\ \A q \in Hits : Counted(q)' => Counted(q)
  BY <1>1, <1>2 DEF CountedStays, Counted
<1>4. LimiterSound'
  BY <1>3, NothingCounted
<1>5. LimiterTyped'
  BY <1>2 DEF LimiterInv, LimiterTyped
<1>6. ClocksFresh'
  BY <1>1, <1>2 DEF LimiterInv, ClocksFresh, Waiting
<1>7. EntriesOfEpoch' /\ WindowKept' /\ EpochsPast'
  <2>1. \A q \in Hits : Counted(q)' => Counted(q) /\ hit'[q] = hit[q]
    BY <1>3 DEF CountedStays
  <2>2. \A q \in entries : q \in Hits /\ Counted(q)' /\ hit'[q] = hit[q]
    BY <1>1, <1>2 DEF LimiterInv, LimiterTyped, EntriesOfEpoch, Counted
  <2>. QED
    BY <1>2, <2>1, <2>2 DEF LimiterInv, EntriesOfEpoch, WindowKept, EpochsPast
<1>. QED
  BY <1>4, <1>5, <1>6, <1>7 DEF LimiterInv

LEMMA FlushStep == ASSUME LimiterInv, Flush PROVE LimiterInv'
<1>1. flushes' = flushes + 1 /\ flushes \in Nat /\ entries' = {} /\ UNCHANGED <<time, hit>>
  BY DEF Flush, LimiterInv, LimiterTyped
<1>2. \A q \in Hits : Counted(q)' <=> Counted(q)
  BY <1>1 DEF Counted
<1>3. LimiterSound'
  BY <1>1, <1>2, NothingCounted DEF CountedStays
<1>4. LimiterTyped' /\ ClocksFresh'
  BY <1>1 DEF LimiterInv, LimiterTyped, ClocksFresh, Waiting
<1>5. ASSUME NEW q \in Hits, Counted(q) PROVE hit[q].epoch <= flushes' /\ hit[q].epoch # flushes'
  BY <1>1, <1>5, HitTyping DEF LimiterInv, EpochsPast
<1>6. EntriesOfEpoch' /\ WindowKept' /\ EpochsPast'
  BY <1>1, <1>2, <1>5 DEF EntriesOfEpoch, WindowKept, EpochsPast
<1>. QED
  BY <1>3, <1>4, <1>6 DEF LimiterInv

LEMMA TimePassesStep == ASSUME LimiterInv, TimePasses PROVE LimiterInv'
<1>1. time' = time + 1 /\ time \in Nat /\ UNCHANGED <<hit, entries, flushes>>
  BY DEF TimePasses, LimiterInv, LimiterTyped
<1>2. \A q \in Hits : (Counted(q)' <=> Counted(q)) /\ (Waiting(q)' <=> Waiting(q))
  BY <1>1 DEF Counted, Waiting
<1>3. LimiterSound'
  BY <1>1, <1>2, NothingCounted DEF CountedStays
<1>4. LimiterTyped'
  BY <1>1 DEF LimiterInv, LimiterTyped
<1>5. ClocksFresh'
  <2>1. ASSUME NEW r \in Hits, hit[r].pc # "none"
        PROVE  hit[r].now <= time + 1 /\ (Waiting(r) => time + 1 <= hit[r].now + MaxLatency)
    <3>1. hit[r].now \in Nat /\ hit[r].now <= time
      BY <2>1, HitTyping DEF LimiterInv, ClocksFresh
    <3>2. Waiting(r) => time < hit[r].now + MaxLatency
      BY DEF TimePasses
    <3>. QED
      BY <1>1, <3>1, <3>2, LimiterAssumption
  <2>2. \A r \in Hits : Waiting(r) => hit[r].pc # "none"
    BY DEF Waiting
  <2>. QED
    BY <1>1, <1>2, <2>1, <2>2 DEF ClocksFresh
<1>6. EntriesOfEpoch' /\ EpochsPast'
  BY <1>1, <1>2 DEF LimiterInv, LimiterTyped, EntriesOfEpoch, EpochsPast
<1>7. WindowKept'
  <2>1. ASSUME NEW q \in Hits, Counted(q), hit[q].now > (time + 1) - Window PROVE hit[q].now > time - Window
    <3>1. hit[q].now \in Nat
      BY <2>1, HitTyping DEF LimiterInv, Counted
    <3>. QED
      BY <1>1, <2>1, <3>1, LimiterAssumption
  <2>2. ASSUME NEW q \in Hits, Counted(q), hit[q].epoch = flushes, hit[q].now > (time + 1) - Window
        PROVE  q \in entries
    BY <2>1, <2>2 DEF LimiterInv, WindowKept
  <2>3. ASSUME NEW q \in Hits, Counted(q)', hit'[q].epoch = flushes', hit'[q].now > time' - Window
        PROVE  q \in entries'
    <3>1. Counted(q) /\ hit[q].epoch = flushes
      BY <1>1, <1>2, <2>3
    <3>2. time' = time + 1 /\ hit' = hit /\ entries' = entries
      BY <1>1
    <3>3. hit[q].now > (time + 1) - Window
      <4>1. hit[q].now > time' - Window
        BY <2>3, <3>2
      <4>. QED
        BY <3>2, <4>1
    <3>4. q \in entries
      BY <2>2, <3>1, <3>3
    <3>. QED
      BY <1>1, <3>4
  <2>. QED
    BY <2>3 DEF WindowKept
<1>. QED
  BY <1>3, <1>4, <1>5, <1>6, <1>7 DEF LimiterInv

-------------------------------------------------------------------------------
\* The arithmetic of windows: what a request that reached Redis prunes is out of
\* the window of now, and what a window with it holds is in the window of now.
LEMMA WindowArithmetic ==
    \A t, n, m, q, w, l \in Nat :
        l < w /\ n <= t /\ t <= n + l =>
            /\ q <= n - w => ~(q > t - w)
            /\ q > t - w => q > n - w
            /\ n <= m /\ q >= m - (w - l) + 1 => q > t - w
  OBVIOUS

\* A request is counted: who it is, what it finds, and what it is told.
LEMMA CountingStep ==
    ASSUME LimiterInv, NEW z \in Hits, Waiting(z), NEW next \in HitRecords,
           next.pc \in {"allowed", "refused", "lost"}, next.now = hit[z].now, next.epoch = flushes,
           next.pc = "allowed" => Cardinality(entries') <= Limit,
           next.pc = "refused" => ~(Cardinality(entries') <= Limit),
           entries' = Pruned(z) \cup {z}, hit' = [hit EXCEPT ![z] = next],
           UNCHANGED <<time, flushes>>
    PROVE  LimiterInv'
<1>1. /\ hit[z].pc = "waiting" /\ hit[z].now \in Nat /\ time \in Nat /\ flushes \in Nat
      /\ hit[z].now <= time /\ time <= hit[z].now + MaxLatency
  BY HitTyping DEF Waiting, LimiterInv, LimiterTyped, ClocksFresh
<1>2. /\ next \in HitRecords /\ next.pc \in {"allowed", "refused", "lost"}
      /\ next.now = hit[z].now /\ next.epoch = flushes
      /\ next.pc = "allowed" => Cardinality(entries') <= Limit
      /\ next.pc = "refused" => ~(Cardinality(entries') <= Limit)
  OBVIOUS
<1>3. /\ entries' = Pruned(z) \cup {z} /\ UNCHANGED <<time, flushes>>
      /\ hit' = [hit EXCEPT ![z] = next]
  OBVIOUS
<1>4. /\ hit' \in [Hits -> HitRecords]
      /\ \A q \in Hits : hit'[q] = IF q = z THEN next ELSE hit[q]
  BY <1>2, <1>3 DEF LimiterInv, LimiterTyped
<1>5. /\ Window \in Nat /\ MaxLatency \in Nat /\ MaxLatency < Window /\ Limit \in Nat
  BY LimiterAssumption
<1>6. entries' \subseteq Hits /\ \A q \in Hits : q \in Pruned(z) <=> q \in entries /\ hit[q].now > hit[z].now - Window
  BY <1>3 DEF Pruned, LimiterInv, LimiterTyped
<1>7. LimiterTyped'
  BY <1>3, <1>4, <1>6 DEF LimiterInv, LimiterTyped
<1>8. ClocksFresh'
  BY <1>1, <1>2, <1>3, <1>4 DEF LimiterInv, ClocksFresh, Waiting
<1>9. /\ CountedStays /\ ~Counted(z)
      /\ \A q \in Hits : Counted(q)' <=> Counted(q) \/ q = z
  BY <1>1, <1>2, <1>4 DEF CountedStays, Counted
<1>10. EntriesOfEpoch' /\ EpochsPast'
  <2>1. \A q \in Hits : q \in Pruned(z) => Counted(q)' /\ hit'[q].epoch = flushes
    BY <1>6, <1>9 DEF LimiterInv, EntriesOfEpoch, CountedStays
  <2>2. Counted(z)' /\ hit'[z].epoch = flushes
    BY <1>2, <1>4, <1>9
  <2>3. EntriesOfEpoch'
    BY <1>3, <1>6, <2>1, <2>2 DEF EntriesOfEpoch
  <2>4. \A q \in Hits : Counted(q)' => hit'[q].epoch <= flushes
    BY <1>1, <1>9, <2>2 DEF LimiterInv, EpochsPast, CountedStays
  <2>. QED
    BY <1>3, <2>3, <2>4 DEF EpochsPast
\* Who was counted since the set was lost, within the window of now, is in it.
<1>11. ASSUME NEW q \in Hits, Counted(q)', hit'[q].epoch = flushes, hit'[q].now > time - Window
       PROVE  q \in entries'
  <2>1. CASE q = z
    BY <1>3, <2>1
  <2>2. CASE q # z
    <3>1. Counted(q) /\ hit'[q] = hit[q]
      BY <1>9, <1>11, <2>2 DEF CountedStays
    <3>2. q \in entries /\ hit[q].now \in Nat
      BY <1>11, <3>1, HitTyping DEF LimiterInv, WindowKept, Counted
    <3>3. hit[q].now > hit[z].now - Window
      BY <1>1, <1>5, <1>11, <3>1, <3>2, WindowArithmetic
    <3>. QED
      BY <1>3, <1>6, <3>2, <3>3
  <2>. QED
    BY <2>1, <2>2
<1>12. WindowKept'
  BY <1>3, <1>11 DEF WindowKept
<1>13. ASSUME NEW r \in Hits, hit'[r].pc = "allowed" PROVE Cardinality(AllowedWith(r)') <= Limit
  <2>1. Counted(r)' /\ hit'[r].now \in Nat
    BY <1>7, <1>13, HitTyping, <1>1, <1>2, <1>4 DEF Counted, LimiterInv
  <2>2. CASE z \notin AllowedWith(r)'
    <3>1. r # z /\ hit'[r] = hit[r]
      <4>1. r = z => z \in AllowedWith(r)'
        <5>1. hit[z].now \in hit[z].now - (Window - MaxLatency) + 1 .. hit[z].now
          BY <1>1, <1>5
        <5>. QED
          BY <1>2, <1>4, <1>13, <5>1 DEF AllowedWith
      <4>. QED
        BY <1>4, <2>2, <4>1
    <3>2. AllowedWith(r)' \subseteq AllowedWith(r)
      BY <1>4, <2>2, <3>1 DEF AllowedWith
    <3>3. Cardinality(AllowedWith(r)) <= Limit
      BY <1>13, <3>1, Sound DEF LimiterInv
    <3>4. AllowedWith(r) \in SUBSET Hits
      BY DEF AllowedWith
    <3>. QED
      BY <1>5, <3>2, <3>3, <3>4, Counts
  <2>3. CASE z \in AllowedWith(r)'
    <3>1. /\ hit'[r].epoch = flushes /\ hit[z].now <= hit'[r].now
          /\ next.pc = "allowed"
      <4>1. hit'[z] = next /\ hit'[z].epoch = hit'[r].epoch /\ hit'[z].pc = "allowed"
        BY <1>4, <2>3 DEF AllowedWith
      <4>2. hit'[z].now \in hit'[r].now - (Window - MaxLatency) + 1 .. hit'[r].now
        BY <2>3 DEF AllowedWith
      <4>3. hit'[z].now <= hit'[r].now
        BY <1>5, <2>1, <4>2
      <4>. QED
        BY <1>2, <4>1, <4>3
    <3>2. AllowedWith(r)' \subseteq entries'
      <4>1. ASSUME NEW q \in Hits, q \in AllowedWith(r)' PROVE q \in entries'
        <5>1. /\ Counted(q)' /\ hit'[q].epoch = flushes
              /\ hit'[q].now \in hit'[r].now - (Window - MaxLatency) + 1 .. hit'[r].now
          BY <3>1, <4>1 DEF AllowedWith, Counted
        <5>2. hit'[q].now \in Nat
          <6>1. hit'[q] \in HitRecords /\ hit'[q].pc \in {"allowed", "refused", "lost"}
            BY <1>4, <5>1 DEF Counted
          <6>. QED
            BY <6>1 DEF HitRecords
        <5>3. hit'[q].now >= hit'[r].now - (Window - MaxLatency) + 1
          BY <1>5, <2>1, <5>1
        <5>4. hit'[q].now > time - Window
          BY <1>1, <1>5, <2>1, <3>1, <5>2, <5>3, WindowArithmetic
        <5>. QED
          BY <1>11, <5>1, <5>4
      <4>2. AllowedWith(r)' \subseteq Hits
        BY DEF AllowedWith
      <4>. QED
        BY <4>1, <4>2
    <3>3. Cardinality(entries') <= Limit /\ Cardinality(entries') \in Nat
      BY <1>2, <1>6, <3>1, Counts
    <3>. QED
      BY <1>5, <1>6, <3>2, <3>3, Counts
  <2>. QED
    BY <2>2, <2>3
<1>14. ASSUME NEW r \in Hits, hit'[r].pc = "refused" PROVE Cardinality(OthersWith(r)') >= Limit
  <2>1. OthersWith(r)' \in SUBSET Hits
    BY DEF OthersWith
  <2>2. CASE r = z
    <3>1. next.pc = "refused" /\ ~(Cardinality(entries') <= Limit)
      BY <1>2, <1>4, <1>14, <2>2
    <3>2. entries' \ {z} \subseteq OthersWith(r)'
      <4>1. ASSUME NEW q \in entries' \ {z} PROVE q \in OthersWith(r)'
        <5>1. q \in Hits /\ q # z /\ q \in entries /\ hit[q].now > hit[z].now - Window
          BY <1>3, <1>6
        <5>2. Counted(q) /\ hit[q].epoch = flushes /\ hit'[q] = hit[q]
          BY <5>1, <1>9 DEF LimiterInv, EntriesOfEpoch, CountedStays
        <5>3. Counted(q)' /\ hit'[r] = next
          BY <1>4, <1>9, <2>2, <5>1, <5>2
        <5>. QED
          BY <1>2, <2>2, <5>1, <5>2, <5>3 DEF OthersWith
      <4>. QED
        BY <4>1
    <3>3. /\ Cardinality(entries' \ {z}) = Cardinality(entries') - 1
          /\ Cardinality(entries') \in Nat /\ Cardinality(entries' \ {z}) \in Nat
      <4>1. IsFiniteSet(entries') /\ z \in entries'
        BY <1>3, <1>6, Counts
      <4>. QED
        BY <1>6, <4>1, FS_RemoveElement, Counts
    <3>4. Cardinality(entries' \ {z}) >= Limit
      BY <1>5, <3>1, <3>3
    <3>5. Cardinality(entries' \ {z}) <= Cardinality(OthersWith(r)') /\ Cardinality(OthersWith(r)') \in Nat
      BY <2>1, <3>2, Counts
    <3>. QED
      BY <1>5, <3>3, <3>4, <3>5
  <2>3. CASE r # z
    <3>1. hit'[r] = hit[r] /\ hit[r].pc = "refused"
      BY <1>4, <1>14, <2>3
    <3>2. Cardinality(OthersWith(r)) >= Limit
      BY <3>1, Sound DEF LimiterInv
    <3>3. OthersWith(r) \subseteq OthersWith(r)'
      BY <1>9, <3>1 DEF OthersWith, CountedStays
    <3>4. /\ Cardinality(OthersWith(r)) <= Cardinality(OthersWith(r)')
          /\ Cardinality(OthersWith(r)') \in Nat /\ Cardinality(OthersWith(r)) \in Nat
      BY <2>1, <3>3, Counts
    <3>. QED
      BY <1>5, <3>2, <3>4
  <2>. QED
    BY <2>2, <2>3
<1>15. /\ \A r \in Hits : hit'[r].pc = "allowed" => Cardinality(AllowedWith(r)') <= Limit
       /\ \A r \in Hits : hit'[r].pc = "refused" => Cardinality(OthersWith(r)') >= Limit
  BY <1>13, <1>14
<1>16. LimiterSound'
  BY <1>15 DEF LimiterSound, WindowsHoldTheLimit, RefusedForOthersInWindow, AllowedWith, OthersWith
<1>. QED
  BY <1>7, <1>8, <1>10, <1>12, <1>16 DEF LimiterInv

LEMMA HitStep == ASSUME LimiterInv, NEW z \in Hits, Hit(z) PROVE LimiterInv'
<1>. DEFINE next == [pc |-> IF Cardinality(entries') <= Limit THEN "allowed" ELSE "refused",
                     now |-> hit[z].now, epoch |-> flushes]
<1>1. hit[z].now \in Nat /\ flushes \in Nat
  BY HitTyping DEF Hit, Waiting, LimiterInv, LimiterTyped
<1>2. /\ next \in HitRecords /\ next.pc \in {"allowed", "refused", "lost"}
      /\ next.now = hit[z].now /\ next.epoch = flushes
      /\ next.pc = "allowed" => Cardinality(entries') <= Limit
      /\ next.pc = "refused" => ~(Cardinality(entries') <= Limit)
  BY <1>1 DEF HitRecords
<1>3. /\ Waiting(z) /\ entries' = Pruned(z) \cup {z} /\ hit' = [hit EXCEPT ![z] = next]
      /\ UNCHANGED <<time, flushes>>
  BY DEF Hit
<1>. HIDE DEF next
<1>. QED
  BY <1>2, <1>3, CountingStep

LEMMA AnswerLostStep == ASSUME LimiterInv, NEW z \in Hits, AnswerLost(z) PROVE LimiterInv'
<1>. DEFINE next == [pc |-> "lost", told |-> ByTheSetting, now |-> hit[z].now, epoch |-> flushes]
<1>1. hit[z].now \in Nat /\ flushes \in Nat
  BY HitTyping DEF AnswerLost, Waiting, LimiterInv, LimiterTyped
<1>2. /\ next \in HitRecords /\ next.pc = "lost" /\ next.now = hit[z].now /\ next.epoch = flushes
  BY <1>1 DEF HitRecords, ByTheSetting
<1>3. /\ Waiting(z) /\ entries' = Pruned(z) \cup {z} /\ hit' = [hit EXCEPT ![z] = next]
      /\ UNCHANGED <<time, flushes>>
  BY DEF AnswerLost
<1>. HIDE DEF next
<1>. QED
  BY <1>2, <1>3, CountingStep

\* The invariant is inductive.
LEMMA LimiterStep == LimiterInv /\ [LimiterNext]_limiterVars => LimiterInv'
<1>. SUFFICES ASSUME LimiterInv, [LimiterNext]_limiterVars PROVE LimiterInv'
  OBVIOUS
<1>1. CASE UNCHANGED limiterVars
  <2>1. UNCHANGED <<time, hit, entries, flushes>> /\ \A q \in Hits : Counted(q)' <=> Counted(q)
    BY <1>1 DEF limiterVars, Counted
  <2>2. LimiterSound'
    BY <2>1, NothingCounted DEF CountedStays
  <2>. QED
    BY <2>1, <2>2 DEF LimiterInv, LimiterTyped, ClocksFresh, EntriesOfEpoch, WindowKept, EpochsPast,
                      Waiting, Counted
<1>2. CASE LimiterNext
  BY <1>2, ReadClockStep, HitStep, DegradedStep, AnswerLostStep, FlushStep, TimePassesStep DEF LimiterNext
<1>. QED
  BY <1>1, <1>2

(***************************************************************************)
(* The inductive invariant: requests reach Redis within their latency, and *)
(* the set holds every request of the window counted since it was lost     *)
(* (rate_limit.py).                                                        *)
(***************************************************************************)
THEOREM LimiterInvariant == LimiterSpec => []LimiterInv
  BY LimiterStart, LimiterStep, PTL DEF LimiterSpec

(***************************************************************************)
(* For any limit and window, in whatever order requests reach Redis,       *)
(* however often it loses the set and whichever answers are lost: no       *)
(* window, less the latency, holds more requests counted and admitted than *)
(* the limit, and no count refuses anybody without the limit's worth of    *)
(* others in the window.                                                   *)
(***************************************************************************)
THEOREM LimitHolds == LimiterSpec => []LimiterSound
<1>1. LimiterInv => LimiterSound
  BY DEF LimiterInv
<1>. QED
  BY LimiterInvariant, <1>1, PTL
===============================================================================
