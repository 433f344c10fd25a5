----------------------- MODULE PaymentSettlement_proofs -----------------------
(***************************************************************************)
(* Proofs about PaymentSettlement, for any number of attempts and handlers *)
(* and any pattern of faults.                                              *)
(***************************************************************************)
EXTENDS PaymentSettlement, TLAPS

-------------------------------------------------------------------------------
(***************************************************************************)
(* Handlers: the type of h, and that a handler beyond the creation of its  *)
(* payment row works on an attempt.                                        *)
(***************************************************************************)

HandlersTyped == h \in [Handlers -> HandlerState]

WorksOnAttempt == \A p \in Handlers :
    h[p].pc \notin {"idle", "lookup", "create"} => h[p].att \in Attempts

HandlersInv == HandlersTyped /\ WorksOnAttempt

\* Each way a handler is moved keeps the invariant of the handlers.
LEMMA BecomeAt ==
    ASSUME HandlersInv, NEW p \in Handlers, NEW pc \in Pcs, NEW a \in Attempts,
           Become(p, At(pc, a))
    PROVE  HandlersInv'
  BY DEF HandlersInv, HandlersTyped, WorksOnAttempt, Become, At, Idle, HandlerState,
         Modes, Anomalies

\* An initialiser without an attempt is at the lookup or at the creation.
LEMMA BecomeStarting ==
    ASSUME HandlersInv, NEW p \in Handlers, NEW pc \in {"lookup", "create"},
           Become(p, At(pc, 0))
    PROVE  HandlersInv'
  BY DEF HandlersInv, HandlersTyped, WorksOnAttempt, Become, At, Idle, HandlerState,
         Pcs, Modes, Anomalies

\* A handler that ends works on nothing.
LEMMA BecomeIdle ==
    ASSUME HandlersInv, NEW p \in Handlers, Become(p, Idle)
    PROVE  HandlersInv'
  BY DEF HandlersInv, HandlersTyped, WorksOnAttempt, Become, Idle, HandlerState, Pcs,
         Modes, Anomalies

\* A handler that starts the order transition keeps its attempt.
LEMMA BecomePaying ==
    ASSUME HandlersInv, NEW p \in Handlers, NEW a \in Attempts, NEW mode \in Modes,
           Become(p, Paying(a, mode))
    PROVE  HandlersInv'
  BY DEF HandlersInv, HandlersTyped, WorksOnAttempt, Become, Paying, At, Idle,
         HandlerState, Pcs, Modes, Anomalies

\* A handler that goes on with its attempt.
LEMMA BecomeFanout ==
    ASSUME HandlersInv, NEW p \in Handlers, h[p].att \in Attempts,
           NEW pc \in Pcs, Become(p, [h[p] EXCEPT !.pc = pc])
    PROVE  HandlersInv'
  BY DEF HandlersInv, HandlersTyped, WorksOnAttempt, Become, HandlerState

\* The end of the order transition, whatever it reports.
LEMMA OrderTransitionDoneHandlers ==
    ASSUME HandlersInv, NEW p \in Handlers, h[p].att \in Attempts,
           NEW anomaly \in Anomalies, OrderTransitionDone(p, anomaly)
    PROVE  HandlersInv'
<1>1. CASE Become(p, Idle)
  BY <1>1, BecomeIdle
<1>2. CASE Become(p, [h[p] EXCEPT !.pc = "breadcrumbs", !.anomaly = anomaly])
  BY <1>2 DEF HandlersInv, HandlersTyped, WorksOnAttempt, Become, HandlerState, Pcs
<1>3. QED
  BY <1>1, <1>2 DEF OrderTransitionDone, Return

\* An initialiser keeps the invariant of the handlers.
LEMMA InitialiseHandlers ==
    ASSUME HandlersInv, NEW p \in Initialisers, InitialiseStep(p)
    PROVE  HandlersInv'
<1>1. p \in Handlers
  BY DEF Handlers
<1>2. CASE InitialiseReadOrder(p)
  BY <1>1, <1>2, BecomeStarting DEF InitialiseReadOrder
<1>3. CASE InitialiseLookup(p)
  BY <1>1, <1>3, BecomeStarting, BecomeIdle DEF InitialiseLookup
<1>4. CASE InitialiseCreate(p)
  BY <1>1, <1>4, BecomeAt DEF InitialiseCreate, Pcs
<1>5. CASE InitialiseCall(p)
  <2>1. h[p].att \in Attempts
    BY <1>1, <1>5 DEF InitialiseCall, HandlersInv, WorksOnAttempt
  <2>2. QED
    BY <1>1, <1>5, <2>1, BecomeAt, BecomeIdle DEF InitialiseCall, Pcs
<1>6. CASE InitialisePersist(p)
  BY <1>1, <1>6, BecomeIdle DEF InitialisePersist
<1>7. CASE InitialiseOutOfAttempts(p)
  BY <1>1, <1>7, BecomeIdle DEF InitialiseOutOfAttempts
<1>8. QED
  BY <1>2, <1>3, <1>4, <1>5, <1>6, <1>7 DEF InitialiseStep

\* So does step two of the settlement.
LEMMA SettleHandlers ==
    ASSUME HandlersInv, NEW p \in Handlers, SettleStep(p)
    PROVE  HandlersInv'
<1>1. h[p].att \in Attempts
  BY DEF SettleStep, AuditSuperseded, PayReadOrder, PayClaimOrder, SettleBreadcrumbs,
         SettleFanout, HandlersInv, WorksOnAttempt
<1>2. CASE AuditSuperseded(p)
  BY <1>2, BecomeIdle DEF AuditSuperseded, Return
<1>3. CASE PayReadOrder(p)
  <2>1. CASE Become(p, [h[p] EXCEPT !.pc = "pay_claim"])
    BY <1>1, <2>1, BecomeFanout DEF Pcs
  <2>2. CASE OrderTransitionDone(p, "none") \/ OrderTransitionDone(p, "order_cancelled")
    BY <1>1, <2>2, OrderTransitionDoneHandlers DEF Anomalies
  <2>3. QED
    BY <1>3, <2>1, <2>2 DEF PayReadOrder
<1>4. CASE PayClaimOrder(p)
  BY <1>1, <1>4, OrderTransitionDoneHandlers DEF PayClaimOrder, Anomalies
<1>5. CASE SettleBreadcrumbs(p)
  BY <1>1, <1>5, BecomeFanout, BecomeIdle DEF SettleBreadcrumbs, Return, Pcs
<1>6. CASE SettleFanout(p)
  BY <1>6, BecomeIdle DEF SettleFanout, Return
<1>7. QED
  BY <1>2, <1>3, <1>4, <1>5, <1>6 DEF SettleStep

\* So does a webhook delivery.
LEMMA WebhookHandlers ==
    ASSUME HandlersInv, NEW p \in Webhooks,
           WebhookStep(p) \/ \E a \in Attempts : WebhookArrive(p, a)
    PROVE  HandlersInv'
<1>1. p \in Handlers
  BY DEF Handlers, Settlers
<1>2. CASE \E a \in Attempts : WebhookArrive(p, a)
  BY <1>1, <1>2, BecomeAt DEF WebhookArrive, Pcs
<1>3. CASE SettleStep(p)
  BY <1>1, <1>3, SettleHandlers
<1>4. CASE WebhookCorroborate(p) \/ WebhookRefuse(p) \/ WebhookClaim(p) \/ WebhookRecover(p)
  <2>1. h[p].att \in Attempts
    BY <1>1, <1>4 DEF WebhookCorroborate, WebhookRefuse, WebhookClaim, WebhookRecover,
                      HandlersInv, WorksOnAttempt
  <2>2. CASE WebhookCorroborate(p)
    BY <1>1, <2>1, <2>2, BecomeAt DEF WebhookCorroborate, Pcs
  <2>3. CASE WebhookRefuse(p)
    BY <1>1, <2>1, <2>3, BecomeAt, BecomeIdle DEF WebhookRefuse, Return, Pcs
  <2>4. CASE WebhookClaim(p)
    BY <1>1, <2>1, <2>4, BecomeAt, BecomeIdle, BecomePaying
       DEF WebhookClaim, Return, Pcs, Modes
  <2>5. CASE WebhookRecover(p)
    BY <1>1, <2>1, <2>5, BecomeIdle, BecomePaying DEF WebhookRecover, Return, Modes
  <2>6. QED
    BY <1>4, <2>2, <2>3, <2>4, <2>5
<1>5. QED
  BY <1>2, <1>3, <1>4 DEF WebhookStep

\* So does a verification.
LEMMA VerifyHandlers ==
    ASSUME HandlersInv, NEW p \in Verifiers, VerifyStep(p) \/ VerifyReadSnapshot(p)
    PROVE  HandlersInv'
<1>1. p \in Handlers
  BY DEF Handlers, Settlers
<1>2. CASE VerifyReadSnapshot(p)
  BY <1>1, <1>2, BecomeAt DEF VerifyReadSnapshot, Active, Pcs
<1>3. CASE SettleStep(p)
  BY <1>1, <1>3, SettleHandlers
<1>4. CASE VerifyLoad(p) \/ VerifyAsk(p) \/ VerifyFail(p) \/ VerifyClaim(p)
  <2>1. h[p].att \in Attempts
    BY <1>1, <1>4 DEF VerifyLoad, VerifyAsk, VerifyFail, VerifyClaim, HandlersInv,
                      WorksOnAttempt
  <2>2. CASE VerifyLoad(p)
    BY <1>1, <2>1, <2>2, BecomeAt, BecomeIdle, BecomePaying DEF VerifyLoad, Pcs, Modes
  <2>3. CASE VerifyAsk(p)
    BY <1>1, <2>1, <2>3, BecomeAt, BecomeIdle DEF VerifyAsk, Pcs
  <2>4. CASE VerifyFail(p)
    BY <1>1, <2>4, BecomeIdle DEF VerifyFail
  <2>5. CASE VerifyClaim(p)
    BY <1>1, <2>1, <2>5, BecomeAt, BecomeIdle, BecomePaying DEF VerifyClaim, Pcs, Modes
  <2>6. QED
    BY <1>4, <2>2, <2>3, <2>4, <2>5
<1>5. QED
  BY <1>2, <1>3, <1>4 DEF VerifyStep

\* The invariant of the handlers is inductive.
LEMMA HandlersStep == HandlersInv /\ [Next]_vars => HandlersInv'
<1> SUFFICES ASSUME HandlersInv, [Next]_vars PROVE HandlersInv'
  OBVIOUS
<1>1. CASE UNCHANGED h
  BY <1>1 DEF HandlersInv, HandlersTyped, WorksOnAttempt
<1>2. CASE \E p \in Handlers : Crash(p)
  BY <1>2, BecomeIdle DEF Crash
<1>3. CASE \E p \in Handlers : InitialiseStep(p) /\ p \in Initialisers
  BY <1>3, InitialiseHandlers
<1>4. CASE \E p \in Webhooks : WebhookStep(p) \/ \E a \in Attempts : WebhookArrive(p, a)
  BY <1>4, WebhookHandlers
<1>5. CASE \E p \in Verifiers : VerifyReadSnapshot(p) \/ VerifyStep(p)
  BY <1>5, VerifyHandlers
<1>6. QED
  BY <1>1, <1>2, <1>3, <1>4, <1>5
     DEF Next, vars, Handlers, Collect, Decline, CancelOrder, EnsureFulfilments

-------------------------------------------------------------------------------
(***************************************************************************)
(* Who writes what: a record is written by few actions, and the proofs     *)
(* about a record look at these only.                                      *)
(***************************************************************************)

OrderWritten ==
    order' = order \/ CancelOrder \/ \E p \in Settlers : PayClaimOrder(p)

PaymentWritten ==
    \/ payment' = payment
    \/ \E p \in Initialisers : InitialiseCreate(p) \/ InitialisePersist(p)
    \/ \E p \in Webhooks : WebhookClaim(p)
    \/ \E p \in Verifiers : VerifyFail(p) \/ VerifyClaim(p)

PaystackWritten ==
    \/ paystack' = paystack
    \/ \E a \in Attempts : Collect(a) \/ Decline(a)
    \/ \E p \in Initialisers : InitialiseCall(p)

EventWritten ==
    event' = event \/ \E p \in Webhooks : WebhookRefuse(p) \/ WebhookClaim(p)

AuditsWritten ==
    \/ audited' = audited /\ flags' = flags
    \/ \E p \in Settlers : AuditSuperseded(p) \/ SettleBreadcrumbs(p)

TasksWritten ==
    tasks' = tasks \/ EnsureFulfilments \/ \E p \in Settlers : SettleFanout(p)

\* Statements of a webhook delivery whose event is on record.
Recorded == {"recover", "superseded", "pay_read", "pay_claim", "breadcrumbs", "fanout"}

AckedWritten ==
    \/ acked' = acked
    \/ \E p \in Webhooks :
            /\ Return(p)
            /\ WebhookRefuse(p) \/ WebhookClaim(p) \/ h[p].pc \in Recorded

FaultsWritten ==
    \/ faultsLeft' = faultsLeft
    \/ faultsLeft > 0 /\ faultsLeft' = faultsLeft - 1

\* Each variable is written by a few actions; what is not listed leaves it alone.
LEMMA Writers ==
    ASSUME [Next]_vars
    PROVE  /\ OrderWritten /\ PaymentWritten /\ PaystackWritten /\ EventWritten
           /\ AuditsWritten /\ TasksWritten /\ AckedWritten /\ FaultsWritten
<1> USE DEF Next, vars, dbVars, trailVars, Handlers, Settlers,
        Collect, Decline, CancelOrder, EnsureFulfilments, Crash,
        InitialiseStep, InitialiseReadOrder, InitialiseLookup, InitialiseCreate,
        InitialiseCall, InitialisePersist, InitialiseOutOfAttempts,
        WebhookArrive, WebhookStep, WebhookCorroborate, WebhookRefuse, WebhookClaim,
        WebhookRecover, VerifyReadSnapshot, VerifyStep, VerifyLoad, VerifyAsk,
        VerifyFail, VerifyClaim, SettleStep, AuditSuperseded, PayReadOrder,
        PayClaimOrder, SettleBreadcrumbs, SettleFanout
<1>1. OrderWritten
  BY DEF OrderWritten
<1>2. PaymentWritten
  BY DEF PaymentWritten
<1>3. PaystackWritten
  BY DEF PaystackWritten
<1>4. EventWritten
  BY DEF EventWritten
<1>5. AuditsWritten
  BY DEF AuditsWritten
<1>6. TasksWritten
  BY DEF TasksWritten
<1>7. AckedWritten
  BY DEF AckedWritten, Recorded, Return, OrderTransitionDone
<1>8. FaultsWritten
  BY DEF FaultsWritten
<1>9. QED
  BY <1>1, <1>2, <1>3, <1>4, <1>5, <1>6, <1>7, <1>8

-------------------------------------------------------------------------------
(***************************************************************************)
(* The types of the records.                                               *)
(***************************************************************************)

OrderTyped    == order \in {"PENDING", "PAID", "CANCELLED"}
PaymentTyped  ==
    payment \in [Attempts -> {"ABSENT", "PENDING", "PROCESSING", "SUCCESS", "FAILED"}]
PaystackTyped ==
    paystack \in [Attempts -> {"unknown", "open", "collected", "mispaid", "declined"}]
EventTyped    == event \in [Attempts -> {"NONE", "FAILED", "PROCESSED", "IGNORED"}]
AckedTyped    == acked \in [Attempts -> BOOLEAN]
AuditedTyped  == audited \in [Attempts -> Nat]
FlagsTyped    == flags \in [Attempts -> SUBSET Anomalies]
TasksTyped    == tasks \in BOOLEAN
FaultsTyped   == faultsLeft \in 0 .. MaxFaults

TypeInv == TypeOK /\ HandlersInv

\* The conjuncts of the type invariant, one fact each.
LEMMA TypeParts ==
    TypeInv <=> /\ OrderTyped /\ PaymentTyped /\ PaystackTyped /\ EventTyped
                /\ AckedTyped /\ AuditedTyped /\ FlagsTyped /\ TasksTyped
                /\ FaultsTyped /\ HandlersInv
  BY DEF TypeInv, TypeOK, OrderTyped, PaymentTyped, PaystackTyped, EventTyped,
         AckedTyped, AuditedTyped, FlagsTyped, TasksTyped, FaultsTyped, HandlersInv,
         HandlersTyped

\* Who is past the creation of a row works on an attempt.
LEMMA AttemptOf ==
    ASSUME HandlersInv, NEW p \in Handlers, h[p].pc \notin {"idle", "lookup", "create"}
    PROVE  h[p].att \in Attempts /\ h[p] \in HandlerState
  BY DEF HandlersInv, HandlersTyped, WorksOnAttempt

\* The initial state has its type.
LEMMA InitType == Init => TypeInv
<1> SUFFICES ASSUME Init PROVE TypeInv
  OBVIOUS
<1> USE DEF Init
<1>1. OrderTyped /\ PaymentTyped /\ PaystackTyped /\ EventTyped
  BY DEF OrderTyped, PaymentTyped, PaystackTyped, EventTyped
<1>2. AckedTyped /\ TasksTyped
  BY DEF AckedTyped, TasksTyped
<1>3. AuditedTyped
  BY DEF AuditedTyped
<1>4. FlagsTyped
  BY DEF FlagsTyped
<1>5. FaultsTyped
  BY SettlementAssumption DEF FaultsTyped
<1>6. HandlersInv
  BY DEF HandlersInv, HandlersTyped, WorksOnAttempt, Idle, HandlerState, Pcs, Modes,
         Anomalies
<1>7. QED
  BY <1>1, <1>2, <1>3, <1>4, <1>5, <1>6, TypeParts

\* A step keeps the types: only the listed writers touch a variable.
LEMMA TypeStep == TypeInv /\ [Next]_vars => TypeInv'
<1> SUFFICES ASSUME TypeInv, [Next]_vars PROVE TypeInv'
  OBVIOUS
<1>0. /\ OrderTyped /\ PaymentTyped /\ PaystackTyped /\ EventTyped /\ AckedTyped
      /\ AuditedTyped /\ FlagsTyped /\ TasksTyped /\ FaultsTyped /\ HandlersInv
  BY TypeParts
<1>1. OrderTyped'
  BY <1>0, Writers DEF OrderWritten, OrderTyped, CancelOrder, PayClaimOrder
<1>2. PaymentTyped'
  BY <1>0, Writers DEF PaymentWritten, PaymentTyped, InitialiseCreate, InitialisePersist,
     WebhookClaim, VerifyFail, VerifyClaim, ApplySuccessClaim
<1>3. PaystackTyped'
  BY <1>0, Writers DEF PaystackWritten, PaystackTyped, Collect, Decline, InitialiseCall
<1>4. EventTyped'
  BY <1>0, Writers DEF EventWritten, EventTyped, WebhookRefuse, WebhookClaim
<1>5. AckedTyped'
  <2>1. CASE acked' = acked
    BY <1>0, <2>1 DEF AckedTyped
  <2>2. ASSUME NEW p \in Webhooks, Return(p),
               WebhookRefuse(p) \/ WebhookClaim(p) \/ h[p].pc \in Recorded
        PROVE  AckedTyped'
    <3>1. h[p].att \in Attempts
      BY <1>0, <2>2, AttemptOf
         DEF WebhookRefuse, WebhookClaim, Recorded, Handlers, Settlers
    <3>2. QED
      BY <1>0, <2>2, <3>1 DEF AckedTyped, Return
  <2>3. QED
    BY <2>1, <2>2, Writers DEF AckedWritten
<1>6. AuditedTyped' /\ FlagsTyped'
  <2>1. CASE audited' = audited /\ flags' = flags
    BY <1>0, <2>1 DEF AuditedTyped, FlagsTyped
  <2>2. ASSUME NEW p \in Settlers, AuditSuperseded(p) \/ SettleBreadcrumbs(p)
        PROVE  AuditedTyped' /\ FlagsTyped'
    <3>1. h[p].att \in Attempts /\ h[p].anomaly \in Anomalies
      BY <1>0, <2>2, AttemptOf DEF AuditSuperseded, SettleBreadcrumbs, Handlers, HandlerState
    <3>2. AuditedTyped'
      BY <1>0, <2>2, <3>1 DEF AuditedTyped, AuditSuperseded, SettleBreadcrumbs
    <3>3. FlagsTyped'
      BY <1>0, <2>2, <3>1 DEF FlagsTyped, AuditSuperseded, SettleBreadcrumbs, Anomalies
    <3>4. QED
      BY <3>2, <3>3
  <2>3. QED
    BY <2>1, <2>2, Writers DEF AuditsWritten
<1>7. TasksTyped'
  <2>1. tasks' = tasks \/ tasks' = TRUE
    BY Writers DEF TasksWritten, EnsureFulfilments, SettleFanout
  <2>2. CASE tasks' = tasks
    BY <1>0, <2>2 DEF TasksTyped
  <2>3. CASE tasks' = TRUE
    BY <2>3 DEF TasksTyped
  <2>4. QED
    BY <2>1, <2>2, <2>3
<1>8. FaultsTyped'
  BY <1>0, Writers, SettlementAssumption DEF FaultsWritten, FaultsTyped
<1>9. HandlersInv'
  BY <1>0, HandlersStep
<1>10. QED
  BY <1>1, <1>2, <1>3, <1>4, <1>5, <1>6, <1>7, <1>8, <1>9
     DEF TypeInv, TypeOK, OrderTyped, PaymentTyped, PaystackTyped, EventTyped,
         AckedTyped, AuditedTyped, FlagsTyped, TasksTyped, FaultsTyped, HandlersInv,
         HandlersTyped

\* Every variable keeps its type, and a handler works on an attempt whenever it
\* needs one.
THEOREM TypeCorrect == Spec => []TypeOK
<1>1. Spec => []TypeInv
  BY InitType, TypeStep, PTL DEF Spec
<1>2. TypeInv => TypeOK
  BY DEF TypeInv
<1>3. QED
  BY <1>1, <1>2, PTL

-------------------------------------------------------------------------------
(***************************************************************************)
(* Who moves a handler, and the step that brings it to each statement.     *)
(***************************************************************************)

\* A handler is moved by its own steps only.
LEMMA Mover ==
    ASSUME HandlersInv, [Next]_vars, NEW p \in Handlers
    PROVE  \/ h'[p] = h[p]
           \/ p \in Initialisers /\ InitialiseStep(p)
           \/ p \in Webhooks /\ (WebhookStep(p) \/ \E a \in Attempts : WebhookArrive(p, a))
           \/ p \in Verifiers /\ (VerifyStep(p) \/ VerifyReadSnapshot(p))
           \/ Crash(p)
<1> USE DEF HandlersInv, HandlersTyped
<1>1. CASE UNCHANGED h
  BY <1>1
<1>2. ASSUME NEW q \in Initialisers, InitialiseStep(q), q # p
      PROVE  h'[p] = h[p]
  BY <1>2 DEF Handlers, Become, InitialiseStep, InitialiseReadOrder, InitialiseLookup,
     InitialiseCreate, InitialiseCall, InitialisePersist, InitialiseOutOfAttempts
<1>3. ASSUME NEW q \in Settlers, SettleStep(q), q # p
      PROVE  h'[p] = h[p]
  BY <1>3 DEF Handlers, Become, Return, OrderTransitionDone, SettleStep,
     AuditSuperseded, PayReadOrder, PayClaimOrder, SettleBreadcrumbs, SettleFanout
<1>4. ASSUME NEW q \in Webhooks, q # p,
             WebhookStep(q) \/ \E a \in Attempts : WebhookArrive(q, a)
      PROVE  h'[p] = h[p]
  BY <1>3, <1>4 DEF Handlers, Settlers, Become, Return, WebhookStep, WebhookArrive,
     WebhookCorroborate, WebhookRefuse, WebhookClaim, WebhookRecover
<1>5. ASSUME NEW q \in Verifiers, q # p, VerifyStep(q) \/ VerifyReadSnapshot(q)
      PROVE  h'[p] = h[p]
  BY <1>3, <1>5 DEF Handlers, Settlers, Become, VerifyStep, VerifyReadSnapshot,
     VerifyLoad, VerifyAsk, VerifyFail, VerifyClaim
<1>6. ASSUME NEW q \in Handlers, q # p, Crash(q)
      PROVE  h'[p] = h[p]
  BY <1>6 DEF Become, Crash
<1>7. QED
  BY <1>1, <1>2, <1>4, <1>5, <1>6
     DEF Next, vars, Collect, Decline, CancelOrder, EnsureFulfilments

\* The state of a handler after it moved.
LEMMA AfterAt ==
    ASSUME HandlersInv, NEW p \in Handlers, NEW pc, NEW a, Become(p, At(pc, a))
    PROVE  h'[p].pc = pc /\ h'[p].att = a /\ h'[p].mode = "none"
  BY DEF HandlersInv, HandlersTyped, Become, At, Idle

\* A handler that ended is idle.
LEMMA AfterIdle ==
    ASSUME HandlersInv, NEW p \in Handlers, Become(p, Idle)
    PROVE  h'[p].pc = "idle"
  BY DEF HandlersInv, HandlersTyped, Become, Idle

\* A handler that starts the order transition is at pay_read with its attempt.
LEMMA AfterPaying ==
    ASSUME HandlersInv, NEW p \in Handlers, NEW a, NEW mode, Become(p, Paying(a, mode))
    PROVE  h'[p].pc = "pay_read" /\ h'[p].att = a /\ h'[p].mode = mode
  BY DEF HandlersInv, HandlersTyped, Become, Paying, At, Idle

\* A handler that goes on keeps attempt, mode and anomaly.
LEMMA AfterGoingOn ==
    ASSUME HandlersInv, NEW p \in Handlers, NEW pc, Become(p, [h[p] EXCEPT !.pc = pc])
    PROVE  /\ h'[p].pc = pc /\ h'[p].att = h[p].att
           /\ h'[p].mode = h[p].mode /\ h'[p].anomaly = h[p].anomaly
  BY DEF HandlersInv, HandlersTyped, HandlerState, Become

\* After the order transition a handler is idle or at the breadcrumbs.
LEMMA AfterOrderTransition ==
    ASSUME HandlersInv, NEW p \in Handlers, NEW anomaly, OrderTransitionDone(p, anomaly)
    PROVE  \/ h'[p].pc = "idle"
           \/ /\ h'[p].pc = "breadcrumbs" /\ h'[p].att = h[p].att
              /\ h'[p].mode = h[p].mode /\ h'[p].anomaly = anomaly
<1>1. CASE Become(p, Idle)
  BY <1>1, AfterIdle
<1>2. CASE Become(p, [h[p] EXCEPT !.pc = "breadcrumbs", !.anomaly = anomaly])
  BY <1>2 DEF HandlersInv, HandlersTyped, HandlerState, Become
<1>3. QED
  BY <1>1, <1>2 DEF OrderTransitionDone, Return

\* Initialisers never enter step two of the settlement.
LEMMA InitialiseMoves ==
    ASSUME HandlersInv, NEW p \in Handlers, InitialiseStep(p)
    PROVE  \/ h'[p].pc \in {"idle", "lookup", "create", "persist"}
           \/ h'[p].pc = "call" /\ InitialiseCreate(p)
  BY AfterAt, AfterIdle DEF InitialiseStep, InitialiseReadOrder, InitialiseLookup,
     InitialiseCreate, InitialiseCall, InitialisePersist, InitialiseOutOfAttempts

\* Where step two of the settlement takes its handler.
LEMMA SettleMoves ==
    ASSUME HandlersInv, NEW p \in Handlers, SettleStep(p)
    PROVE  \/ h'[p].pc = "idle"
           \/ h'[p].pc \in {"pay_claim", "breadcrumbs"} /\ PayReadOrder(p)
           \/ h'[p].pc = "breadcrumbs" /\ PayClaimOrder(p)
           \/ h'[p].pc = "fanout" /\ SettleBreadcrumbs(p)
  BY AfterIdle, AfterGoingOn, AfterOrderTransition
     DEF SettleStep, Return, AuditSuperseded, PayReadOrder, PayClaimOrder, SettleBreadcrumbs,
     SettleFanout

\* Where a webhook delivery is after its step.
LEMMA WebhookMoves ==
    ASSUME HandlersInv, NEW p \in Handlers,
           WebhookStep(p) \/ \E a \in Attempts : WebhookArrive(p, a)
    PROVE  \/ h'[p].pc \in {"idle", "refuse", "corroborate"}
           \/ h'[p].pc = "claim" /\ WebhookCorroborate(p)
           \/ h'[p].pc = "recover" /\ WebhookRefuse(p)
           \/ h'[p].pc \in {"recover", "superseded", "pay_read"} /\ WebhookClaim(p)
           \/ h'[p].pc = "pay_read" /\ WebhookRecover(p)
           \/ SettleStep(p)
  BY AfterAt, AfterIdle, AfterPaying
     DEF WebhookStep, Return, WebhookArrive, WebhookCorroborate, WebhookRefuse,
         WebhookClaim, WebhookRecover

\* Where a verification is after its step.
LEMMA VerifyMoves ==
    ASSUME HandlersInv, NEW p \in Handlers, VerifyStep(p) \/ VerifyReadSnapshot(p)
    PROVE  \/ h'[p].pc \in {"idle", "load", "ask", "fail"}
           \/ h'[p].pc = "pay_read" /\ VerifyLoad(p)
           \/ h'[p].pc = "claim" /\ VerifyAsk(p)
           \/ h'[p].pc \in {"superseded", "pay_read"} /\ VerifyClaim(p)
           \/ SettleStep(p)
  BY AfterAt, AfterIdle, AfterPaying
     DEF VerifyStep, VerifyReadSnapshot, VerifyLoad, VerifyAsk, VerifyFail, VerifyClaim

\* How a handler comes to the statements the invariants are about.
LEMMA Arrivals ==
    ASSUME HandlersInv, [Next]_vars, NEW p \in Handlers, h'[p] # h[p]
    PROVE  /\ h'[p].pc = "call" => p \in Initialisers /\ InitialiseCreate(p)
           /\ h'[p].pc = "claim" => WebhookCorroborate(p) \/ VerifyAsk(p)
           /\ h'[p].pc = "recover" => WebhookRefuse(p) \/ WebhookClaim(p)
           /\ h'[p].pc = "superseded" =>
                \/ p \in Webhooks /\ WebhookClaim(p)
                \/ p \in Verifiers /\ VerifyClaim(p)
           /\ h'[p].pc = "pay_read" =>
                \/ p \in Webhooks /\ (WebhookClaim(p) \/ WebhookRecover(p))
                \/ p \in Verifiers /\ (VerifyLoad(p) \/ VerifyClaim(p))
           /\ h'[p].pc = "pay_claim" => PayReadOrder(p)
           /\ h'[p].pc = "breadcrumbs" => PayReadOrder(p) \/ PayClaimOrder(p)
           /\ h'[p].pc = "fanout" => SettleBreadcrumbs(p)
<1>1. CASE p \in Initialisers /\ InitialiseStep(p)
  BY <1>1, InitialiseMoves
<1>2. CASE p \in Webhooks /\ (WebhookStep(p) \/ \E a \in Attempts : WebhookArrive(p, a))
  BY <1>2, WebhookMoves, SettleMoves
<1>3. CASE p \in Verifiers /\ (VerifyStep(p) \/ VerifyReadSnapshot(p))
  BY <1>3, VerifyMoves, SettleMoves
<1>4. CASE Crash(p)
  BY <1>4, AfterIdle DEF Crash
<1>5. QED
  BY <1>1, <1>2, <1>3, <1>4, Mover

-------------------------------------------------------------------------------
(***************************************************************************)
(* The inductive invariant of the money.                                   *)
(***************************************************************************)

\* Paystack knows nothing of an attempt before its call; a row is called once.
CallsAreNew ==
    /\ \A a \in Attempts : payment[a] = "ABSENT" => paystack[a] = "unknown"
    /\ \A p \in Handlers : h[p].pc = "call" =>
            paystack[h[p].att] = "unknown" /\ payment[h[p].att] # "ABSENT"
    /\ \A p, q \in Handlers :
            h[p].pc = "call" /\ h[q].pc = "call" /\ h[p].att = h[q].att => p = q

\* A claim is only made for collected money, so a settled attempt is collected.
ClaimsAreCollected ==
    /\ \A p \in Handlers : h[p].pc = "claim" => paystack[h[p].att] = "collected"
    /\ \A a \in Settled : paystack[a] = "collected"

\* A handler on its way through the order transition works on a settled attempt.
Settling == {"pay_read", "pay_claim", "breadcrumbs", "fanout"}

SettlersHaveSettled ==
    \A p \in Handlers : h[p].pc \in Settling => payment[h[p].att] = "SUCCESS"

PaidIsSettled == order = "PAID" => Settled # {}

\* The fan-out follows a successful order transition only.
FanoutIsPaid ==
    /\ \A p \in Handlers :
            h[p].pc = "fanout" \/ (h[p].pc = "breadcrumbs" /\ h[p].anomaly = "none")
            => order = "PAID"
    /\ TasksOnlyForPaidOrder

MoneyInv ==
    /\ CallsAreNew
    /\ ClaimsAreCollected
    /\ OneEffectiveSuccess
    /\ SettlersHaveSettled
    /\ PaidIsSettled
    /\ FanoutIsPaid

\* The money invariant holds at the start.
LEMMA InitMoney == Init => MoneyInv
  BY DEF Init, MoneyInv, CallsAreNew, ClaimsAreCollected, OneEffectiveSuccess,
     SettlersHaveSettled, PaidIsSettled, FanoutIsPaid, TasksOnlyForPaidOrder, Settled,
     Idle, Settling

\* PENDING is the only status an order can leave by payment or by cancellation.
LEMMA PendingOnly ==
    ASSUME OrderTyped
    PROVE  /\ CanTransitionOrder(order, "PAID") <=> order = "PENDING"
           /\ CanTransitionOrder(order, "CANCELLED") <=> order = "PENDING"
  BY DEF OrderTyped, CanTransitionOrder, ORDER_TRANSITIONS, OrderStatus

\* The success claim in the terms of the payment rows.
LEMMA ClaimedOnly ==
    ASSUME PaymentTyped, NEW a \in Attempts, ApplySuccessClaim(a)
    PROVE  \/ payment' = payment /\ SuccessClaim(a) # "claimed"
           \/ /\ SuccessClaim(a) = "claimed"
              /\ payment[a] \in CLAIMABLE_PAYMENT_STATUSES
              /\ Settled = {}
              /\ payment' = [payment EXCEPT ![a] = "SUCCESS"]
<1>1. CASE SuccessClaim(a) = "claimed"
  <2>1. payment[a] \in CLAIMABLE_PAYMENT_STATUSES
    BY <1>1 DEF SuccessClaim
  <2>2. ~ \E b \in Attempts \ {a} : payment[b] = "SUCCESS"
    BY <1>1, <2>1 DEF SuccessClaim, CLAIMABLE_PAYMENT_STATUSES
  <2>3. QED
    BY <1>1, <2>1, <2>2 DEF ApplySuccessClaim, Settled, CLAIMABLE_PAYMENT_STATUSES
<1>2. CASE SuccessClaim(a) # "claimed"
  BY <1>2 DEF ApplySuccessClaim
<1>3. QED
  BY <1>1, <1>2

\* What a step does to one payment row: the first terminal status stays.
LEMMA PaymentRows ==
    ASSUME TypeInv, [Next]_vars, NEW a \in Attempts
    PROVE  /\ payment[a] \in TERMINAL_PAYMENT_STATUSES => payment'[a] = payment[a]
           /\ payment[a] # "ABSENT" => payment'[a] # "ABSENT"
           /\ payment'[a] = "SUCCESS" /\ payment[a] # "SUCCESS" =>
                /\ Settled = {}
                /\ payment' = [payment EXCEPT ![a] = "SUCCESS"]
                /\ \E p \in Settlers : h[p].pc = "claim" /\ h[p].att = a
<1> USE DEF TERMINAL_PAYMENT_STATUSES, CLAIMABLE_PAYMENT_STATUSES
<1>1. PaymentTyped /\ HandlersInv
  BY TypeParts
<1>2. CASE payment' = payment
  BY <1>2
<1>3. ASSUME NEW p \in Initialisers, InitialiseCreate(p) \/ InitialisePersist(p)
      PROVE  /\ payment[a] \in TERMINAL_PAYMENT_STATUSES => payment'[a] = payment[a]
             /\ payment[a] # "ABSENT" => payment'[a] # "ABSENT"
             /\ payment'[a] = "SUCCESS" => payment[a] = "SUCCESS"
  BY <1>1, <1>3 DEF PaymentTyped, InitialiseCreate, InitialisePersist, Created
<1>4. ASSUME NEW p \in Settlers, h[p].pc = "claim", ApplySuccessClaim(h[p].att)
      PROVE  /\ payment[a] \in TERMINAL_PAYMENT_STATUSES => payment'[a] = payment[a]
             /\ payment[a] # "ABSENT" => payment'[a] # "ABSENT"
             /\ payment'[a] = "SUCCESS" /\ payment[a] # "SUCCESS" =>
                  /\ Settled = {}
                  /\ payment' = [payment EXCEPT ![a] = "SUCCESS"]
                  /\ h[p].att = a
  <2>1. h[p].att \in Attempts
    BY <1>1, <1>4, AttemptOf DEF Handlers
  <2>2. QED
    BY <1>1, <1>4, <2>1, ClaimedOnly DEF PaymentTyped
<1>5. ASSUME NEW p \in Verifiers, VerifyFail(p)
      PROVE  /\ payment[a] \in TERMINAL_PAYMENT_STATUSES => payment'[a] = payment[a]
             /\ payment[a] # "ABSENT" => payment'[a] # "ABSENT"
             /\ payment'[a] = "SUCCESS" => payment[a] = "SUCCESS"
  BY <1>1, <1>5 DEF PaymentTyped, VerifyFail
<1>6. QED
  <2>1. PaymentWritten
    BY Writers
  <2>2. ASSUME NEW p \in Webhooks, WebhookClaim(p)
        PROVE  payment' = payment \/ (h[p].pc = "claim" /\ ApplySuccessClaim(h[p].att))
    <3>1. CASE event[h[p].att] # "NONE"
      BY <2>2, <3>1 DEF WebhookClaim
    <3>2. CASE event[h[p].att] = "NONE"
      BY <2>2, <3>2 DEF WebhookClaim
    <3>3. QED
      BY <3>1, <3>2
  <2>3. ASSUME NEW p \in Verifiers, VerifyClaim(p)
        PROVE  h[p].pc = "claim" /\ ApplySuccessClaim(h[p].att)
    BY <2>3 DEF VerifyClaim
  <2>4. QED
    BY <1>2, <1>3, <1>4, <1>5, <2>1, <2>2, <2>3 DEF PaymentWritten, Settlers

\* What a step does to the order: it leaves PENDING once.
LEMMA OrderRow ==
    ASSUME TypeInv, [Next]_vars
    PROVE  \/ order' = order
           \/ order = "PENDING" /\ order' = "CANCELLED"
           \/ /\ order = "PENDING" /\ order' = "PAID"
              /\ \E p \in Settlers : h[p].pc = "pay_claim"
<1>1. OrderTyped
  BY TypeParts
<1>2. QED
  BY <1>1, Writers, PendingOnly DEF OrderWritten, CancelOrder, PayClaimOrder

\* Money once collected stays collected.
LEMMA CollectedStays ==
    ASSUME TypeInv, CallsAreNew, [Next]_vars, NEW a \in Attempts
    PROVE  paystack[a] = "collected" => paystack'[a] = "collected"
<1>1. PaystackTyped
  BY TypeParts
<1>2. QED
  BY <1>1, Writers
     DEF PaystackTyped, PaystackWritten, Collect, Decline, InitialiseCall, CallsAreNew,
         Handlers

\* Before its call to Paystack is made, the transaction of an attempt is unknown.
LEMMA CallsStep == TypeInv /\ MoneyInv /\ [Next]_vars => CallsAreNew'
<1> SUFFICES ASSUME TypeInv, MoneyInv, [Next]_vars PROVE CallsAreNew'
  OBVIOUS
<1>0. CallsAreNew /\ HandlersInv /\ PaymentTyped /\ PaystackTyped
  BY TypeParts DEF MoneyInv
<1>1. ASSUME NEW a \in Attempts, payment'[a] = "ABSENT"
      PROVE  paystack'[a] = "unknown"
  <2>1. payment[a] = "ABSENT"
    BY <1>1, PaymentRows
  <2>2. paystack[a] = "unknown"
    BY <1>0, <2>1 DEF CallsAreNew
  <2>3. QED
    BY <1>0, <2>1, <2>2, Writers
       DEF PaystackWritten, PaystackTyped, Collect, Decline, InitialiseCall, CallsAreNew,
           Handlers
<1>2. ASSUME NEW p \in Handlers, h'[p].pc = "call", h'[p] # h[p]
      PROVE  /\ h'[p].att \in Attempts
             /\ payment[h'[p].att] = "ABSENT" /\ payment'[h'[p].att] # "ABSENT"
             /\ paystack' = paystack
             /\ h' = [h EXCEPT ![p] = h'[p]]
  <2>1. InitialiseCreate(p)
    BY <1>0, <1>2, Arrivals
  <2>2. PICK a \in Attempts \ Created : payment' = [payment EXCEPT ![a] = "PENDING"]
                                        /\ Become(p, At("call", a))
    BY <2>1 DEF InitialiseCreate
  <2>3. h'[p].att = a /\ h' = [h EXCEPT ![p] = h'[p]]
    BY <1>0, <2>2, AfterAt DEF Become, HandlersInv, HandlersTyped
  <2>4. QED
    BY <1>0, <2>1, <2>2, <2>3 DEF InitialiseCreate, Created, PaymentTyped
<1>3. ASSUME NEW p \in Handlers, h[p].pc = "call", h'[p] = h[p]
      PROVE  paystack'[h[p].att] = "unknown" /\ payment'[h[p].att] # "ABSENT"
  <2>1. h[p].att \in Attempts
    BY <1>0, <1>3, AttemptOf
  <2>2. paystack[h[p].att] = "unknown" /\ payment[h[p].att] # "ABSENT"
    BY <1>0, <1>3 DEF CallsAreNew
  <2>3. payment'[h[p].att] # "ABSENT"
    BY <2>1, <2>2, PaymentRows
  <2>4. ASSUME NEW q \in Initialisers, InitialiseCall(q), paystack' # paystack
        PROVE  h[q].att # h[p].att
    <3>1. q # p
      BY <1>0, <1>3, <2>4, AfterAt, AfterIdle DEF InitialiseCall, Handlers
    <3>2. QED
      BY <1>0, <1>3, <2>4, <3>1 DEF InitialiseCall, CallsAreNew, Handlers
  <2>5. paystack'[h[p].att] = "unknown"
    BY <1>0, <2>1, <2>2, <2>4, Writers
       DEF PaystackWritten, PaystackTyped, Collect, Decline, InitialiseCall
  <2>6. QED
    BY <2>3, <2>5
<1>4. ASSUME NEW p \in Handlers, h'[p].pc = "call"
      PROVE  paystack'[h'[p].att] = "unknown" /\ payment'[h'[p].att] # "ABSENT"
  <2>1. CASE h'[p] = h[p]
    BY <1>3, <1>4, <2>1
  <2>2. CASE h'[p] # h[p]
    BY <1>0, <1>2, <1>4, <2>2 DEF CallsAreNew
  <2>3. QED
    BY <2>1, <2>2
<1>5. ASSUME NEW p \in Handlers, NEW q \in Handlers,
             h'[p].pc = "call", h'[q].pc = "call", h'[p].att = h'[q].att
      PROVE  p = q
  <2>1. CASE h'[p] = h[p] /\ h'[q] = h[q]
    BY <1>0, <1>5, <2>1 DEF CallsAreNew
  <2>2. ASSUME NEW r \in Handlers, NEW s \in Handlers, r # s, h'[r] # h[r],
               h'[r].pc = "call", h'[s].pc = "call", h'[r].att = h'[s].att
        PROVE  FALSE
    <3>1. h'[s] = h[s] /\ payment[h'[r].att] = "ABSENT"
      BY <1>0, <1>2, <2>2 DEF HandlersInv, HandlersTyped
    <3>2. QED
      BY <1>0, <2>2, <3>1 DEF CallsAreNew
  <2>3. QED
    BY <1>5, <2>1, <2>2
<1>6. QED
  BY <1>1, <1>4, <1>5 DEF CallsAreNew

\* A handler about to claim was told that the exact amount was collected.
LEMMA ClaimsStep == TypeInv /\ MoneyInv /\ [Next]_vars => ClaimsAreCollected'
<1> SUFFICES ASSUME TypeInv, MoneyInv, [Next]_vars PROVE ClaimsAreCollected'
  OBVIOUS
<1>0. /\ CallsAreNew /\ ClaimsAreCollected /\ HandlersInv /\ PaymentTyped
      /\ PaystackTyped
  BY TypeParts DEF MoneyInv
<1>1. ASSUME NEW p \in Handlers, h'[p].pc = "claim"
      PROVE  paystack'[h'[p].att] = "collected"
  <2>1. CASE h'[p] = h[p]
    BY <1>0, <1>1, <2>1, CollectedStays, AttemptOf DEF ClaimsAreCollected
  <2>2. CASE h'[p] # h[p]
    <3>1. WebhookCorroborate(p) \/ VerifyAsk(p)
      BY <1>0, <1>1, <2>2, Arrivals
    <3>2. /\ h[p].att \in Attempts /\ h'[p].att = h[p].att
          /\ "success" \in VerifyAnswers(h[p].att) /\ paystack' = paystack
      BY <1>0, <1>1, <3>1, AfterAt, AfterIdle, AttemptOf DEF WebhookCorroborate, VerifyAsk
    <3>3. paystack[h[p].att] = "collected"
      BY <1>0, <3>2 DEF VerifyAnswers, PaystackTyped
    <3>4. QED
      BY <3>2, <3>3
  <2>3. QED
    BY <2>1, <2>2
<1>2. ASSUME NEW a \in Attempts, payment'[a] = "SUCCESS"
      PROVE  paystack'[a] = "collected"
  <2>1. CASE payment[a] = "SUCCESS"
    BY <1>0, <2>1, CollectedStays DEF ClaimsAreCollected, Settled
  <2>2. CASE payment[a] # "SUCCESS"
    BY <1>0, <1>2, <2>2, PaymentRows, CollectedStays
       DEF ClaimsAreCollected, Settlers, Handlers
  <2>3. QED
    BY <2>1, <2>2
<1>3. QED
  BY <1>1, <1>2 DEF ClaimsAreCollected, Settled

\* A claim that wins found no settled sibling, so no second payment settles.
LEMMA OneSuccessStep == TypeInv /\ MoneyInv /\ [Next]_vars => OneEffectiveSuccess'
<1> SUFFICES ASSUME TypeInv, MoneyInv, [Next]_vars,
                    NEW a \in Attempts, NEW b \in Attempts,
                    payment'[a] = "SUCCESS", payment'[b] = "SUCCESS"
             PROVE  a = b
  BY DEF OneEffectiveSuccess, Settled
<1>1. PaymentTyped
  BY TypeParts
<1>2. CASE payment[a] = "SUCCESS" /\ payment[b] = "SUCCESS"
  BY <1>2 DEF MoneyInv, OneEffectiveSuccess, Settled
<1>3. CASE payment[a] # "SUCCESS"
  BY <1>1, <1>3, PaymentRows DEF Settled, PaymentTyped
<1>4. CASE payment[b] # "SUCCESS"
  BY <1>1, <1>4, PaymentRows DEF Settled, PaymentTyped
<1>5. QED
  BY <1>2, <1>3, <1>4

\* A handler in the order transition works on a settled payment.
LEMMA SettlersStep == TypeInv /\ MoneyInv /\ [Next]_vars => SettlersHaveSettled'
<1> SUFFICES ASSUME TypeInv, MoneyInv, [Next]_vars,
                    NEW p \in Handlers, h'[p].pc \in Settling
             PROVE  payment'[h'[p].att] = "SUCCESS"
  BY DEF SettlersHaveSettled
<1>0. SettlersHaveSettled /\ HandlersInv /\ PaymentTyped
  BY TypeParts DEF MoneyInv
<1> USE DEF TERMINAL_PAYMENT_STATUSES
<1>1. CASE h'[p] = h[p]
  <2>1. h[p].att \in Attempts /\ payment[h[p].att] = "SUCCESS"
    BY <1>0, <1>1, AttemptOf DEF SettlersHaveSettled, Settling
  <2>2. QED
    BY <1>1, <2>1, PaymentRows
<1>2. CASE h'[p] # h[p]
  <2>1. CASE PayReadOrder(p) \/ PayClaimOrder(p) \/ SettleBreadcrumbs(p)
    <3>1. h[p].att \in Attempts /\ payment[h[p].att] = "SUCCESS"
      BY <1>0, <2>1, AttemptOf
         DEF PayReadOrder, PayClaimOrder, SettleBreadcrumbs, SettlersHaveSettled, Settling
    <3>2. h'[p].att = h[p].att
      BY <1>0, <2>1, AfterIdle, AfterGoingOn, AfterOrderTransition
         DEF PayReadOrder, PayClaimOrder, SettleBreadcrumbs, Return, Settling
    <3>3. QED
      BY <3>1, <3>2, PaymentRows
  <2>2. CASE WebhookRecover(p) \/ VerifyLoad(p)
    <3>1. h[p].att \in Attempts
      BY <1>0, <2>2, AttemptOf DEF WebhookRecover, VerifyLoad
    <3>2. h'[p].att = h[p].att /\ payment[h[p].att] = "SUCCESS"
      BY <1>0, <2>2, AfterAt, AfterIdle, AfterPaying
         DEF WebhookRecover, VerifyLoad, Return, Settling
    <3>3. QED
      BY <3>1, <3>2, PaymentRows
  <2>3. CASE h'[p].pc = "pay_read" /\ (WebhookClaim(p) \/ VerifyClaim(p))
    <3>1. h[p].att \in Attempts
      BY <1>0, <2>3, AttemptOf DEF WebhookClaim, VerifyClaim
    <3>2. /\ h'[p].att = h[p].att /\ ApplySuccessClaim(h[p].att)
          /\ SuccessClaim(h[p].att) \in {"claimed", "already_success"}
      BY <1>0, <2>3, AfterAt, AfterIdle, AfterPaying DEF WebhookClaim, VerifyClaim, Return
    <3>3. CASE SuccessClaim(h[p].att) = "claimed"
      BY <1>0, <3>1, <3>2, <3>3 DEF ApplySuccessClaim, PaymentTyped
    <3>4. CASE SuccessClaim(h[p].att) = "already_success"
      BY <1>0, <3>1, <3>2, <3>4
         DEF ApplySuccessClaim, SuccessClaim, PaymentTyped, CLAIMABLE_PAYMENT_STATUSES
    <3>5. QED
      BY <3>2, <3>3, <3>4
  <2>4. QED
    BY <1>0, <1>2, <2>1, <2>2, <2>3, Arrivals DEF Settling
<1>3. QED
  BY <1>1, <1>2

\* An order becomes PAID through a handler whose payment has settled.
LEMMA PaidStep == TypeInv /\ MoneyInv /\ [Next]_vars => PaidIsSettled'
<1> SUFFICES ASSUME TypeInv, MoneyInv, [Next]_vars, order' = "PAID"
             PROVE  \E a \in Attempts : payment'[a] = "SUCCESS"
  BY DEF PaidIsSettled, Settled
<1>1. \E a \in Attempts : payment[a] = "SUCCESS"
  <2>1. CASE order = "PAID"
    BY <2>1 DEF MoneyInv, PaidIsSettled, Settled
  <2>2. CASE order # "PAID"
    <3>1. PICK p \in Settlers : h[p].pc = "pay_claim"
      BY <2>2, OrderRow
    <3>2. QED
      BY <3>1, AttemptOf DEF TypeInv, MoneyInv, SettlersHaveSettled, Settling, Handlers
  <2>3. QED
    BY <2>1, <2>2
<1>2. QED
  BY <1>1, PaymentRows DEF TERMINAL_PAYMENT_STATUSES

\* A handler at the fan-out has seen its order PAID, and PAID stays.
LEMMA FanoutStep == TypeInv /\ MoneyInv /\ [Next]_vars => FanoutIsPaid'
<1> SUFFICES ASSUME TypeInv, MoneyInv, [Next]_vars PROVE FanoutIsPaid'
  OBVIOUS
<1>0. FanoutIsPaid /\ HandlersInv
  BY TypeParts DEF MoneyInv
<1>1. order = "PAID" => order' = "PAID"
  BY OrderRow
<1>2. ASSUME NEW p \in Handlers,
             h'[p].pc = "fanout" \/ (h'[p].pc = "breadcrumbs" /\ h'[p].anomaly = "none")
      PROVE  order' = "PAID"
  <2>1. CASE h'[p] = h[p]
    BY <1>0, <1>1, <1>2, <2>1 DEF FanoutIsPaid
  <2>2. CASE SettleBreadcrumbs(p) /\ h'[p].pc = "fanout"
    BY <1>0, <1>1, <2>2, AfterIdle DEF SettleBreadcrumbs, Return, FanoutIsPaid
  <2>3. CASE PayReadOrder(p) /\ h'[p].pc = "breadcrumbs" /\ h'[p].anomaly = "none"
    BY <1>0, <1>1, <2>3, AfterGoingOn, AfterOrderTransition DEF PayReadOrder
  <2>4. CASE PayClaimOrder(p) /\ h'[p].pc = "breadcrumbs" /\ h'[p].anomaly = "none"
    BY <1>0, <2>4, AfterOrderTransition DEF PayClaimOrder
  <2>5. QED
    BY <1>0, <1>2, <2>1, <2>2, <2>3, <2>4, Arrivals
<1>3. TasksOnlyForPaidOrder'
  BY <1>0, <1>1, Writers
     DEF FanoutIsPaid, TasksOnlyForPaidOrder, TasksWritten, EnsureFulfilments,
         SettleFanout, Settlers, Handlers
<1>4. QED
  BY <1>2, <1>3 DEF FanoutIsPaid

\* The money invariant is preserved by every step.
LEMMA MoneyStep == TypeInv /\ MoneyInv /\ [Next]_vars => MoneyInv'
  BY CallsStep, ClaimsStep, OneSuccessStep, SettlersStep, PaidStep, FanoutStep
     DEF MoneyInv

\* Types and money, together, hold in every reachable state.
LEMMA Inductive == Spec => [](TypeInv /\ MoneyInv)
  BY InitType, InitMoney, TypeStep, MoneyStep, PTL DEF Spec

-------------------------------------------------------------------------------
(***************************************************************************)
(* The events on record and the audits.                                    *)
(***************************************************************************)

EventsInv ==
    /\ AckedIsRecorded
    /\ \A p \in Webhooks : h[p].pc \in Recorded => event[h[p].att] # "NONE"
    /\ ProcessedIsSettled

\* The one handler that claimed an attempt has yet to audit it.
ToAudit == {"pay_read", "pay_claim", "breadcrumbs"}
Auditor(p) == h[p].pc \in ToAudit /\ h[p].mode = "claimed"

AuditInv ==
    /\ SuccessAuditedOnce
    /\ \A p \in Handlers : Auditor(p) => audited[h[p].att] = 0
    /\ \A p, q \in Handlers :
            Auditor(p) /\ Auditor(q) /\ h[p].att = h[q].att => p = q

\* The event invariant holds at the start.
LEMMA InitEvents == Init => EventsInv
  BY DEF Init, EventsInv, AckedIsRecorded, ProcessedIsSettled, Recorded, Idle, Handlers,
     Settlers

\* The audit invariant holds at the start.
LEMMA InitAudit == Init => AuditInv
  BY DEF Init, AuditInv, SuccessAuditedOnce, Auditor, ToAudit, Idle

\* An event that is on record stays on record.
LEMMA EventStays ==
    ASSUME TypeInv, [Next]_vars, NEW a \in Attempts
    PROVE  /\ event[a] # "NONE" => event'[a] = event[a]
           /\ event'[a] = "PROCESSED" /\ event[a] # "PROCESSED" => payment'[a] = "SUCCESS"
<1>1. EventTyped /\ PaymentTyped /\ HandlersInv
  BY TypeParts
<1>2. CASE event' = event
  BY <1>2
<1>3. ASSUME NEW p \in Webhooks, WebhookRefuse(p)
      PROVE  /\ event[a] # "NONE" => event'[a] = event[a]
             /\ event'[a] = "PROCESSED" => event[a] = "PROCESSED"
  BY <1>1, <1>3 DEF EventTyped, WebhookRefuse
<1>4. ASSUME NEW p \in Webhooks, WebhookClaim(p)
      PROVE  /\ event[a] # "NONE" => event'[a] = event[a]
             /\ event'[a] = "PROCESSED" /\ event[a] # "PROCESSED" => payment'[a] = "SUCCESS"
  <2>1. h[p].att \in Attempts
    BY <1>1, <1>4, AttemptOf DEF WebhookClaim, Handlers, Settlers
  <2>2. CASE event[h[p].att] # "NONE"
    BY <1>4, <2>2 DEF WebhookClaim
  <2>3. CASE event[h[p].att] = "NONE"
    BY <1>1, <1>4, <2>1, <2>3
       DEF WebhookClaim, EventTyped, PaymentTyped, ApplySuccessClaim
  <2>4. QED
    BY <2>2, <2>3
<1>5. QED
  BY <1>2, <1>3, <1>4, Writers DEF EventWritten

\* The event invariant is preserved by every step.
LEMMA EventsStep == TypeInv /\ EventsInv /\ [Next]_vars => EventsInv'
<1> SUFFICES ASSUME TypeInv, EventsInv, [Next]_vars PROVE EventsInv'
  OBVIOUS
<1>0. EventTyped /\ HandlersInv /\ AckedTyped
  BY TypeParts
<1>1. ASSUME NEW p \in Webhooks, h'[p].pc \in Recorded
      PROVE  event'[h'[p].att] # "NONE"
  <2>0. p \in Handlers /\ p \notin Verifiers /\ p \notin Initialisers
    BY SettlementAssumption DEF Handlers, Settlers
  <2>1. CASE h'[p] = h[p]
    BY <1>0, <1>1, <2>0, <2>1, AttemptOf, EventStays DEF EventsInv, Recorded
  <2>2. CASE /\ PayReadOrder(p) \/ PayClaimOrder(p) \/ SettleBreadcrumbs(p) \/ WebhookRecover(p)
             /\ h'[p].pc \in Recorded
    <3>1. h[p].att \in Attempts /\ event[h[p].att] # "NONE"
      BY <1>0, <2>0, <2>2, AttemptOf
         DEF PayReadOrder, PayClaimOrder, SettleBreadcrumbs, WebhookRecover, EventsInv, Recorded
    <3>2. h'[p].att = h[p].att
      BY <1>0, <2>0, <2>2, AfterIdle, AfterGoingOn, AfterOrderTransition, AfterPaying
         DEF PayReadOrder, PayClaimOrder, SettleBreadcrumbs, WebhookRecover, Return, Recorded
    <3>3. QED
      BY <3>1, <3>2, EventStays
  <2>3. CASE (WebhookRefuse(p) \/ WebhookClaim(p)) /\ h'[p].pc \in Recorded
    <3>1. h[p].att \in Attempts
      BY <1>0, <2>0, <2>3, AttemptOf DEF WebhookRefuse, WebhookClaim
    <3>2. h'[p].att = h[p].att
      BY <1>0, <2>0, <2>3, AfterAt, AfterIdle, AfterPaying
         DEF WebhookRefuse, WebhookClaim, Return, Recorded
    <3>3. event'[h[p].att] # "NONE"
      BY <1>0, <2>3, <3>1 DEF WebhookRefuse, WebhookClaim, EventTyped
    <3>4. QED
      BY <3>2, <3>3
  <2>4. CASE h'[p] # h[p]
    <3>1. ~VerifyAsk(p) \/ h'[p].pc \notin Recorded
      BY <1>0, <2>0, AfterAt, AfterIdle DEF VerifyAsk, Recorded
    <3>2. QED
      BY <1>0, <1>1, <2>0, <2>2, <2>3, <2>4, Arrivals DEF Recorded
  <2>5. QED
    BY <2>1, <2>4
<1>2. ASSUME NEW a \in Attempts, acked'[a]
      PROVE  event'[a] # "NONE"
  <2>1. CASE acked[a]
    BY <2>1, EventStays DEF EventsInv, AckedIsRecorded
  <2>2. CASE ~acked[a]
    <3>1. PICK p \in Webhooks :
                /\ WebhookRefuse(p) \/ WebhookClaim(p) \/ h[p].pc \in Recorded
                /\ Return(p) /\ h[p].att = a
      BY <1>0, <1>2, <2>2, Writers DEF AckedWritten, Return, AckedTyped
    <3>2. CASE h[p].pc \in Recorded
      BY <3>1, <3>2, EventStays DEF EventsInv
    <3>3. CASE WebhookRefuse(p) \/ WebhookClaim(p)
      BY <1>0, <3>1, <3>3 DEF WebhookRefuse, WebhookClaim, EventTyped
    <3>4. QED
      BY <3>1, <3>2, <3>3
  <2>3. QED
    BY <2>1, <2>2
<1>3. ProcessedIsSettled'
  BY EventStays, PaymentRows
     DEF EventsInv, ProcessedIsSettled, Settled, TERMINAL_PAYMENT_STATUSES
<1>4. QED
  BY <1>1, <1>2, <1>3 DEF EventsInv, AckedIsRecorded

\* An auditor goes on, or has just claimed an attempt that was not settled.
LEMMA AuditorArrives ==
    ASSUME TypeInv, [Next]_vars, NEW p \in Handlers,
           h'[p].pc \in ToAudit, h'[p].mode = "claimed"
    PROVE  \/ Auditor(p) /\ h'[p].att = h[p].att /\ h[p].att \in Attempts
           \/ /\ h'[p].att \in Attempts /\ payment[h'[p].att] # "SUCCESS"
              /\ audited' = audited
              /\ h' = [h EXCEPT ![p] = h'[p]]
<1>1. HandlersInv /\ PaymentTyped
  BY TypeParts
<1>2. CASE h'[p] = h[p]
  BY <1>1, <1>2, AttemptOf DEF Auditor, ToAudit
<1>3. CASE PayReadOrder(p) \/ PayClaimOrder(p)
  BY <1>1, <1>3, AttemptOf, AfterIdle, AfterGoingOn, AfterOrderTransition
     DEF PayReadOrder, PayClaimOrder, Return, Auditor, ToAudit
<1>4. CASE WebhookRecover(p) \/ VerifyLoad(p)
  BY <1>1, <1>4, AfterAt, AfterIdle, AfterPaying
     DEF WebhookRecover, VerifyLoad, Return, ToAudit
<1>5. CASE WebhookClaim(p) \/ VerifyClaim(p)
  <2>1. h[p].att \in Attempts
    BY <1>1, <1>5, AttemptOf DEF WebhookClaim, VerifyClaim
  <2>2. SuccessClaim(h[p].att) = "claimed" /\ Become(p, Paying(h[p].att, "claimed"))
    BY <1>1, <1>5, AfterAt, AfterIdle, AfterPaying DEF WebhookClaim, VerifyClaim, Return, ToAudit
  <2>3. payment[h[p].att] # "SUCCESS"
    BY <2>2 DEF SuccessClaim
  <2>4. audited' = audited
    BY <1>5 DEF WebhookClaim, VerifyClaim, trailVars
  <2>5. h' = [h EXCEPT ![p] = h'[p]] /\ h'[p].att = h[p].att
    BY <1>1, <2>2, AfterPaying DEF Become, HandlersInv, HandlersTyped
  <2>6. QED
    BY <2>1, <2>3, <2>4, <2>5
<1>6. QED
  BY <1>1, <1>2, <1>3, <1>4, <1>5, Arrivals DEF ToAudit

\* The success audit is written by an auditor, which then is none any more.
LEMMA AuditWrites ==
    ASSUME TypeInv, [Next]_vars
    PROVE  \/ audited' = audited
           \/ \E p \in Handlers :
                /\ Auditor(p) /\ h[p].pc = "breadcrumbs" /\ h[p].att \in Attempts
                /\ audited' = [audited EXCEPT ![h[p].att] = @ + 1]
                /\ h'[p].pc \notin ToAudit
<1>1. HandlersInv
  BY TypeParts
<1>2. CASE \E p \in Settlers : AuditSuperseded(p)
  BY <1>2 DEF AuditSuperseded
<1>3. ASSUME NEW p \in Settlers, SettleBreadcrumbs(p), audited' # audited
      PROVE  /\ Auditor(p) /\ h[p].pc = "breadcrumbs" /\ h[p].att \in Attempts
             /\ audited' = [audited EXCEPT ![h[p].att] = @ + 1]
             /\ h'[p].pc \notin ToAudit
  BY <1>1, <1>3, AttemptOf, AfterIdle, AfterGoingOn
     DEF SettleBreadcrumbs, Return, Auditor, ToAudit, Handlers
<1>4. QED
  BY <1>2, <1>3, Writers DEF AuditsWritten, Handlers

\* The audit invariant is preserved: one handler only carries the claim to its audit.
LEMMA AuditStep == TypeInv /\ MoneyInv /\ AuditInv /\ [Next]_vars => AuditInv'
<1> SUFFICES ASSUME TypeInv, MoneyInv, AuditInv, [Next]_vars PROVE AuditInv'
  OBVIOUS
<1>0. AuditedTyped /\ SettlersHaveSettled /\ HandlersInv
  BY TypeParts DEF MoneyInv
<1>1. ASSUME NEW a \in Attempts
      PROVE  audited'[a] <= 1 /\ (audited'[a] = 1 => payment'[a] = "SUCCESS")
  <2>1. CASE audited' = audited
    BY <2>1, PaymentRows
       DEF AuditInv, SuccessAuditedOnce, Settled, TERMINAL_PAYMENT_STATUSES
  <2>2. ASSUME NEW p \in Handlers, Auditor(p), h[p].att \in Attempts,
               audited' = [audited EXCEPT ![h[p].att] = @ + 1]
        PROVE  audited'[a] <= 1 /\ (audited'[a] = 1 => payment'[a] = "SUCCESS")
    <3>1. audited[h[p].att] = 0 /\ payment[h[p].att] = "SUCCESS"
      BY <1>0, <2>2 DEF AuditInv, Auditor, ToAudit, SettlersHaveSettled, Settling
    <3>2. CASE a = h[p].att
      BY <1>0, <2>2, <3>1, <3>2, PaymentRows DEF AuditedTyped, TERMINAL_PAYMENT_STATUSES
    <3>3. CASE a # h[p].att
      BY <1>0, <2>2, <3>3, PaymentRows
         DEF AuditedTyped, AuditInv, SuccessAuditedOnce, Settled, TERMINAL_PAYMENT_STATUSES
    <3>4. QED
      BY <3>2, <3>3
  <2>3. QED
    BY <2>1, <2>2, AuditWrites
<1>2. ASSUME NEW p \in Handlers, h'[p].pc \in ToAudit, h'[p].mode = "claimed"
      PROVE  audited'[h'[p].att] = 0
  <2>1. CASE Auditor(p) /\ h'[p].att = h[p].att /\ h[p].att \in Attempts
    <3>1. audited[h[p].att] = 0
      BY <2>1 DEF AuditInv
    <3>2. ASSUME NEW q \in Handlers, Auditor(q), h'[q].pc \notin ToAudit
          PROVE  h[q].att # h[p].att
      BY <1>2, <2>1, <3>2 DEF AuditInv
    <3>3. QED
      BY <1>0, <2>1, <3>1, <3>2, AuditWrites DEF AuditedTyped
  <2>2. CASE /\ h'[p].att \in Attempts /\ payment[h'[p].att] # "SUCCESS"
             /\ audited' = audited
    BY <1>0, <2>2 DEF AuditInv, SuccessAuditedOnce, Settled, AuditedTyped
  <2>3. QED
    BY <1>2, <2>1, <2>2, AuditorArrives
<1>3. ASSUME NEW p \in Handlers, h'[p].pc \in ToAudit, h'[p].mode = "claimed",
             NEW q \in Handlers, h'[q].pc \in ToAudit, h'[q].mode = "claimed",
             h'[p].att = h'[q].att
      PROVE  p = q
  <2>1. CASE Auditor(p) /\ h'[p].att = h[p].att /\ Auditor(q) /\ h'[q].att = h[q].att
    BY <1>3, <2>1 DEF AuditInv
  <2>2. ASSUME NEW r \in Handlers, NEW s \in Handlers, r # s, h'[r].att = h'[s].att,
               payment[h'[r].att] # "SUCCESS", h' = [h EXCEPT ![r] = h'[r]],
               h'[s].pc \in ToAudit, h'[s].mode = "claimed"
        PROVE  FALSE
    <3>1. h'[s] = h[s]
      BY <1>0, <2>2 DEF HandlersInv, HandlersTyped
    <3>2. payment[h[s].att] = "SUCCESS"
      BY <2>2, <3>1, <1>0 DEF SettlersHaveSettled, Settling, ToAudit
    <3>3. QED
      BY <2>2, <3>1, <3>2
  <2>3. QED
    BY <1>3, <2>1, <2>2, AuditorArrives
<1>4. QED
  BY <1>1, <1>2, <1>3 DEF AuditInv, SuccessAuditedOnce, Settled, Auditor

-------------------------------------------------------------------------------
(***************************************************************************)
(* What is begun is carried through.                                       *)
(***************************************************************************)

\* A handler that has yet to move the order of a settled attempt, or to flag the
\* attempt because the order could not be moved.  A healer flags nothing.
Carrying(p, a) ==
    /\ h[p].att = a /\ h[p].mode # "heal"
    /\ \/ h[p].pc \in {"pay_read", "pay_claim"}
       \/ h[p].pc = "breadcrumbs" /\ h[p].anomaly # "none"

Resolved(a) == order = "PAID" \/ (order = "CANCELLED" /\ flags[a] # {})

CarriedInv ==
    /\ \A p \in Handlers : h[p].pc = "breadcrumbs" => order # "PENDING"
    /\ NoFaults => \A a \in Settled : Resolved(a) \/ \E p \in Handlers : Carrying(p, a)

LEMMA InitCarried == Init => CarriedInv
  BY DEF Init, CarriedInv, Idle, Settled

\* Whoever claims an attempt carries it.
LEMMA ClaimCarries ==
    ASSUME TypeInv, [Next]_vars, NEW a \in Attempts,
           payment[a] # "SUCCESS", payment'[a] = "SUCCESS"
    PROVE  \E p \in Handlers : Carrying(p, a)'
<1>1. PaymentTyped /\ HandlersInv
  BY TypeParts
<1>2. ASSUME NEW p \in Settlers, WebhookClaim(p) \/ VerifyClaim(p)
      PROVE  Carrying(p, a)'
  <2>1. p \in Handlers /\ h[p].att \in Attempts /\ h[p].pc = "claim"
    BY <1>1, <1>2, AttemptOf DEF WebhookClaim, VerifyClaim, Handlers
  <2>2. ApplySuccessClaim(h[p].att)
    BY <1>2 DEF WebhookClaim, VerifyClaim
  <2>3. SuccessClaim(h[p].att) = "claimed" /\ a = h[p].att
    BY <1>1, <2>1, <2>2, ClaimedOnly DEF PaymentTyped
  <2>4. Become(p, Paying(a, "claimed"))
    BY <1>2, <2>3 DEF WebhookClaim, VerifyClaim
  <2>5. h'[p].pc = "pay_read" /\ h'[p].att = a /\ h'[p].mode = "claimed"
    BY <1>1, <2>1, <2>4, AfterPaying
  <2>6. QED
    BY <2>5 DEF Carrying
<1>3. ~ \E p \in Initialisers : InitialiseCreate(p) \/ InitialisePersist(p)
  BY <1>1 DEF PaymentTyped, InitialiseCreate, InitialisePersist
<1>4. ~ \E p \in Verifiers : VerifyFail(p)
  BY <1>1 DEF PaymentTyped, VerifyFail
<1>5. \E p \in Settlers : WebhookClaim(p) \/ VerifyClaim(p)
  BY <1>3, <1>4, Writers DEF PaymentWritten, Settlers
<1>6. QED
  BY <1>2, <1>5 DEF Handlers

\* Flags are never taken back.
LEMMA FlagsStay ==
    ASSUME TypeInv, [Next]_vars, NEW a \in Attempts
    PROVE  flags[a] \subseteq flags'[a]
<1>1. FlagsTyped /\ HandlersInv
  BY TypeParts
<1>2. ASSUME NEW p \in Settlers, AuditSuperseded(p) \/ SettleBreadcrumbs(p)
      PROVE  flags[a] \subseteq flags'[a]
  <2>1. h[p].att \in Attempts
    BY <1>1, <1>2, AttemptOf DEF AuditSuperseded, SettleBreadcrumbs, Handlers
  <2>2. QED
    BY <1>1, <1>2, <2>1 DEF AuditSuperseded, SettleBreadcrumbs, FlagsTyped
<1>3. QED
  BY <1>2, Writers DEF AuditsWritten

\* A carrier that takes a step still carries the attempt, or has resolved it.
LEMMA CarrierMoves ==
    ASSUME TypeInv, MoneyInv, CarriedInv, [Next]_vars, NEW p \in Handlers, NEW a \in Attempts,
           Carrying(p, a), SettleStep(p)
    PROVE  Carrying(p, a)' \/ Resolved(a)'
<1>1. OrderTyped /\ FlagsTyped /\ HandlersInv
  BY TypeParts
<1>2. CASE PayReadOrder(p)
  <2>1. order' = order
    BY <1>2 DEF PayReadOrder, dbVars
  <2>2. CASE order = "PAID"
    BY <2>1, <2>2 DEF Resolved
  <2>3. CASE order = "PENDING"
    <3>1. Become(p, [h[p] EXCEPT !.pc = "pay_claim"])
      BY <1>1, <1>2, <2>3, PendingOnly DEF PayReadOrder
    <3>2. QED
      BY <1>1, <3>1, AfterGoingOn DEF Carrying
  <2>4. CASE order = "CANCELLED"
    <3>1. OrderTransitionDone(p, "order_cancelled")
      BY <1>1, <1>2, <2>4, PendingOnly DEF PayReadOrder
    <3>2. Become(p, [h[p] EXCEPT !.pc = "breadcrumbs", !.anomaly = "order_cancelled"])
      BY <3>1 DEF OrderTransitionDone, Carrying
    <3>3. QED
      BY <1>1, <3>2 DEF Carrying, Become, HandlersInv, HandlersTyped, HandlerState
  <2>5. QED
    BY <1>1, <2>2, <2>3, <2>4 DEF OrderTyped
<1>3. CASE PayClaimOrder(p)
  <2>1. CASE order = "PENDING"
    BY <1>3, <2>1 DEF PayClaimOrder, Resolved
  <2>2. CASE order # "PENDING"
    <3>1. Become(p, [h[p] EXCEPT !.pc = "breadcrumbs", !.anomaly = "invalid_transition"])
      BY <1>3, <2>2 DEF PayClaimOrder, OrderTransitionDone, Carrying
    <3>2. QED
      BY <1>1, <3>1 DEF Carrying, Become, HandlersInv, HandlersTyped, HandlerState
  <2>3. QED
    BY <2>1, <2>2
<1>4. CASE SettleBreadcrumbs(p)
  <2>1. h[p].pc = "breadcrumbs" /\ h[p].anomaly # "none" /\ h[p].att = a
    BY <1>4 DEF SettleBreadcrumbs, Carrying
  <2>2. order \in {"PAID", "CANCELLED"} /\ order' = order
    BY <1>1, <1>4, <2>1 DEF CarriedInv, OrderTyped, SettleBreadcrumbs, dbVars
  <2>3. flags' = [flags EXCEPT ![a] = @ \cup {h[p].anomaly}]
    BY <1>4, <2>1 DEF SettleBreadcrumbs
  <2>4. flags'[a] # {}
    BY <1>1, <2>3 DEF FlagsTyped
  <2>5. QED
    BY <2>2, <2>4 DEF Resolved
<1>5. QED
  BY <1>2, <1>3, <1>4 DEF SettleStep, AuditSuperseded, SettleFanout, Carrying

LEMMA CarriedStep == TypeInv /\ MoneyInv /\ CarriedInv /\ [Next]_vars => CarriedInv'
<1> SUFFICES ASSUME TypeInv, MoneyInv, CarriedInv, [Next]_vars PROVE CarriedInv'
  OBVIOUS
<1>0. OrderTyped /\ HandlersInv /\ FaultsTyped
  BY TypeParts
<1>1. ASSUME NEW p \in Handlers, h'[p].pc = "breadcrumbs"
      PROVE  order' # "PENDING"
  <2>1. CASE h'[p] = h[p]
    BY <1>1, <2>1, OrderRow DEF CarriedInv
  <2>2. CASE PayReadOrder(p)
    <3>1. order # "PENDING"
      BY <1>0, <1>1, <2>2, PendingOnly, AfterGoingOn DEF PayReadOrder
    <3>2. QED
      BY <3>1, OrderRow
  <2>3. CASE PayClaimOrder(p)
    BY <2>3 DEF PayClaimOrder
  <2>4. QED
    BY <1>0, <1>1, <2>1, <2>2, <2>3, Arrivals
<1>2. ASSUME faultsLeft' = MaxFaults, NEW a \in Attempts, payment'[a] = "SUCCESS"
      PROVE  Resolved(a)' \/ \E p \in Handlers : Carrying(p, a)'
  <2>1. NoFaults /\ ~ \E p \in Handlers : Crash(p)
    BY <1>0, <1>2, Writers, SettlementAssumption DEF FaultsWritten, FaultsTyped, NoFaults, Crash
  <2>2. CASE payment[a] # "SUCCESS"
    BY <1>2, <2>2, ClaimCarries
  <2>3. CASE payment[a] = "SUCCESS" /\ Resolved(a)
    BY <2>3, OrderRow, FlagsStay DEF Resolved
  <2>4. ASSUME NEW p \in Handlers, Carrying(p, a)
        PROVE  Resolved(a)' \/ \E q \in Handlers : Carrying(q, a)'
    <3>1. CASE h'[p] = h[p]
      BY <2>4, <3>1 DEF Carrying
    <3>2. CASE SettleStep(p)
      BY <2>4, <3>2, CarrierMoves
    <3>3. h'[p] = h[p] \/ SettleStep(p)
      BY <1>0, <2>1, <2>4, Mover
         DEF Carrying, InitialiseStep, InitialiseReadOrder, InitialiseLookup, InitialiseCreate,
             InitialiseCall, InitialisePersist, InitialiseOutOfAttempts, WebhookStep,
             WebhookArrive, WebhookCorroborate, WebhookRefuse, WebhookClaim, WebhookRecover,
             VerifyStep, VerifyReadSnapshot, VerifyLoad, VerifyAsk, VerifyFail, VerifyClaim
    <3>4. QED
      BY <3>1, <3>2, <3>3
  <2>5. QED
    BY <2>1, <2>2, <2>3, <2>4 DEF CarriedInv, Settled
<1>3. QED
  BY <1>1, <1>2 DEF CarriedInv, NoFaults, Settled

-------------------------------------------------------------------------------
(***************************************************************************)
(* The theorems.                                                           *)
(***************************************************************************)

IInv == TypeInv /\ MoneyInv /\ EventsInv /\ AuditInv /\ CarriedInv

\* The inductive invariant holds in every state of every behaviour.
THEOREM Invariant == Spec => []IInv
<1>1. Init => IInv
  BY InitType, InitMoney, InitEvents, InitAudit, InitCarried DEF IInv
<1>2. IInv /\ [Next]_vars => IInv'
  BY TypeStep, MoneyStep, EventsStep, AuditStep, CarriedStep DEF IInv
<1>3. QED
  BY <1>1, <1>2, PTL DEF Spec

\* payment-service.ts:61-70: no two payments settle one order, for any number of
\* attempts, handlers and faults.
THEOREM OneSuccess == Spec => []OneEffectiveSuccess
<1>1. IInv => OneEffectiveSuccess
  BY DEF IInv, MoneyInv
<1>2. QED
  BY <1>1, Invariant, PTL

\* A PAID order has a settled payment whose exact amount Paystack has collected.
THEOREM PaidBacked == Spec => []PaidIsBacked
<1>1. IInv => PaidIsBacked
  BY DEF IInv, MoneyInv, PaidIsSettled, ClaimsAreCollected, PaidIsBacked, Settled
<1>2. QED
  BY <1>1, Invariant, PTL

\* Supplier tasks exist only for a paid order.
THEOREM TasksBacked == Spec => []TasksOnlyForPaidOrder
<1>1. IInv => TasksOnlyForPaidOrder
  BY DEF IInv, MoneyInv, FanoutIsPaid
<1>2. QED
  BY <1>1, Invariant, PTL

\* An answered event is on record, and a processed one belongs to a settled payment.
THEOREM EventsKept == Spec => [](AckedIsRecorded /\ ProcessedIsSettled)
<1>1. IInv => AckedIsRecorded /\ ProcessedIsSettled
  BY DEF IInv, EventsInv
<1>2. QED
  BY <1>1, Invariant, PTL

\* payment-service.ts:409-413: an attempt is audited as a success at most once,
\* and only when it settled.
THEOREM AuditedOnce == Spec => []SuccessAuditedOnce
<1>1. IInv => SuccessAuditedOnce
  BY DEF IInv, AuditInv
<1>2. QED
  BY <1>1, Invariant, PTL

\* As long as no handler is lost, no settled payment is forgotten half-way: once all
\* handlers have returned, its order is PAID, or was cancelled first and the money
\* is flagged (settleSuccessfulPayment, payment-service.ts).
THEOREM NothingForgotten == Spec => []NothingLeftHalfway
<1>1. IInv => NothingLeftHalfway
  BY DEF IInv, EventsInv, CarriedInv, NothingLeftHalfway, Quiescent, Carrying, Resolved
<1>2. QED
  BY <1>1, Invariant, PTL

\* A step moves an attempt along PAYMENT_TRANSITIONS, or creates it PENDING.
LEMMA LegalPaymentMove ==
    ASSUME TypeInv, [Next]_vars, NEW a \in Attempts, payment'[a] # payment[a]
    PROVE  \/ payment[a] = "ABSENT" /\ payment'[a] = "PENDING"
           \/ CanPaymentTransition(payment[a], payment'[a])
<1>1. PaymentTyped /\ HandlersInv
  BY TypeParts
<1>2. /\ {"PROCESSING", "SUCCESS", "FAILED"} \subseteq PAYMENT_TRANSITIONS["PENDING"]
      /\ {"SUCCESS", "FAILED"} \subseteq PAYMENT_TRANSITIONS["PROCESSING"]
  BY DEF PAYMENT_TRANSITIONS, PaymentStatus
<1>3. ASSUME NEW p \in Initialisers, InitialiseCreate(p)
      PROVE  payment[a] = "ABSENT" /\ payment'[a] = "PENDING"
  BY <1>1, <1>3 DEF PaymentTyped, InitialiseCreate, Created
<1>4. ASSUME NEW p \in Initialisers, InitialisePersist(p)
      PROVE  payment[a] = "PENDING" /\ payment'[a] = "PROCESSING"
  BY <1>1, <1>4 DEF PaymentTyped, InitialisePersist
<1>5. ASSUME NEW p \in Settlers, h[p].pc = "claim", ApplySuccessClaim(h[p].att)
      PROVE  payment[a] \in CLAIMABLE_PAYMENT_STATUSES /\ payment'[a] = "SUCCESS"
  <2>1. h[p].att \in Attempts
    BY <1>1, <1>5, AttemptOf DEF Handlers
  <2>2. QED
    BY <1>1, <1>5, <2>1, ClaimedOnly DEF PaymentTyped
<1>6. ASSUME NEW p \in Verifiers, VerifyFail(p)
      PROVE  payment[a] \in CLAIMABLE_PAYMENT_STATUSES /\ payment'[a] = "FAILED"
  BY <1>1, <1>6 DEF PaymentTyped, VerifyFail
<1>7. ASSUME NEW p \in Webhooks, WebhookClaim(p)
      PROVE  h[p].pc = "claim" /\ ApplySuccessClaim(h[p].att)
  <2>1. CASE event[h[p].att] # "NONE"
    BY <1>7, <2>1 DEF WebhookClaim
  <2>2. CASE event[h[p].att] = "NONE"
    BY <1>7, <2>2 DEF WebhookClaim
  <2>3. QED
    BY <2>1, <2>2
<1>8. ASSUME NEW p \in Verifiers, VerifyClaim(p)
      PROVE  h[p].pc = "claim" /\ ApplySuccessClaim(h[p].att)
  BY <1>8 DEF VerifyClaim
<1>9. PaymentWritten
  BY Writers
<1>10. QED
  BY <1>2, <1>3, <1>4, <1>5, <1>6, <1>7, <1>8, <1>9
     DEF PaymentWritten, Settlers, CanPaymentTransition, CLAIMABLE_PAYMENT_STATUSES

\* The order leaves PENDING only, for a status that ORDER_TRANSITIONS allows.
LEMMA LegalOrderMove ==
    ASSUME TypeInv, [Next]_vars, order' # order
    PROVE  CanTransitionOrder(order, order')
<1>1. order = "PENDING" /\ order' \in {"PAID", "CANCELLED"}
  BY OrderRow
<1>2. ORDER_TRANSITIONS["PENDING"] = {"PAID", "CANCELLED"}
  BY DEF ORDER_TRANSITIONS, OrderStatus
<1>3. QED
  BY <1>1, <1>2 DEF CanTransitionOrder

\* Statuses move along the tables only: an assertPaymentTransition or
\* assertOrderTransition placed at the write, not at the read, would never throw.
THEOREM LegalMoves == Spec => OnlyLegalMoves
<1>1. TypeInv /\ [Next]_vars =>
        [/\ \A a \in Attempts :
                payment'[a] # payment[a] =>
                    \/ payment[a] = "ABSENT" /\ payment'[a] = "PENDING"
                    \/ CanPaymentTransition(payment[a], payment'[a])
         /\ order' # order => CanTransitionOrder(order, order')]_<<payment, order>>
  BY LegalPaymentMove, LegalOrderMove
<1>2. IInv => TypeInv
  BY DEF IInv
<1>3. QED
  BY <1>1, <1>2, Invariant, PTL DEF Spec, OnlyLegalMoves

\* The initial states map to the initial states of the promise.
LEMMA PromiseStart == Init => Promise!PromiseInit
  BY DEF Init, Promise!PromiseInit, Settled

\* Every step maps to a step of the promise or to a stutter.
LEMMA PromiseStep ==
    IInv /\ [Next]_vars => [Promise!PromiseNext]_<<order, Settled>>
<1> SUFFICES ASSUME IInv, [Next]_vars
             PROVE  [Promise!PromiseNext]_<<order, Settled>>
  OBVIOUS
<1>1. TypeInv /\ MoneyInv /\ PaymentTyped
  BY TypeParts DEF IInv
<1>2. ASSUME NEW a \in Attempts, payment[a] # "SUCCESS", payment'[a] = "SUCCESS"
      PROVE  Promise!Settle(a)
  <2>1. Settled = {} /\ payment' = [payment EXCEPT ![a] = "SUCCESS"]
    BY <1>1, <1>2, PaymentRows
  <2>2. Settled' = {a}
    BY <1>1, <2>1 DEF Settled, PaymentTyped
  <2>3. order' = order
    BY <1>2, Writers
       DEF OrderWritten, CancelOrder, PayClaimOrder
  <2>4. QED
    BY <2>1, <2>2, <2>3 DEF Promise!Settle
<1>3. CASE \A a \in Attempts : payment'[a] = "SUCCESS" => payment[a] = "SUCCESS"
  <2>1. Settled' = Settled
    BY <1>1, <1>3, PaymentRows DEF Settled, TERMINAL_PAYMENT_STATUSES
  <2>2. order = "PENDING" /\ order' = "PAID" => Settled # {}
    BY <1>1, OrderRow, AttemptOf
       DEF TypeInv, MoneyInv, SettlersHaveSettled, Settling, Settled, Handlers
  <2>3. QED
    BY <1>1, <2>1, <2>2, OrderRow
       DEF Promise!PromiseNext, Promise!MarkPaid, Promise!Cancel
<1>4. QED
  BY <1>2, <1>3 DEF Promise!PromiseNext

\* The handlers implement the promise of one order: it is settled once, paid only
\* after it was settled, and never leaves PAID or CANCELLED.
THEOREM Implements == Spec => ImplementsPromise
<1>1. QED
  BY PromiseStart, PromiseStep, Invariant, PTL
     DEF Spec, ImplementsPromise, Promise!PromiseSpec
===============================================================================
