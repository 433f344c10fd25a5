----------------------------- MODULE PaymentScreen -----------------------------
(***************************************************************************)
(* The buyer's payment screen for one order.                               *)
(*                                                                         *)
(* The browser creates the order, opens the hosted checkout in a popup and *)
(* asks the server what became of the payment: on a poll timer, when the   *)
(* popup reports, and when the buyer presses a button.  Answers are read   *)
(* on the server at one moment and applied at a later one, in any order.   *)
(***************************************************************************)
EXTENDS Naturals

CONSTANTS
    Fetches,      \* bound: status requests the page has under way
    MaxPresses    \* bound: buttons pressed and pages loaded

ASSUME ScreenAssumption == MaxPresses \in Nat

VARIABLES
    order,      \* what the server would answer: the order and its latest attempt
    taken,      \* a payment of the order is SUCCESS
    stage,      \* the page; "paying" when the pay section is there
    phase,      \* the pay section's phase
    busy,       \* its request under way: "no", "paying" or "checking"
    popups,     \* hosted checkouts open, by the screen that opened them
    fetch,      \* the status requests
    timers,     \* poll timers set
    held,       \* timerRef is one of them
    expired,    \* the poll window is over
    presses

screenVars ==
    <<order, taken, stage, phase, busy, popups, fetch, timers, held, expired, presses>>

\* A PENDING order has no attempt, or one that waits, failed or was collected; an
\* order that was cancelled may still have one that waits or was collected.
Payable    == {"none", "awaiting", "failed", "collected"}
Cancelled  == {"cancelled", "cancelled_awaiting", "cancelled_collected"}
Collected  == {"collected", "cancelled_collected", "paid"}
OrderState == {"absent", "paid"} \cup Payable \cup Cancelled
Settled    == {"failed"} \cup Cancelled \cup Collected
Screens    == {"checkout", "section"}
NoFetch    == [kind |-> "free"]
Seen       == OrderState \cup {"error", "gone"}

\* Mutant of PhaseOf: an attempt that waits is taken for a payment.
PhaseOfEager(s) ==
    CASE s \in Collected \cup {"awaiting"}                -> "succeeded"
      [] s \in {"failed", "cancelled", "cancelled_awaiting"} -> "failed"
      [] OTHER                                            -> "idle"

\* paymentPhaseFromSnapshot: a payment that was collected is a success, whatever
\* became of the order.
PhaseOf(s) ==
    CASE s \in Collected                                  -> "succeeded"
      [] s \in {"failed", "cancelled", "cancelled_awaiting"} -> "failed"
      [] s = "awaiting"                                   -> "awaiting"
      [] OTHER                                            -> "idle"

ScreenInit ==
    /\ order = "absent"
    /\ taken = FALSE
    /\ stage = "review"
    /\ phase = "idle"
    /\ busy = "no"
    /\ popups = [s \in Screens |-> 0]
    /\ fetch = [f \in Fetches |-> NoFetch]
    /\ timers = 0
    /\ held = FALSE
    /\ expired = FALSE
    /\ presses = 0

-------------------------------------------------------------------------------
Press ==
    /\ presses < MaxPresses
    /\ presses' = presses + 1

Send(kind) ==
    \E f \in Fetches :
        /\ fetch[f] = NoFetch
        /\ fetch' = [fetch EXCEPT ![f] = [kind |-> kind, at |-> "sent"]]

Got(f) ==
    fetch' = [fetch EXCEPT ![f] = NoFetch]

\* Only the timer the ref holds is cleared.
TimersLeft == IF held THEN timers - 1 ELSE timers

StopPolling ==
    /\ timers' = TimersLeft
    /\ held' = FALSE

\* The window starts anew; a tick under way keeps its own chain.
StartPolling ==
    /\ timers' = TimersLeft + 1
    /\ held' = TRUE
    /\ expired' = FALSE

\* The next tick is set without clearing what the ref held.
NextTick ==
    /\ timers' = timers + 1
    /\ held' = TRUE
    /\ UNCHANGED expired

\* applySnapshot: an open order with nothing awaited changes no phase.
ApplySnapshot(s) ==
    phase' = IF s \in Settled \cup {"awaiting"} THEN PhaseOf(s) ELSE phase

-------------------------------------------------------------------------------
(* The server, and Paystack's word reaching it.                            *)

\* An attempt is claimed, fails, or yields to an older one; the order follows, or is
\* cancelled first, by the buyer in another tab.
ServerMoves ==
    /\ \/ order = "awaiting"            /\ order' \in {"failed", "paid", "cancelled_awaiting"}
       \/ order = "awaiting" /\ ~taken  /\ order' = "collected"
       \/ order = "collected"           /\ order' \in {"paid", "cancelled_collected"}
       \/ order \in {"none", "failed"}  /\ order' = "cancelled"
       \/ order = "failed"              /\ order' = "paid"
       \/ order = "cancelled_awaiting"  /\ order' = "cancelled"
       \/ order = "cancelled_awaiting" /\ ~taken /\ order' = "cancelled_collected"
    /\ taken' = (taken \/ order' \in Collected)
    /\ UNCHANGED <<stage, phase, busy, popups, fetch, timers, held, expired, presses>>

\* initializePaystackPayment answers with a checkout for an order that is PENDING,
\* also for one whose payment was collected and not applied yet, or refuses.
MayInitialize == order \in Payable

-------------------------------------------------------------------------------
(* The checkout page.                                                      *)

PlaceOrder ==
    /\ stage = "review"
    /\ Press
    /\ stage' = "creating"
    /\ UNCHANGED <<order, taken, phase, busy, popups, fetch, timers, held, expired>>

\* A cart already turned into an order is empty; an answer may be lost.
OrderAnswered ==
    /\ stage = "creating"
    /\ order' = IF order = "absent" THEN "none" ELSE order
    /\ \/ order = "absent" /\ stage' = "opening"
       \/ stage' = "review"
    /\ UNCHANGED <<taken, phase, busy, popups, fetch, timers, held, expired, presses>>

\* The first checkout is opened by the page itself, which does not poll.
OpenFirst ==
    /\ stage = "opening"
    /\ stage' = "paying"
    /\ \/ UNCHANGED <<order, taken, popups>>
       \/ /\ MayInitialize
          /\ order' = "awaiting"
          /\ \/ popups' = [popups EXCEPT !["checkout"] = @ + 1]
             \/ UNCHANGED popups
    /\ UNCHANGED <<taken, phase, busy, fetch, timers, held, expired, presses>>

\* The order page is loaded, with the section when the order is PENDING: it starts
\* from the server's snapshot, and what the old page had under way is gone.
Mount ==
    /\ stage' = IF order \in Payable THEN "paying" ELSE "closed"
    /\ phase' = IF order \in Payable \ {"failed"} THEN PhaseOf(order) ELSE "idle"
    /\ timers' = IF order = "awaiting" THEN 1 ELSE 0
    /\ held' = (order = "awaiting")
    /\ expired' = FALSE
    /\ busy' = "no"
    /\ popups' = [s \in Screens |-> 0]
    /\ fetch' = [f \in Fetches |-> NoFetch]
    /\ UNCHANGED <<order, taken>>

OpenOrderPage ==
    /\ order # "absent"
    /\ Press
    /\ Mount

-------------------------------------------------------------------------------
(* The pay section.                                                        *)

PressPay ==
    /\ stage = "paying"
    /\ busy = "no"
    /\ phase \in {"idle", "failed", "timed_out"}
    /\ Press
    /\ busy' = "paying"
    /\ phase' = "initiating"
    /\ UNCHANGED <<order, taken, stage, popups, fetch, timers, held, expired>>

\* The checkout opened: wait for it.
PayOpened ==
    /\ phase' = "awaiting"
    /\ popups' = [popups EXCEPT !["section"] = @ + 1]
    /\ StartPolling

PayFailed ==
    /\ phase' = "failed"
    /\ UNCHANGED <<popups, timers, held, expired>>

\* Refused, answered, or answered and lost on the way back.
PayAnswered ==
    /\ busy = "paying"
    /\ busy' = "no"
    /\ \/ UNCHANGED order /\ PayFailed
       \/ /\ MayInitialize
          /\ order' = "awaiting"
          /\ PayOpened \/ PayFailed
    /\ UNCHANGED <<taken, stage, fetch, presses>>

\* Mutant of PopupReports: the popup's success is taken for the payment's.
PopupReportsTrusting(s) ==
    /\ popups[s] > 0
    /\ popups' = [popups EXCEPT ![s] = @ - 1]
    /\ phase' \in {"succeeded", "awaiting", "failed"}
    /\ UNCHANGED <<order, taken, stage, busy, fetch, timers, held, expired, presses>>

\* The popup closes.  Its success only makes the page ask the server.
PopupReports(s) ==
    /\ popups[s] > 0
    /\ popups' = [popups EXCEPT ![s] = @ - 1]
    /\ \/ Send(IF s = "checkout" THEN "leave" ELSE "confirm") /\ UNCHANGED phase
       \/ /\ phase' \in IF s = "checkout" THEN {phase} ELSE {"awaiting", "failed"}
          /\ UNCHANGED fetch
    /\ UNCHANGED <<order, taken, stage, busy, timers, held, expired, presses>>

CheckNow ==
    /\ phase \in {"awaiting", "timed_out"}
    /\ busy = "no"
    /\ Press
    /\ busy' = "checking"
    /\ Send("check")
    /\ UNCHANGED <<order, taken, stage, phase, popups, timers, held, expired>>

-------------------------------------------------------------------------------
(* Status requests.                                                        *)

\* fetchPaymentStatus on the server: what the order is at that moment.
Answered(f) ==
    /\ fetch[f] # NoFetch
    /\ fetch[f].at = "sent"
    /\ \E s \in {order, "error", "gone"} :
          fetch' = [fetch EXCEPT ![f] = [kind |-> @.kind, at |-> "back", seen |-> s]]
    /\ UNCHANGED <<order, taken, stage, phase, busy, popups, timers, held, expired, presses>>

Back(f, kind) ==
    /\ fetch[f].kind = kind
    /\ fetch[f].at = "back"

\* The page leaves for the order page when the order is paid.
LeaveArrives(f) ==
    /\ Back(f, "leave")
    /\ IF fetch[f].seen = "paid"
       THEN Mount
       ELSE Got(f) /\ UNCHANGED <<order, taken, stage, phase, busy, popups, timers, held, expired>>
    /\ UNCHANGED presses

ConfirmArrives(f) ==
    /\ Back(f, "confirm")
    /\ Got(f)
    /\ ApplySnapshot(fetch[f].seen)
    /\ UNCHANGED <<order, taken, stage, busy, popups, timers, held, expired, presses>>

\* The phase pressed in was "awaiting" or "timed_out": a window starts anew
\* whatever the answer was.
CheckArrives(f) ==
    /\ Back(f, "check")
    /\ Got(f)
    /\ ApplySnapshot(fetch[f].seen)
    /\ busy' = "no"
    /\ StartPolling
    /\ UNCHANGED <<order, taken, stage, popups, presses>>

TimerFires ==
    /\ timers > 0
    /\ timers' = timers - 1
    /\ \/ held /\ held' = FALSE
       \/ TimersLeft > 0 /\ UNCHANGED held
    /\ Send("tick")
    /\ UNCHANGED <<order, taken, stage, phase, busy, popups, expired, presses>>

\* Mutant of TickArrives: every tick that learns nothing opens a new window.
TickArrivesRenewing(f) ==
    /\ Back(f, "tick")
    /\ Got(f)
    /\ \/ /\ fetch[f].seen \in Settled \cup {"gone"}
          /\ phase' = IF fetch[f].seen = "gone" THEN "failed" ELSE PhaseOf(fetch[f].seen)
          /\ StopPolling
          /\ UNCHANGED expired
       \/ /\ fetch[f].seen \notin Settled \cup {"gone"}
          /\ ApplySnapshot(fetch[f].seen)
          /\ StartPolling
    /\ UNCHANGED <<order, taken, stage, busy, popups, presses>>

\* pollTick after its fetch.
TickArrives(f) ==
    /\ Back(f, "tick")
    /\ Got(f)
    /\ \/ /\ fetch[f].seen \in Settled \cup {"gone"}
          /\ phase' = IF fetch[f].seen = "gone" THEN "failed" ELSE PhaseOf(fetch[f].seen)
          /\ StopPolling
          /\ UNCHANGED expired
       \/ /\ fetch[f].seen \notin Settled \cup {"gone"}
          /\ expired
          /\ phase' = "timed_out"
          /\ StopPolling
          /\ UNCHANGED expired
       \/ /\ fetch[f].seen \notin Settled \cup {"gone"}
          /\ ~expired
          /\ ApplySnapshot(fetch[f].seen)
          /\ NextTick
    /\ UNCHANGED <<order, taken, stage, busy, popups, presses>>

\* deadlineRef passes.
WindowEnds ==
    /\ stage = "paying"
    /\ ~expired
    /\ expired' = TRUE
    /\ UNCHANGED <<order, taken, stage, phase, busy, popups, fetch, timers, held, presses>>

-------------------------------------------------------------------------------
FetchSteps(f) ==
    \/ Answered(f)
    \/ LeaveArrives(f)
    \/ ConfirmArrives(f)
    \/ CheckArrives(f)
    \/ TickArrives(f)

ScreenNext ==
    \/ ServerMoves
    \/ PlaceOrder
    \/ OrderAnswered
    \/ OpenFirst
    \/ OpenOrderPage
    \/ PressPay
    \/ PayAnswered
    \/ CheckNow
    \/ \E s \in Screens : PopupReports(s)
    \/ TimerFires
    \/ WindowEnds
    \/ \E f \in Fetches : FetchSteps(f)

\* Requests are answered or fail, timers fire and time passes.
ScreenFairness ==
    /\ WF_screenVars(TimerFires)
    /\ WF_screenVars(WindowEnds)
    /\ \A f \in Fetches : WF_screenVars(FetchSteps(f))

ScreenSpec == ScreenInit /\ [][ScreenNext]_screenVars /\ ScreenFairness

-------------------------------------------------------------------------------
ScreenTypeOK ==
    /\ order \in OrderState /\ taken \in BOOLEAN
    /\ stage \in {"review", "creating", "opening", "paying", "closed"}
    /\ phase \in {"idle", "initiating", "awaiting", "succeeded", "failed", "timed_out"}
    /\ busy \in {"no", "paying", "checking"}
    /\ popups \in [Screens -> Nat]
    /\ \A f \in Fetches :
          \/ fetch[f] = NoFetch
          \/ /\ fetch[f].kind \in {"leave", "confirm", "check", "tick"}
             /\ fetch[f].at = "back" => fetch[f].seen \in Seen
    /\ timers \in Nat
    /\ held \in BOOLEAN /\ expired \in BOOLEAN
    /\ held => timers > 0
    /\ presses \in 0 .. MaxPresses

(***************************************************************************)
(* The screen says "Payment successful" only when a payment of the order   *)
(* was collected: neither the popup's report nor an answer overtaken by    *)
(* another, of an older attempt or of a newer one, is taken for it.  The   *)
(* order need not be paid: money collected for a cancelled order is shown  *)
(* as a success all the same (checkout-client.ts:305).                     *)
(***************************************************************************)
SuccessIsServers ==
    phase = "succeeded" => taken

(***************************************************************************)
(* Nothing polls forever: whatever chains of timers the buttons started,   *)
(* overlapping windows included, a page left alone falls silent.           *)
(***************************************************************************)
PollingEnds ==
    <>[](timers = 0 /\ \A f \in Fetches : fetch[f].kind # "tick")
===============================================================================
