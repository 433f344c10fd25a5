-------------------------- MODULE DropshippingPricing --------------------------
(***************************************************************************)
(* What a supplier-sourced listing earns.                                  *)
(*                                                                         *)
(* The shop estimates the seller's profit before a sale; the settlement    *)
(* service computes the commission of the sale.  Both resolve one table of *)
(* commission rules, each in its own language and not by the same order.   *)
(* Amounts are cents, rates are basis points, and time is a number of      *)
(* days.                                                                   *)
(***************************************************************************)
EXTENDS Integers

CONSTANTS
    Rules,      \* the commission rules that may be on record
    Retails,    \* retail prices; those a column cannot hold are refused
    OwnCosts,   \* supplier cost, delivery and fulfilment, summed up
    FeeRates,   \* payment fee and tax, in basis points
    MaxInt,     \* what an INTEGER column holds
    MaxDay      \* bound: how long the rules are watched

RuleScope == {"SELLER", "CATEGORY", "DEFAULT"}
Rule == [scope : RuleScope, type : {"PERCENTAGE", "FIXED"}, value : Nat,
         from : Nat, to : Nat]   \* a rule without an end ends after MaxDay

ASSUME PricingAssumption ==
    /\ Rules \subseteq Rule
    /\ \A r \in Rules : r.type = "PERCENTAGE" => r.value <= 10000
    /\ MaxInt \in Nat /\ MaxDay \in Nat
    /\ Retails \subseteq 1 .. MaxInt /\ OwnCosts \subseteq Nat /\ FeeRates \subseteq 0 .. 10000

VARIABLES
    rules,   \* the active rules on record for the seller and the category
    day,     \* today
    offer    \* the listing that is priced

pricingVars == <<rules, day, offer>>

-------------------------------------------------------------------------------
\* Mutant of ApplyBasisPoints: the half cent is forgotten.
ApplyBasisPointsFloored(amount, bps) == (amount * bps) \div 10000

\* Half-up application of basis points.
ApplyBasisPoints(amount, bps) == (amount * bps + 5000) \div 10000

\* Integer division of BigInt drops the fraction, whatever the sign.
Truncated(a, b) == IF a >= 0 THEN a \div b ELSE -((-a) \div b)

IsEffective(r) == r.from <= day /\ day < r.to

InScope(scope) == {r \in rules : IsEffective(r) /\ r.scope = scope}

\* SELLER before CATEGORY before DEFAULT, and no category unless it is given.
WinningScope(withCategory) ==
    CASE InScope("SELLER") # {} -> "SELLER"
      [] InScope("SELLER") = {} /\ withCategory /\ InScope("CATEGORY") # {} -> "CATEGORY"
      [] OTHER -> IF InScope("DEFAULT") # {} THEN "DEFAULT" ELSE "NONE"

\* The shop takes the first row of the winning scope, in no stated order.
resolveCommissionRule(withCategory) == InScope(WinningScope(withCategory))

\* The settlement knows the category of the product and takes the latest rule.
Latest(S) == {r \in S : \A s \in S : s.from <= r.from}
ResolveRule == Latest(InScope(WinningScope(TRUE)))

EstimatedFee(r, retail) ==
    IF r.type = "FIXED" THEN r.value ELSE ApplyBasisPoints(retail, r.value)

\* What the settlement takes: with a rounding of its own, and never more than
\* the sale.
Commission(r, gross) ==
    LET fee == IF r.type = "FIXED" THEN r.value
               ELSE (gross * r.value + 5000) \div 10000
    IN  IF fee > gross THEN gross ELSE fee

\* The estimate of one offer under one fee; refused when a column cannot hold it.
Breakdown(fee) ==
    LET payment == ApplyBasisPoints(offer.retail, offer.paymentBps)
        tax     == ApplyBasisPoints(offer.retail, offer.taxBps)
        cost    == offer.cost + fee + payment + tax
        profit  == offer.retail - cost
    IN  IF cost > MaxInt \/ -profit > MaxInt THEN [ok |-> FALSE]
        ELSE [ok |-> TRUE, cost |-> cost, profit |-> profit,
              margin |-> Truncated(profit * 10000, offer.retail)]

NoRuleFee == 0

\* Every estimate the shop may give: it falls back to no fee, with a warning.  A
\* quote and the listing made of it pass the category of the product; the
\* recalculation after a change of the supplier's cost does not.
Estimates(withCategory) ==
    LET chosen == resolveCommissionRule(withCategory) IN
    IF chosen = {} THEN {Breakdown(NoRuleFee)}
    ELSE {Breakdown(EstimatedFee(r, offer.retail)) : r \in chosen}

-------------------------------------------------------------------------------
PricingInit ==
    /\ rules \in SUBSET Rules
    /\ day = 0
    /\ offer \in [retail : Retails, cost : OwnCosts, paymentBps : FeeRates, taxBps : FeeRates]

\* A day passes: rules begin and end.
NextDay ==
    /\ day < MaxDay
    /\ day' = day + 1
    /\ UNCHANGED <<rules, offer>>

PricingNext == NextDay

PricingSpec == PricingInit /\ [][PricingNext]_pricingVars

-------------------------------------------------------------------------------
\* Every variable has its type, and every estimate fits the columns it is stored
\* in.
PricingTypeOK ==
    /\ \A withCategory \in BOOLEAN : \A e \in Estimates(withCategory) :
          e.ok => e.cost \in 0 .. MaxInt /\ e.profit \in -MaxInt .. MaxInt
    /\ rules \subseteq Rules /\ day \in 0 .. MaxDay
    /\ offer.retail \in Retails /\ offer.cost \in OwnCosts
    /\ offer.paymentBps \in FeeRates /\ offer.taxBps \in FeeRates

\* Rounding is half up, once: a fee is off by at most half a cent, upwards when
\* it is off by exactly half, and never more than the amount it is taken from.
FeesRoundHalfUp ==
    \A bps \in {offer.paymentBps, offer.taxBps} :
        LET fee == ApplyBasisPoints(offer.retail, bps)
            off == 2 * (fee * 10000 - offer.retail * bps)
        IN  -10000 < off /\ off <= 10000 /\ fee <= offer.retail

\* A rule costs the same in both languages, unless the settlement caps it at the
\* sale, so the figure of the settlement is always one that a quote may give.
SettlementIsAQuote ==
    \A r \in ResolveRule :
        EstimatedFee(r, offer.retail) <= offer.retail =>
            Breakdown(Commission(r, offer.retail)) \in Estimates(TRUE)

\* A loss is never shown as a profit: the margin may be rounded to nothing, but
\* it has the sign of the profit or is zero, and it is exact to a basis point.
MarginTellsTheSign ==
    \A withCategory \in BOOLEAN : \A e \in Estimates(withCategory) :
        e.ok =>
            LET rest == e.profit * 10000 - e.margin * offer.retail IN
            /\ e.profit >= 0 => e.margin >= 0 /\ 0 <= rest /\ rest < offer.retail
            /\ e.profit <= 0 => e.margin <= 0 /\ -offer.retail < rest /\ rest <= 0

\* The money of an offer adds up: fees, commission and margin.
MoneyAddsUp == FeesRoundHalfUp /\ SettlementIsAQuote /\ MarginTellsTheSign
===============================================================================
