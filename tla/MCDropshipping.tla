---------------------------- MODULE MCDropshipping ----------------------------
(***************************************************************************)
(* The parts of dropshipping, checked in one run.  They share no state: in *)
(* every behaviour only the part in focus moves.                           *)
(***************************************************************************)
EXTENDS SupplierFulfilment, SupplierReturns, SupplierCatalog, DropshippingPricing,
        SupplierDesk, TLC

CONSTANTS t1, t2, p1, p2, s1, v1, Focus

VARIABLE focus

vars == <<focus, fulfilmentVars, returnsVars, catalogVars, pricingVars, deskVars>>

\* The same two processes take turns in every part.
Symmetry == Permutations({p1, p2})

MCRules ==
    {[scope |-> s, type |-> "PERCENTAGE", value |-> 1250, from |-> 0, to |-> 9] :
        s \in RuleScope} \cup
    {[scope |-> "DEFAULT",  type |-> "FIXED",      value |-> 5,    from |-> 1, to |-> 2],
     [scope |-> "SELLER",   type |-> "PERCENTAGE", value |-> 3333, from |-> 1, to |-> 3],
     [scope |-> "CATEGORY", type |-> "FIXED",      value |-> 400,  from |-> 2, to |-> 9]}

MCPages == [s \in Searches |-> IF s = "all" THEN 2 ELSE 1]

FirstOffer == [retail |-> 100, cost |-> 0, paymentBps |-> 0, taxBps |-> 0]

Init ==
    /\ focus \in Focus
    /\ FulfilmentInit /\ ReturnsInit /\ CatalogInit
    /\ IF focus = "desk" THEN TRUE
       ELSE station = "board" /\ filters = [search |-> "all", page |-> 1]
    /\ DeskInit
    /\ IF focus = "pricing" THEN TRUE ELSE rules = {} /\ offer = FirstOffer
    /\ PricingInit

Next ==
    /\ UNCHANGED focus
    /\ \/ /\ focus = "fulfilment" /\ FulfilmentNext
          /\ UNCHANGED <<returnsVars, catalogVars, pricingVars, deskVars>>
       \/ /\ focus = "returns" /\ ReturnsNext
          /\ UNCHANGED <<fulfilmentVars, catalogVars, pricingVars, deskVars>>
       \/ /\ focus = "catalog" /\ CatalogNext
          /\ UNCHANGED <<fulfilmentVars, returnsVars, pricingVars, deskVars>>
       \/ /\ focus = "pricing" /\ PricingNext
          /\ UNCHANGED <<fulfilmentVars, returnsVars, catalogVars, deskVars>>
       \/ /\ focus = "desk" /\ DeskNext
          /\ UNCHANGED <<fulfilmentVars, returnsVars, catalogVars, pricingVars>>

\* Every variable has its type, and every computed amount fits its column.
DropshippingTypeOK ==
    FulfilmentTypeOK /\ ReturnsTypeOK /\ CatalogTypeOK /\ PricingTypeOK

Spec == Init /\ [][Next]_vars
===============================================================================
