-------------------------- MODULE MCPaymentSettlement --------------------------
(***************************************************************************)
(* PaymentSettlement on small instances.  The handlers of one kind run the *)
(* same code, so the safety runs treat them as interchangeable.            *)
(***************************************************************************)
EXTENDS PaymentSettlement, TLC

HandlerSymmetry ==
    Permutations(Initialisers) \cup Permutations(Webhooks) \cup Permutations(Verifiers)
===============================================================================
