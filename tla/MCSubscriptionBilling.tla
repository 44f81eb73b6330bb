----------------------- MODULE MCSubscriptionBilling -----------------------
(***************************************************************************)
(* Bounded instances of SubscriptionBilling: a request and an asynchronous *)
(* task compete for two small subscriptions.                               *)
(***************************************************************************)
EXTENDS SubscriptionBilling

MCGrant == <<2, 1>>
=============================================================================
