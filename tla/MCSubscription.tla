---------------------------- MODULE MCSubscription ----------------------------
(* One firm, one order, one transaction for Subscription.                   *)
EXTENDS Subscription

CONSTANTS f1, o1, t1, h1
===============================================================================
