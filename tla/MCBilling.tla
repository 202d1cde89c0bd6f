------------------------------ MODULE MCBilling ------------------------------
(* Billing for TLC: for organization o1 a completed Checkout, a            *)
(* subscription update that names the organization and a failed payment    *)
(* that names only the customer.  Stripe knows nothing of o2 yet.          *)
EXTENDS Billing

CONSTANTS o1, c1, e1, e2, e3

MCEventData ==
    [e \in Events |->
       CASE e = e1 -> [type |-> "checkout", org |-> o1, home |-> o1, customer |-> c1,
                       raw |-> "active", plan |-> "free"]
         [] e = e2 -> [type |-> "updated", org |-> o1, home |-> o1, customer |-> c1,
                       raw |-> "paused", plan |-> "pro"]
         [] OTHER  -> [type |-> "payment_failed", org |-> Null, home |-> o1, customer |-> c1,
                       raw |-> "active", plan |-> "free"]]
=============================================================================
