-------------------------- MODULE MCWebhookDelivery --------------------------
(* Webhook deliveries for TLC.  Jobs are interchangeable, and so are       *)
(* deliveries.                                                             *)
EXTENDS WebhookDelivery, TLC

Symmetry == Permutations(Jobs) \cup Permutations(Deliveries)
=============================================================================
