-------------------------- MODULE MCWebhookDelivery --------------------------
(* Instances of WebhookDelivery for model checking.                        *)
EXTENDS WebhookDelivery

CONSTANTS d1, d2, w1, w2

MCBackoff == [n \in 1 .. MaxAttempts - 1 |-> n]
===============================================================================
