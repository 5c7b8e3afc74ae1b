-------------------------- MODULE MCWebhookDelivery --------------------------
(* A small instance of WebhookDelivery for TLC.                            *)
EXTENDS WebhookDelivery
=============================================================================
