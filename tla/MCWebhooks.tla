----------------------------- MODULE MCWebhooks -----------------------------
(***************************************************************************)
(* Dispatchers and consumers of webhooks.                                  *)
(***************************************************************************)
EXTENDS Webhooks, TLC

\* Workers of a kind are interchangeable.
WebhookSymmetry == Permutations(Consumers) \cup Permutations(Dispatchers)
==============================================================================
