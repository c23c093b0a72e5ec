-------------------------- MODULE MCWebhookOutbox --------------------------
(* Small instances of WebhookOutbox for TLC.                               *)
EXTENDS WebhookOutbox, TLC

CONSTANTS e1, e2, h1, h2, w1, w2

Symmetry == Permutations(Events) \cup Permutations(Hooks) \cup Permutations(Workers)
=============================================================================
