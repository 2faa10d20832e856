--------------------------- MODULE MCWebhookInbox ---------------------------
(* A small instance of WebhookInbox: the workers are interchangeable, and so *)
(* are the events.                                                           *)
EXTENDS WebhookInbox, TLC

InboxSymmetry == Permutations(Workers) \cup Permutations(Events)
=============================================================================
