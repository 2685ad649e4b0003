--------------------------- MODULE MCWebhookSender ---------------------------
(* Small instances of WebhookSender: interchangeable requests.                *)
EXTENDS WebhookSender, TLC

CONSTANTS r1, r2, r3

MCThree == {r1, r2, r3}
ThreeSymmetry == Permutations(MCThree)
=============================================================================
