----------------------------- MODULE MCEventBus -----------------------------
(* A small instance of the event bus: one pattern, which matches the one   *)
(* channel.                                                                *)
EXTENDS EventBus

CONSTANTS created, verification

MCMatches == {<<verification, created>>}
=============================================================================
