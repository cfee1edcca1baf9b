-------------------------- MODULE MCDeliveryEngine --------------------------
(* Two providers, a primary and a fallback. *)
EXTENDS DeliveryEngine

CONSTANTS p1, p2

MCChain == <<p1, p2>>
=============================================================================
