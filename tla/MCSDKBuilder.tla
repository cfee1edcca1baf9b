---------------------------- MODULE MCSDKBuilder ----------------------------
(* Providers of each type; two share a name, two are SendGrid accounts. *)
EXTENDS SDKBuilder

Offer(type, name, options) == [type |-> type, name |-> name, options |-> options]

MCOffers ==
  {Offer("mock", "p", [failFirst |-> 1]),
   Offer("smtp", "undefined", <<>>),
   Offer("ses", "p", <<>>),
   Offer("sendgrid", "undefined", [key |-> "k1"]),
   Offer("sendgrid", "second", [key |-> "k2"])}
=============================================================================
