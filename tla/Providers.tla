----------------------------- MODULE Providers -----------------------------
(***************************************************************************)
(* What the doSend() of each class in src/providers makes of a payload: to *)
(* whom the mail service is asked to deliver, and which bodies it is given *)
(* (the rest is passed on as it is).  Providers are records, as made by    *)
(* EmailProviderFactory and the constructors.                              *)
(***************************************************************************)
EXTENDS Naturals, Sequences

Types == {"smtp", "ses", "sendgrid", "mock"}

(* A body is an optional string. *)
Bodies == {"undefined", "empty", "given"}

Payloads(People) ==
  [to : (SUBSET People) \ {{}}, cc : SUBSET People, bcc : SUBSET People,
   html : Bodies, text : Bodies, attached : BOOLEAN]

Everyone(payload) == payload.to \cup payload.cc \cup payload.bcc

Request(recipients, html, text) ==
  [recipients |-> recipients, html |-> html, text |-> text]

(* An empty string is falsy. *)
IfGiven(body) == IF body = "given" THEN body ELSE "undefined"

SmtpRequest(payload) == Request(Everyone(payload), payload.html, payload.text)

(* text ?? html ?? "": without a text the html serves as one. *)
SendGridRequest(payload) ==
  Request(Everyone(payload), payload.html,
          IF payload.text # "undefined" THEN payload.text
          ELSE IF payload.html # "undefined" THEN payload.html ELSE "empty")

(* SendEmailCommand *)
SesRequest(payload) ==
  Request(Everyone(payload), IfGiven(payload.html), IfGiven(payload.text))

(* Mutant: an email with both bodies loses its text. *)
SesRawRequestHtmlOnly(payload) ==
  Request(payload.to, IfGiven(payload.html),
          IF payload.html = "given" THEN "undefined"
          ELSE IF payload.text = "given" THEN "given" ELSE "empty")

(* SendRawEmailCommand, for an email with attachments: SES delivers to the  *)
(* Destinations, whatever the headers say.  There is one body at least.     *)
SesRawRequest(payload) ==
  Request(payload.to, IfGiven(payload.html),
          IF payload.text # "given" /\ payload.html # "given" THEN "empty"
          ELSE IfGiven(payload.text))

Requested(type, payload) ==
  CASE type = "smtp" -> SmtpRequest(payload)
    [] type = "sendgrid" -> SendGridRequest(payload)
    [] type = "ses" /\ payload.attached -> SesRawRequest(payload)
    [] type = "ses" /\ ~payload.attached -> SesRequest(payload)
-----------------------------------------------------------------------------
(* A provider as constructed.  Of the options, failFirst is MockProvider's  *)
(* and key SendGrid's; without a name a type has its own.                   *)
Constructed(type, name, options) ==
  [type |-> type,
   name |-> IF name = "undefined" THEN type ELSE name,
   options |-> options,
   failRemaining |-> IF type = "mock" THEN options.failFirst ELSE 0,
   sleeping |-> 0, answered |-> 0, failed |-> 0]

(* MockProvider.doSend() sleeps first, *)
Asleep(provider) == [provider EXCEPT !.sleeping = @ + 1]

(* Mutant: the failures to come are not counted down. *)
AwakeForever(provider) ==
  LET fails == provider.failRemaining > 0
  IN  [provider EXCEPT !.sleeping = @ - 1, !.answered = @ + 1,
                       !.failed = IF fails THEN @ + 1 ELSE @]

(* and looks at failRemaining when it wakes (failureRate is zero). *)
Awake(provider) ==
  LET fails == provider.failRemaining > 0
  IN  [provider EXCEPT !.sleeping = @ - 1, !.answered = @ + 1,
                       !.failed = IF fails THEN @ + 1 ELSE @,
                       !.failRemaining = IF fails THEN @ - 1 ELSE @]
=============================================================================
