----------------------------- MODULE SDKBuilder -----------------------------
(***************************************************************************)
(* src/core/SDKBuilder.ts and the SDKs it builds, which keep references    *)
(* into it.  A builder may be configured, built from, configured further   *)
(* and built from again, while the SDKs it has built send emails.          *)
(*                                                                         *)
(* A with...() call makes a new object for its section of the              *)
(* configuration, and the builder refers to the newest.  RetryPolicy, the  *)
(* breakers and the limiters of an SDK keep a reference to theirs; the     *)
(* other parts are given the values.  FallbackChain and HealthChecker keep *)
(* a reference to the builder's one array of providers, so "providers" is  *)
(* the builder's and every SDK's.                                          *)
(***************************************************************************)
EXTENDS Providers, FiniteSets

CONSTANTS Sections,      \* the sections of SDKConfig
          ByReference,   \* those passed on as objects
          Fields,        \* the fields of a section
          Values,        \* their values,
          Default,       \* of which one is the default
          Settings,      \* what is replaced, not merged: templateEngineType, dlqPersistPath
          Offers,        \* the arguments addMockProvider() and addProvider() are given
          People,        \* email addresses
          MaxProviders, MaxCalls, MaxBuilds, MaxSends   \* bounds

ASSUME BuilderAssumption ==
  /\ ByReference \subseteq Sections /\ Sections \cap Settings = {}
  /\ Default \in Values
  /\ {MaxProviders, MaxCalls, MaxBuilds, MaxSends} \subseteq Nat

(* An offer is of one of the types of EmailProviderFactory, and a mock is   *)
(* told how many emails to fail, a whole number that is not negative.       *)
ASSUME OffersAssumption ==
  \A offer \in Offers :
    /\ offer.type \in Types
    /\ offer.type = "mock" => offer.options.failFirst \in Nat

VARIABLES
  objects,     \* the objects made for each section, the newest last
  settings,    \* the settings
  providers,   \* the array of providers
  registry,    \* ProviderRegistry: which provider each name stands for
  apiKey,      \* the key that the module @sendgrid/mail has been given
  sdks,        \* the SDKs built
  calls        \* history: the with...() calls

vars == <<objects, settings, providers, registry, apiKey, sdks, calls>>

Init == /\ objects = [s \in Sections |-> <<[f \in Fields |-> Default]>>]
        /\ settings = [s \in Settings |-> Default]
        /\ providers = <<>>
        /\ registry = <<>>
        /\ apiKey = "none"
        /\ sdks = <<>>
        /\ calls = <<>>
-----------------------------------------------------------------------------
(* ProviderRegistry.register(): a later provider of the same name replaces  *)
(* the earlier one there.                                                   *)
Registered(name, place) ==
  [n \in DOMAIN registry \cup {name} |-> IF n = name THEN place ELSE registry[n]]

(* The constructor of SendGridProvider sets the key of the module. *)
KeyAfter(offer) == IF offer.type = "sendgrid" THEN offer.options.key ELSE apiKey

(* addMockProvider() and addProvider() *)
AddProvider(offer) ==
  LET provider == Constructed(offer.type, offer.name, offer.options)
  IN  /\ Len(providers) < MaxProviders
      /\ providers' = Append(providers, provider)
      /\ registry' = Registered(provider.name, Len(providers'))
      /\ apiKey' = KeyAfter(offer)
      /\ UNCHANGED <<objects, settings, sdks, calls>>

Newest(section) == objects[section][Len(objects[section])]

Merged(old, overrides) ==
  [f \in Fields |-> IF f \in DOMAIN overrides THEN overrides[f] ELSE old[f]]

Say(section, overrides) ==
  /\ Len(calls) < MaxCalls
  /\ calls' = Append(calls, [section |-> section, overrides |-> overrides])
  /\ UNCHANGED <<providers, registry, apiKey, sdks>>

(* Mutant: Object.assign() on the object there is. *)
WithInPlace(section, overrides) ==
  /\ objects' = [objects EXCEPT ![section][Len(objects[section])] = Merged(@, overrides)]
  /\ UNCHANGED settings
  /\ Say(section, overrides)

(* withRetry(), withQueue(), withCircuitBreaker(), withRateLimit() and      *)
(* withLogging()                                                            *)
With(section, overrides) ==
  /\ objects' = [objects EXCEPT ![section] = Append(@, Merged(Newest(section), overrides))]
  /\ UNCHANGED settings
  /\ Say(section, overrides)

(* withTemplateEngine() and withDLQ() *)
Set(setting, value) ==
  /\ settings' = [settings EXCEPT ![setting] = value]
  /\ UNCHANGED objects
  /\ Say(setting, [f \in {"value"} |-> value])

Names(array) == {array[k].name : k \in DOMAIN array}

(* The breakers and the limiters of an SDK are in Maps by the names of its  *)
(* providers.  Each provider sets those of its name anew, and so the last   *)
(* one of a name prevails: they are told apart by its place in the array.   *)
Guards(array) ==
  [n \in Names(array) |->
     CHOOSE k \in DOMAIN array :
       /\ array[k].name = n
       /\ \A j \in DOMAIN array : array[j].name = n => j <= k]

(* What a new SDK refers to, and what it has been given. *)
NewSDK(guards) ==
  [refers |-> [s \in ByReference |-> Len(objects[s])],
   given  |-> [s \in Sections \ ByReference |-> Newest(s)],
   settings |-> settings,
   guards |-> guards,
   \* history: how many providers and calls there were
   chain |-> Len(providers), after |-> Len(calls)]

(* Mutant: the providers of config.providers, where addMockProvider() adds  *)
(* none.                                                                    *)
BuildGuardingListed ==
  /\ providers # <<>> /\ Len(sdks) < MaxBuilds
  /\ sdks' = Append(sdks, NewSDK(Guards(SelectSeq(providers, LAMBDA p : p.type # "mock"))))
  /\ UNCHANGED <<objects, settings, providers, registry, apiKey, calls>>

(* build(), which throws a ValidationError when there is no provider. *)
Build ==
  /\ providers # <<>> /\ Len(sdks) < MaxBuilds
  /\ sdks' = Append(sdks, NewSDK(Guards(providers)))
  /\ UNCHANGED <<objects, settings, providers, registry, apiKey, calls>>
-----------------------------------------------------------------------------
(* An SDK gives an email to the k-th provider of its chain, which is in the *)
(* chain of them all.  A MockProvider is state of ours.                     *)
StartSend(k) ==
  /\ sdks # <<>>
  /\ providers[k].type = "mock"
  /\ providers[k].sleeping + providers[k].answered < MaxSends
  /\ providers' = [providers EXCEPT ![k] = Asleep(@)]
  /\ UNCHANGED <<objects, settings, registry, apiKey, sdks, calls>>

EndSend(k) ==
  /\ providers[k].sleeping > 0
  /\ providers' = [providers EXCEPT ![k] = Awake(@)]
  /\ UNCHANGED <<objects, settings, registry, apiKey, sdks, calls>>

Overrides == UNION {[S -> Values] : S \in SUBSET Fields}

Next == \/ \E offer \in Offers : AddProvider(offer)
        \/ \E s \in Sections, o \in Overrides : With(s, o)
        \/ \E s \in Settings, v \in Values : Set(s, v)
        \/ Build
        \/ \E k \in DOMAIN providers : StartSend(k) \/ EndSend(k)

Spec == Init /\ [][Next]_vars
-----------------------------------------------------------------------------
Configurations == [Fields -> Values]

Calls == [section : Sections \cup Settings,
          overrides : Overrides \cup [{"value"} -> Values]]

ProviderNames == Types \cup {offer.name : offer \in Offers}

BuiltProviders ==
  [type : Types, name : ProviderNames, options : {offer.options : offer \in Offers},
   failRemaining : Nat, sleeping : Nat, answered : Nat, failed : Nat]

SDKs == [refers : [ByReference -> Nat \ {0}], given : [Sections \ ByReference -> Configurations],
         settings : [Settings -> Values],
         guards : UNION {[S -> Nat \ {0}] : S \in SUBSET ProviderNames},
         chain : Nat, after : Nat]

(* The builder and the SDKs stay in their domains, the registry stands for  *)
(* providers there are, and there is an object for each section.            *)
TypeOK ==
  /\ objects \in [Sections -> Seq(Configurations) \ {<<>>}]
  /\ settings \in [Settings -> Values]
  /\ providers \in Seq(BuiltProviders)
  /\ registry \in [DOMAIN registry -> DOMAIN providers]
  /\ sdks \in Seq(SDKs)
  /\ calls \in Seq(Calls)

(* What the last of the first n calls that said something of this field     *)
(* said.                                                                    *)
LastSaid(section, field, n) ==
  LET about == {j \in 1..n : calls[j].section = section /\ field \in DOMAIN calls[j].overrides}
  IN  IF about = {} THEN Default
      ELSE calls[CHOOSE j \in about : \A i \in about : i <= j].overrides[field]

(* What an SDK finds in a section when it looks there now. *)
Reads(sdk, section) ==
  IF section \in ByReference THEN objects[section][sdk.refers[section]] ELSE sdk.given[section]

(* An SDK works with the values the builder was given before build(), the   *)
(* last one for each field, and no later call changes them, although both   *)
(* refer to the same objects.                                               *)
ConfiguredAsSaid ==
  \A i \in DOMAIN sdks :
    /\ \A s \in Sections, f \in Fields : Reads(sdks[i], s)[f] = LastSaid(s, f, sdks[i].after)
    /\ \A s \in Settings : sdks[i].settings[s] = LastSaid(s, "value", sdks[i].after)

(* The breaker and the limiter that a delivery by an SDK finds for the k-th *)
(* provider; 0 is undefined.                                                *)
Guard(sdk, k) ==
  LET name == providers[k].name
  IN  IF name \in DOMAIN sdk.guards THEN sdk.guards[name] ELSE 0

(* Every provider an SDK was built with has a breaker and a limiter, and so *)
(* only one added to the builder, and with that to the SDK's chain, after   *)
(* build() may have none.  Two that have share theirs when they share their *)
(* name, the late ones included, and never otherwise: the failures of one   *)
(* name take no other out of the chain.  So they are per name, not "per     *)
(* provider" as USER.md says of both.                                       *)
GuardedByName ==
  \A i \in DOMAIN sdks, j, k \in DOMAIN providers :
    /\ k <= sdks[i].chain => Guard(sdks[i], k) # 0
    /\ Guard(sdks[i], k) # 0 =>
         (Guard(sdks[i], j) = Guard(sdks[i], k) <=> providers[j].name = providers[k].name)

(* Whatever the service, an email goes to all of its recipients with the    *)
(* bodies it was given, with two exceptions: through SES an email with an   *)
(* attachment goes to those of "to" alone, and SendGrid shows the html as   *)
(* text when there is none.                                                 *)
PassedOn ==
  [type \in Types \ {"mock"} |->
     \A payload \in Payloads(People) :
       LET request == Requested(type, payload)
       IN  /\ \/ request.recipients = Everyone(payload)
              \/ type = "ses" /\ payload.attached /\ request.recipients = payload.to
           /\ request.html = "given" <=> payload.html = "given"
           /\ request.text = "given" <=>
                \/ payload.text = "given"
                \/ type = "sendgrid" /\ payload.text = "undefined" /\ payload.html = "given"]

(* So falling back to another provider does not change an email.  Nor does  *)
(* it change the account: a SendGridProvider uses its own key, unless       *)
(* another one has been constructed since, whose key they then share.       *)
SameEmailByAll ==
  \A k \in DOMAIN providers :
    providers[k].type # "mock" =>
      /\ PassedOn[providers[k].type]
      /\ providers[k].type = "sendgrid" =>
           \/ apiKey = providers[k].options.key
           \/ \E j \in k + 1..Len(providers) :
                providers[j].type = "sendgrid" /\ apiKey = providers[j].options.key

(* failFirst: of the emails a mock has answered exactly the first so many   *)
(* failed, however many SDKs and worker loops send through it at once.      *)
MocksFailFirst ==
  \A k \in DOMAIN providers :
    providers[k].type = "mock" =>
      LET first == providers[k].options.failFirst
          n == providers[k].answered
      IN  providers[k].failed = IF n < first THEN n ELSE first
=============================================================================
