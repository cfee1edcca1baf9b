----------------------------- MODULE Templates -----------------------------
(***************************************************************************)
(* The templates of an EmailSDK: registerTemplate(), registerTemplateTyped *)
(* and the part of send() that renders, over the TemplateCache and one of  *)
(* the engines of src/templates.  All of it is synchronous, so each call   *)
(* is one step; what is hard is the sequence of calls.                     *)
(*                                                                         *)
(* A compiled template is a record: the kind of value it is (a Handlebars  *)
(* delegate, Mustache's text, or the function of compileTyped()), what its *)
(* source is like, and the number of its registration.                     *)
(***************************************************************************)
EXTENDS TemplateCache

CONSTANTS Ids,      \* the template ids, Blank among them
          MaxRegs   \* bound: templates registered

ASSUME TemplatesAssumption == Blank \in Ids /\ MaxRegs \in Nat

VARIABLES
  engine,   \* the type of templateEngine
  cache,    \* templateCache
  regs,     \* the number of registrations
  latest,   \* history: what was last registered under each id
  recent    \* history: the registered ids, the one used last at the end

templatesVars == <<engine, cache, regs, latest, recent>>

Sources == {"fine", "malformed", "empty"}
None == [kind |-> "none"]

(* TemplateFactory.create() of either type, and a TemplateCache. *)
TemplatesInit ==
  /\ engine \in {"handlebars", "mustache"}
  /\ cache = <<>> /\ regs = 0
  /\ latest = [id \in Ids |-> None]
  /\ recent = <<>>
-----------------------------------------------------------------------------
(* compile() and compileTyped() never look into the source: Handlebars      *)
(* parses when the delegate is called, Mustache when it renders.            *)
CompiledBy(typed) ==
  IF typed THEN "typed" ELSE IF engine = "mustache" THEN "text" ELSE "delegate"

(* Mustache.render() throws at a template that is no string, and both       *)
(* libraries at one they cannot parse, or when the data makes them call     *)
(* something that throws.                                                   *)
RenderThrows(value, data) ==
  \/ value.source = "malformed"
  \/ value.source = "fine" /\ data = "bad"
  \/ engine = "mustache" /\ value.kind = "typed"

(* The ids by their last use, when this one is used now. *)
Used(id) == Append(RemoveFirst(recent, id), id)

(* registerTemplate() and registerTemplateTyped() *)
RegisterTemplate(id, source, typed) ==
  LET value == [kind |-> CompiledBy(typed), source |-> source, version |-> regs + 1]
  IN  /\ regs < MaxRegs
      /\ regs' = regs + 1
      /\ cache' = AfterSet(cache, id, value)
      /\ latest' = [latest EXCEPT ![id] = value]
      /\ recent' = Used(id)
      /\ UNCHANGED engine

(* What the email is when send() is called with this template and data. *)
Rendered(id, data) ==
  IF id = Blank \/ ~Hit(cache, id) THEN [result |-> "as it is"]
  ELSE [result |-> IF RenderThrows(Found(cache, id), data) THEN "TemplateError" ELSE "html",
        by |-> Found(cache, id)]

(* send() with a templateId; a template is used whether it renders or throws. *)
Send(id) ==
  /\ IF id # Blank /\ Hit(cache, id)
       THEN /\ cache' = AfterGet(cache, id)
            /\ recent' = Used(id)
       ELSE UNCHANGED <<cache, recent>>
  /\ UNCHANGED <<engine, regs, latest>>

TemplatesNext ==
  \E id \in Ids :
    \/ \E source \in Sources, typed \in BOOLEAN : RegisterTemplate(id, source, typed)
    \/ Send(id)

TemplatesSpec == TemplatesInit /\ [][TemplatesNext]_templatesVars
-----------------------------------------------------------------------------
CompiledTemplates ==
  [kind : {"delegate", "text", "typed"}, source : Sources, version : 1..MaxRegs]

(* The cache and the histories stay in their domains, and the ids in use    *)
(* are those registered, each once.                                         *)
TemplatesTypeOK ==
  /\ engine \in {"handlebars", "mustache"}
  /\ regs \in 0..MaxRegs
  /\ cache \in Seq([id : Ids, value : CompiledTemplates])
  /\ latest \in [Ids -> CompiledTemplates \cup {None}]
  /\ recent \in Seq(Ids) /\ IsInjective(recent)
  /\ \A id \in Ids : latest[id] # None <=> \E i \in DOMAIN recent : recent[i] = id

(* The ids in the order of their entries. *)
CachedIds == [i \in DOMAIN cache |-> cache[i].id]

(* "When max size is reached, the oldest unused template is removed"        *)
(* (TemplateCache.ts): the cache always holds the templates used last, in   *)
(* that order and as last registered, never fewer than it has room for;     *)
(* and more than that only once somebody registered a template under the    *)
(* empty id, which cannot be evicted.                                       *)
CacheIsLRU ==
  /\ IsSuffix(CachedIds, recent)
  /\ Len(cache) >= (IF Len(recent) < MaxCached THEN Len(recent) ELSE MaxCached)
  /\ \A i \in DOMAIN cache : cache[i].value = latest[cache[i].id]
  /\ Len(cache) > MaxCached => latest[Blank] # None

(* How many other templates have been used or registered since this one. *)
Younger(id) == Len(recent) - (CHOOSE i \in DOMAIN recent : recent[i] = id)

(* What a caller of send() can rely on, although nothing tells him that a   *)
(* template has been evicted: unless MaxCached others were used or          *)
(* registered since, an email is rendered by the template last registered   *)
(* under its id, or refused with a TemplateError, and it is refused only    *)
(* for what is wrong with that template or with the data of that email,     *)
(* or because a typed template meets Mustache.  The empty id, and an empty  *)
(* template of Mustache, count as no template.                              *)
RenderedAsRegistered ==
  \A id \in Ids, data \in {"good", "bad"} :
    LET email == Rendered(id, data)
        wanted == latest[id]
    IN  CASE email.result = "as it is" ->
               \/ id = Blank \/ wanted = None
               \/ Younger(id) >= MaxCached
               \/ Falsy(wanted)
          [] email.result = "html" -> email.by = wanted
          [] email.result = "TemplateError" ->
               /\ email.by = wanted
               /\ \/ wanted.source = "malformed" \/ data = "bad"
                  \/ engine = "mustache" /\ wanted.kind = "typed"
=============================================================================
