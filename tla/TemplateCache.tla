--------------------------- MODULE TemplateCache ---------------------------
(***************************************************************************)
(* The LRU cache of src/templates/TemplateCache.ts, as operators on a      *)
(* sequence of entries [id, value] in the insertion order of its Map.      *)
(***************************************************************************)
EXTENDS SequencesExt

CONSTANTS MaxCached,   \* maxSize
          Blank        \* the empty string, which is an id too

ASSUME CacheAssumption == MaxCached \in Nat \ {0}

(* The values that JavaScript takes for false. *)
Falsy(value) == value.kind = "text" /\ value.source = "empty"

(* A Map has at most one entry of an id. *)
Has(cache, id) == \E i \in DOMAIN cache : cache[i].id = id

Place(cache, id) == CHOOSE i \in DOMAIN cache : cache[i].id = id

Found(cache, id) == cache[Place(cache, id)].value

Without(cache, id) ==
  IF Has(cache, id) THEN RemoveAt(cache, Place(cache, id)) ELSE cache

Entry(id, value) == [id |-> id, value |-> value]

(* get() finds a value, *)
Hit(cache, id) == Has(cache, id) /\ ~Falsy(Found(cache, id))

(* Mutant: a template that is used keeps its place. *)
AfterGetUnmoved(cache, id) == cache

(* and moves it to the end. *)
AfterGet(cache, id) ==
  IF Hit(cache, id) THEN Append(Without(cache, id), Entry(id, Found(cache, id))) ELSE cache

(* At most one entry goes, and none when the oldest id is falsy. *)
Evicted(cache) ==
  IF Len(cache) > MaxCached /\ cache[1].id # Blank THEN Tail(cache) ELSE cache

(* Mutant: set() does not replace the entry there is. *)
AfterSetKeepsOld(cache, id, value) ==
  Evicted(Append(Without(cache, id),
                 Entry(id, IF Has(cache, id) THEN Found(cache, id) ELSE value)))

AfterSet(cache, id, value) == Evicted(Append(Without(cache, id), Entry(id, value)))
=============================================================================
