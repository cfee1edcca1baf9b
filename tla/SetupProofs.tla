----------------------------- MODULE SetupProofs -----------------------------
(***************************************************************************)
(* Proofs about what an application sets up before and while it sends.     *)
(*                                                                         *)
(* Templates, for a cache of any size and any number of templates: the     *)
(* cache holds those used last, and an email is rendered by the template   *)
(* last registered.                                                        *)
(*                                                                         *)
(* SDKBuilder, for any configuration, any offers of providers and any      *)
(* number of calls and SDKs: an SDK works as the builder was told before   *)
(* build(), its providers share breakers and limiters by name alone,       *)
(* falling back does not change an email, and a mock fails the first it    *)
(* was told to.                                                            *)
(***************************************************************************)
EXTENDS Templates, SDKBuilder, WellFoundedInduction, TLAPS

CacheEntries == [id : Ids, value : CompiledTemplates]

(* t is s with its place p left out. *)
LeavesOut(s, t, p) ==
  /\ p \in 1..Len(s)
  /\ Len(t) = Len(s) - 1
  /\ \A i \in 1..Len(t) : t[i] = IF i < p THEN s[i] ELSE s[i + 1]

LEMMA RemoveAtLeavesOut ==
  ASSUME NEW S, NEW s \in Seq(S), NEW p \in 1..Len(s)
  PROVE  RemoveAt(s, p) \in Seq(S) /\ LeavesOut(s, RemoveAt(s, p), p)
<1> DEFINE l == SubSeq(s, 1, p - 1)
           r == SubSeq(s, p + 1, Len(s))
           t == RemoveAt(s, p)
<1>1. /\ l \in Seq(S) /\ Len(l) = p - 1
      /\ \A i \in 1..p - 1 : l[i] = s[i]
  OBVIOUS
<1>2. /\ r \in Seq(S) /\ Len(r) = Len(s) - p
      /\ \A i \in 1..Len(s) - p : r[i] = s[i + p]
  OBVIOUS
<1>3. t = l \o r
  BY DEF RemoveAt
<1> HIDE DEF l, r, t
<1>4. t \in Seq(S) /\ Len(t) = Len(s) - 1
  BY <1>1, <1>2, <1>3
<1>5. ASSUME NEW i \in 1..Len(t)
      PROVE  t[i] = IF i < p THEN s[i] ELSE s[i + 1]
  <2>1. CASE i < p
    BY <1>1, <1>2, <1>3, <1>4, <2>1
  <2>2. CASE ~(i < p)
    <3>1. t[i] = r[i - Len(l)] /\ i - Len(l) \in 1..Len(s) - p
      BY <1>1, <1>2, <1>3, <1>4, <2>2
    <3>2. i - Len(l) = i - p + 1 /\ (i - p + 1) + p = i + 1
      BY <1>1
    <3> QED
      BY <1>2, <2>2, <3>1, <3>2
  <2> QED
    BY <2>1, <2>2
<1> QED
  BY <1>4, <1>5 DEF t, LeavesOut

LEMMA WithoutLeavesOut ==
  ASSUME NEW c \in Seq(CacheEntries), NEW id
  PROVE  /\ Without(c, id) \in Seq(CacheEntries)
         /\ ~Has(c, id) => Without(c, id) = c
         /\ Has(c, id) => /\ LeavesOut(c, Without(c, id), Place(c, id))
                          /\ c[Place(c, id)].id = id
<1>1. CASE Has(c, id)
  <2>1. Place(c, id) \in 1..Len(c) /\ c[Place(c, id)].id = id
    BY <1>1 DEF Has, Place
  <2> QED
    BY <1>1, <2>1, RemoveAtLeavesOut DEF Without
<1> QED
  BY <1>1 DEF Without

(* An injective sequence has a value at one place, which RemoveFirst finds. *)
LEMMA RemoveFirstLeavesOut ==
  ASSUME NEW S, NEW s \in Seq(S), IsInjective(s), NEW e \in S
  PROVE  /\ RemoveFirst(s, e) \in Seq(S)
         /\ (\A i \in 1..Len(s) : s[i] # e) => RemoveFirst(s, e) = s
         /\ \A p \in 1..Len(s) : s[p] = e => LeavesOut(s, RemoveFirst(s, e), p)
<1>1. CASE \A i \in 1..Len(s) : s[i] # e
  BY <1>1 DEF RemoveFirst
<1>2. ASSUME NEW p \in 1..Len(s), s[p] = e
      PROVE  RemoveFirst(s, e) = RemoveAt(s, p)
  <2>1. {i \in 1..Len(s) : s[i] = e} = {p}
    BY <1>2 DEF IsInjective
  <2>2. Min({p}) = p
    BY DEF Min
  <2>3. SelectInSeq(s, LAMBDA v : v = e) = p
    BY <2>1, <2>2 DEF SelectInSeq
  <2> QED
    BY <1>2, <2>3 DEF RemoveFirst
<1>3. CASE \E p \in 1..Len(s) : s[p] = e
  BY <1>2, <1>3, RemoveAtLeavesOut
<1> QED
  BY <1>1, <1>2, <1>3, RemoveAtLeavesOut
-----------------------------------------------------------------------------
(* The entries of c have the last ids of r, in that order. *)
Follows(c, r) ==
  /\ Len(c) <= Len(r)
  /\ \A i \in 1..Len(c) : c[i].id = r[Len(r) - Len(c) + i]

LEMMA ReversedPlaces ==
  ASSUME NEW S, NEW s \in Seq(S)
  PROVE  /\ Reverse(s) \in Seq(S) /\ Len(Reverse(s)) = Len(s)
         /\ \A i \in 1..Len(s) : Reverse(s)[i] = s[Len(s) - i + 1]
BY DEF Reverse

LEMMA SuffixIsFollowing ==
  ASSUME NEW c \in Seq(CacheEntries), NEW r \in Seq(Ids),
         NEW ids, ids = [i \in DOMAIN c |-> c[i].id]
  PROVE  IsSuffix(ids, r) <=> Follows(c, r)
<1> DEFINE n == Len(c)
           m == Len(r)
<1>1. ids \in Seq(Ids) /\ Len(ids) = n /\ \A i \in 1..n : ids[i] = c[i].id
  <2>1. DOMAIN c = 1..n /\ n \in Nat
    OBVIOUS
  <2>2. \A i \in 1..n : c[i].id \in Ids
    <3>1. \A i \in 1..n : c[i] \in CacheEntries
      OBVIOUS
    <3> QED
      BY <3>1 DEF CacheEntries
  <2>3. ids = [i \in 1..n |-> c[i].id]
    BY <2>1
  <2> HIDE DEF n
  <2> QED
    BY <2>1, <2>2, <2>3
<1>2. /\ Reverse(ids) \in Seq(Ids) /\ Len(Reverse(ids)) = n
      /\ \A i \in 1..n : Reverse(ids)[i] = c[n - i + 1].id
  <2>1. /\ Reverse(ids) \in Seq(Ids) /\ Len(Reverse(ids)) = Len(ids)
        /\ \A i \in 1..Len(ids) : Reverse(ids)[i] = ids[Len(ids) - i + 1]
    <3>1. ids \in Seq(Ids)
      BY <1>1
    <3> QED
      BY <3>1, ReversedPlaces
  <2>2. n \in Nat /\ \A i \in 1..n : n - i + 1 \in 1..n
    OBVIOUS
  <2> QED
    BY <1>1, <2>1, <2>2
<1>3. /\ Reverse(r) \in Seq(Ids) /\ Len(Reverse(r)) = m
      /\ \A i \in 1..m : Reverse(r)[i] = r[m - i + 1]
  BY ReversedPlaces
<1>4. IsSuffix(ids, r) <=>
        n <= m /\ \A i \in 1..n : c[n - i + 1].id = r[m - i + 1]
  <2> DEFINE a == Reverse(ids)
             b == Reverse(r)
  <2>1. n \in Nat /\ m \in Nat
    OBVIOUS
  <2>2. SubSeq(a, 1, n) = a
    BY <1>2
  <2>3. n <= m => /\ SubSeq(b, 1, n) \in Seq(Ids) /\ Len(SubSeq(b, 1, n)) = n
                  /\ \A i \in 1..n : SubSeq(b, 1, n)[i] = b[i]
    BY <1>3, <2>1
  <2>4. IsSuffix(ids, r) <=> n <= m /\ a = SubSeq(b, 1, n)
    BY <1>2, <1>3, <2>2 DEF IsSuffix, IsPrefix
  <2>5. n <= m => (a = SubSeq(b, 1, n) <=> \A i \in 1..n : a[i] = b[i])
    BY <1>2, <2>3
  <2>6. n <= m => \A i \in 1..n : a[i] = c[n - i + 1].id /\ b[i] = r[m - i + 1]
    BY <1>2, <1>3, <2>1
  <2> HIDE DEF a, b, n, m
  <2> QED
    BY <2>4, <2>5, <2>6
<1>5. n \in Nat /\ m \in Nat
  OBVIOUS
<1>6. (\A i \in 1..n : c[n - i + 1].id = r[m - i + 1]) <=>
      (\A i \in 1..n : c[i].id = r[m - n + i])
  <2>1. \A i \in 1..n : n - i + 1 \in 1..n /\ m - (n - i + 1) + 1 = m - n + i
                        /\ m - n + (n - i + 1) = m - i + 1 /\ n - (n - i + 1) + 1 = i
    BY <1>5
  <2> QED
    BY <2>1
<1> QED
  BY <1>4, <1>6 DEF Follows

IdUsed(r, id) == Append(RemoveFirst(r, id), id)

EntryStored(c, id, value) == Append(Without(c, id), Entry(id, value))

(* What UsedIsLast and StoredIsLast say. *)
IsLast(r, id, r2) ==
  /\ r2 \in Seq(Ids) /\ IsInjective(r2)
  /\ Len(r2) = IF \E i \in 1..Len(r) : r[i] = id THEN Len(r) ELSE Len(r) + 1
  /\ r2[Len(r2)] = id
  /\ \A e \in Ids \ {id} :
       (\E i \in 1..Len(r2) : r2[i] = e) <=> \E i \in 1..Len(r) : r[i] = e

IsStoredLast(c, id, value, c2) ==
  /\ c2 \in Seq(CacheEntries)
  /\ Len(c2) = IF Has(c, id) THEN Len(c) ELSE Len(c) + 1
  /\ Len(c2) > 0 /\ c2[Len(c2)] = Entry(id, value)
  /\ \A i \in 1..Len(c2) - 1 : c2[i].id # id /\ \E j \in 1..Len(c) : c2[i] = c[j]

(* An id that is used leaves its place for the last one. *)
LEMMA UsedIsLast ==
  ASSUME NEW r \in Seq(Ids), IsInjective(r), NEW id \in Ids
  PROVE  IsLast(r, id, IdUsed(r, id))
<1> DEFINE r2 == IdUsed(r, id)
<1> DEFINE f == RemoveFirst(r, id)
           m == Len(r)
<1>1. /\ f \in Seq(Ids)
      /\ (\A i \in 1..m : r[i] # id) => f = r
      /\ \A p \in 1..m : r[p] = id => LeavesOut(r, f, p)
  BY RemoveFirstLeavesOut
<1> HIDE DEF f
<1>2. /\ r2 \in Seq(Ids) /\ Len(r2) = Len(f) + 1 /\ r2[Len(f) + 1] = id
      /\ \A i \in 1..Len(f) : r2[i] = f[i]
  <2>1. r2 = Append(f, id)
    BY DEF f, IdUsed
  <2> HIDE DEF r2
  <2> QED
    BY <1>1, <2>1
<1> SUFFICES IsLast(r, id, r2)
  BY DEF r2
<1> HIDE DEF r2
<1> USE DEF IsLast
<1>3. Len(f) \in Nat /\ m \in Nat /\ DOMAIN r2 = 1..Len(f) + 1 /\ DOMAIN r = 1..m
  BY <1>1, <1>2
<1>4. CASE \A i \in 1..m : r[i] # id
  <2>1. f = r /\ Len(r2) = m + 1 /\ r2[m + 1] = id /\ \A i \in 1..m : r2[i] = r[i]
    BY <1>1, <1>2, <1>4
  <2>2. IsInjective(r2)
    BY <1>3, <1>4, <2>1 DEF IsInjective
  <2>3. \A e \in Ids \ {id} :
          (\E i \in 1..Len(r2) : r2[i] = e) <=> \E i \in 1..m : r[i] = e
    BY <1>3, <2>1
  <2> QED
    BY <1>2, <1>4, <2>1, <2>2, <2>3
<1>5. ASSUME NEW p \in 1..m, r[p] = id
      PROVE  /\ IsInjective(r2) /\ Len(r2) = m
             /\ \A e \in Ids \ {id} :
                  (\E i \in 1..m : r2[i] = e) <=> \E i \in 1..m : r[i] = e
  <2> DEFINE from(i) == IF i < p THEN i ELSE i + 1
  <2>1. Len(f) = m - 1 /\ \A i \in 1..m - 1 : r2[i] = r[from(i)]
    BY <1>1, <1>2, <1>5 DEF LeavesOut
  <2>2. \A i \in 1..m - 1 : from(i) \in 1..m /\ from(i) # p
    BY <1>3
  <2>3. \A i, j \in 1..m - 1 : from(i) = from(j) => i = j
    BY <1>3
  <2>4. \A k \in 1..m : k # p => \E i \in 1..m - 1 : from(i) = k
    <3>1. ASSUME NEW k \in 1..m, k < p PROVE k \in 1..m - 1 /\ from(k) = k
      BY <1>3, <3>1
    <3>2. ASSUME NEW k \in 1..m, k > p PROVE k - 1 \in 1..m - 1 /\ from(k - 1) = k
      BY <1>3, <3>2
    <3> QED
      BY <1>3, <3>1, <3>2
  <2> HIDE DEF from
  <2>5. \A i \in 1..m - 1 : r2[i] # id
    BY <1>3, <1>5, <2>1, <2>2 DEF IsInjective
  <2>6. r2[m] = id /\ Len(r2) = m
    BY <1>2, <1>3, <2>1
  <2>7. IsInjective(r2)
    <3>0. \A x, y \in DOMAIN r : r[x] = r[y] => x = y
      BY DEF IsInjective
    <3>1. ASSUME NEW i \in 1..m - 1, NEW j \in 1..m - 1, r2[i] = r2[j]
          PROVE  i = j
      <4>1. r[from(i)] = r[from(j)] /\ from(i) \in DOMAIN r /\ from(j) \in DOMAIN r
        BY <1>3, <2>1, <2>2, <3>1
      <4>2. from(i) = from(j)
        BY <3>0, <4>1
      <4> QED
        BY <2>3, <4>2
    <3>2. DOMAIN r2 = 1..m
      <4>1. Len(f) + 1 = m
        BY <1>3, <2>1
      <4> QED
        BY <1>3, <4>1
    <3>3. ASSUME NEW i \in 1..m, NEW j \in 1..m, r2[i] = r2[j]
          PROVE  i = j
      <4>0. m \in Nat
        BY <1>3
      <4> HIDE DEF m
      <4>1. /\ i # m => i \in 1..m - 1
            /\ j # m => j \in 1..m - 1
        BY <4>0
      <4>2. CASE i # m /\ j # m
        BY <3>1, <3>3, <4>1, <4>2
      <4>3. i = m <=> j = m
        BY <2>5, <2>6, <3>3, <4>1
      <4> QED
        BY <4>2, <4>3
    <3>4. \A i, j \in DOMAIN r2 : r2[i] = r2[j] => i = j
      BY <3>2, <3>3
    <3> QED
      BY <3>4 DEF IsInjective
  <2>8. ASSUME NEW e \in Ids \ {id}
        PROVE  (\E i \in 1..m : r2[i] = e) <=> \E i \in 1..m : r[i] = e
    <3>1. ASSUME NEW i \in 1..m, r2[i] = e PROVE \E k \in 1..m : r[k] = e
      <4>1. i \in 1..m - 1
        BY <1>3, <2>6, <3>1
      <4> QED
        BY <2>1, <2>2, <3>1, <4>1
    <3>2. ASSUME NEW k \in 1..m, r[k] = e PROVE \E i \in 1..m : r2[i] = e
      <4>1. PICK i \in 1..m - 1 : from(i) = k
        BY <1>5, <2>4, <3>2
      <4>2. r2[i] = r[k]
        BY <2>1, <4>1
      <4>3. i \in 1..m
        BY <1>3
      <4> QED
        BY <3>2, <4>2, <4>3
    <3> QED
      BY <3>1, <3>2
  <2> QED
    BY <2>6, <2>7, <2>8
<1> QED
  BY <1>2, <1>4, <1>5

(* So does an entry. *)
LEMMA StoredIsLast ==
  ASSUME NEW c \in Seq(CacheEntries),
         \A i, j \in 1..Len(c) : c[i].id = c[j].id => i = j,
         NEW id \in Ids, NEW value \in CompiledTemplates
  PROVE  IsStoredLast(c, id, value, EntryStored(c, id, value))
<1> DEFINE c2 == EntryStored(c, id, value)
<1> DEFINE w == Without(c, id)
<1>1. /\ w \in Seq(CacheEntries)
      /\ ~Has(c, id) => w = c
      /\ Has(c, id) => LeavesOut(c, w, Place(c, id)) /\ c[Place(c, id)].id = id
  BY WithoutLeavesOut
<1>2. Entry(id, value) \in CacheEntries
  BY DEF Entry, CacheEntries
<1> HIDE DEF w
<1>3. /\ c2 \in Seq(CacheEntries) /\ Len(c2) = Len(w) + 1 /\ c2[Len(w) + 1] = Entry(id, value)
      /\ \A i \in 1..Len(w) : c2[i] = w[i]
  <2>1. c2 = Append(w, Entry(id, value))
    BY DEF w, EntryStored
  <2> HIDE DEF c2
  <2> QED
    BY <1>1, <1>2, <2>1
<1> SUFFICES IsStoredLast(c, id, value, c2)
  BY DEF c2
<1> HIDE DEF c2
<1> USE DEF IsStoredLast
<1>4. Len(w) \in Nat /\ Len(c) \in Nat
  BY <1>1
<1>5. CASE ~Has(c, id)
  <2>1. \A i \in 1..Len(c) : c[i].id # id
    BY <1>5 DEF Has
  <2> QED
    BY <1>1, <1>3, <1>4, <1>5, <2>1
<1>6. CASE Has(c, id)
  <2> DEFINE p == Place(c, id)
  <2>1. /\ p \in 1..Len(c) /\ c[p].id = id /\ Len(w) = Len(c) - 1
        /\ \A i \in 1..Len(w) : w[i] = IF i < p THEN c[i] ELSE c[i + 1]
    BY <1>1, <1>6 DEF LeavesOut
  <2> HIDE DEF p
  <2>2. ASSUME NEW i \in 1..Len(w)
        PROVE  w[i].id # id /\ \E j \in 1..Len(c) : w[i] = c[j]
    <3>1. PICK j \in 1..Len(c) : j # p /\ w[i] = c[j]
      <4>1. CASE i < p
        BY <1>4, <2>1, <4>1
      <4>2. CASE ~(i < p)
        BY <1>4, <2>1, <4>2
      <4> QED
        BY <4>1, <4>2
    <3> QED
      BY <2>1, <3>1
  <2>3. Len(w) = Len(c2) - 1 /\ Len(c2) = Len(c) /\ Len(c2) > 0
    BY <1>3, <1>4, <2>1
  <2>4. c2[Len(c2)] = Entry(id, value)
    BY <1>3, <1>4, <2>3
  <2>5. ASSUME NEW i \in 1..Len(c2) - 1
        PROVE  c2[i].id # id /\ \E j \in 1..Len(c) : c2[i] = c[j]
    <3>1. i \in 1..Len(w) /\ c2[i] = w[i]
      BY <1>3, <2>3
    <3> QED
      BY <2>2, <3>1
  <2> QED
    BY <1>3, <1>6, <2>3, <2>4, <2>5
<1> QED
  BY <1>5, <1>6

(* Entries whose ids come from an injective sequence have ids of their own. *)
LEMMA EntriesAreUnique ==
  ASSUME NEW c \in Seq(CacheEntries), NEW r \in Seq(Ids), IsInjective(r), Follows(c, r)
  PROVE  \A i, j \in 1..Len(c) : c[i].id = c[j].id => i = j
<1> SUFFICES ASSUME NEW i \in 1..Len(c), NEW j \in 1..Len(c), c[i].id = c[j].id
             PROVE  i = j
  OBVIOUS
<1> DEFINE d == Len(r) - Len(c)
<1>1. d \in Nat /\ d + i \in DOMAIN r /\ d + j \in DOMAIN r
  BY DEF Follows
<1>2. r[d + i] = r[d + j]
  BY DEF Follows
<1>3. d + i = d + j
  BY <1>1, <1>2 DEF IsInjective
<1> QED
  BY <1>1, <1>3

(* A place left out on both sides, or only where r goes further back. *)
LEMMA FollowsWithout ==
  ASSUME NEW c \in Seq(CacheEntries), NEW r \in Seq(Ids), IsInjective(r), Follows(c, r),
         NEW id \in Ids
  PROVE  Follows(Without(c, id), RemoveFirst(r, id))
<1> DEFINE w == Without(c, id)
           f == RemoveFirst(r, id)
           n == Len(c)
           m == Len(r)
<1>0. n \in Nat /\ m \in Nat
  <2> HIDE DEF CacheEntries
  <2> QED
    OBVIOUS
<1>1. /\ n \in Nat /\ m \in Nat /\ n <= m
      /\ \A i \in 1..n : c[i].id = r[m - n + i]
  BY <1>0 DEF Follows
<1>2. /\ w \in Seq(CacheEntries)
      /\ ~Has(c, id) => w = c
      /\ Has(c, id) => LeavesOut(c, w, Place(c, id)) /\ c[Place(c, id)].id = id
  BY WithoutLeavesOut
<1>3. /\ f \in Seq(Ids)
      /\ (\A i \in 1..m : r[i] # id) => f = r
      /\ \A p \in 1..m : r[p] = id => LeavesOut(r, f, p)
  BY RemoveFirstLeavesOut
<1> HIDE DEF w, f
<1>4. CASE \A i \in 1..m : r[i] # id
  <2>1. ASSUME NEW i \in 1..n PROVE c[i].id # id
    <3>1. m - n + i \in 1..m
      BY <1>1
    <3> QED
      BY <1>1, <1>4, <3>1
  <2>2. w = c /\ f = r
    BY <1>2, <1>3, <1>4, <2>1 DEF Has
  <2> QED
    BY <2>2 DEF w, f
<1>5. ASSUME NEW q \in 1..m, r[q] = id
      PROVE  Follows(w, f)
  <2>1. Len(f) = m - 1 /\ \A i \in 1..m - 1 : f[i] = IF i < q THEN r[i] ELSE r[i + 1]
    BY <1>3, <1>5 DEF LeavesOut
  <2>2. CASE Has(c, id)
    <3> DEFINE p == Place(c, id)
    <3>1. /\ p \in 1..n /\ c[p].id = id /\ Len(w) = n - 1
          /\ \A i \in 1..n - 1 : w[i] = IF i < p THEN c[i] ELSE c[i + 1]
      BY <1>2, <2>2 DEF LeavesOut
    <3> HIDE DEF p
    <3>2. q = m - n + p
      <4>1. m - n + p \in DOMAIN r /\ r[m - n + p] = id
        BY <1>1, <3>1
      <4> QED
        BY <1>5, <4>1 DEF IsInjective
    <3>3. ASSUME NEW i \in 1..n - 1
          PROVE  w[i].id = f[m - n + i]
      <4>1. m - n + i \in 1..m - 1 /\ i \in 1..n /\ i + 1 \in 1..n
        BY <1>1
      <4>2. CASE i < p
        <5>1. m - n + i < q
          BY <1>1, <3>2, <4>2, <3>1
        <5>2. w[i] = c[i] /\ f[m - n + i] = r[m - n + i]
          BY <2>1, <3>1, <4>1, <4>2, <5>1
        <5> QED
          BY <1>1, <4>1, <5>2
      <4>3. CASE ~(i < p)
        <5>1. ~(m - n + i < q) /\ m - n + i + 1 = m - n + (i + 1)
          BY <1>1, <3>2, <4>3, <3>1
        <5>2. w[i] = c[i + 1] /\ f[m - n + i] = r[m - n + (i + 1)]
          BY <2>1, <3>1, <4>1, <4>3, <5>1
        <5> QED
          BY <1>1, <4>1, <5>2
      <4> QED
        BY <4>2, <4>3
    <3>4. Len(f) - Len(w) = m - n /\ Len(w) <= Len(f)
      BY <1>1, <2>1, <3>1
    <3> QED
      BY <3>1, <3>3, <3>4 DEF Follows
  <2>3. CASE ~Has(c, id)
    <3>1. \A i \in 1..n : c[i].id # id
      BY <2>3 DEF Has
    <3>2. q <= m - n
      <4>1. SUFFICES ASSUME q > m - n PROVE FALSE
        BY <1>1
      <4>2. q - (m - n) \in 1..n /\ m - n + (q - (m - n)) = q
        BY <1>1, <4>1
      <4> QED
        BY <1>1, <1>5, <3>1, <4>2
    <3>3. w = c /\ Len(w) <= Len(f)
      BY <1>1, <1>2, <2>1, <2>3, <3>2
    <3>4. ASSUME NEW i \in 1..n
          PROVE  w[i].id = f[Len(f) - n + i]
      <4>1. /\ Len(f) - n + i \in 1..m - 1 /\ ~(Len(f) - n + i < q)
            /\ Len(f) - n + i + 1 = m - n + i
        BY <1>1, <2>1, <3>2
      <4> QED
        BY <1>1, <2>1, <3>3, <4>1
    <3> QED
      BY <3>3, <3>4 DEF Follows
  <2> QED
    BY <2>2, <2>3
<1> QED
  BY <1>4, <1>5 DEF w, f

LEMMA FollowsAppended ==
  ASSUME NEW w \in Seq(CacheEntries), NEW f \in Seq(Ids), Follows(w, f),
         NEW e \in CacheEntries
  PROVE  Follows(Append(w, e), Append(f, e.id))
<1> DEFINE c == Append(w, e)
           r == Append(f, e.id)
<1>1. e.id \in Ids
  BY DEF CacheEntries
<1>2. /\ c \in Seq(CacheEntries) /\ Len(c) = Len(w) + 1 /\ c[Len(w) + 1] = e
      /\ \A i \in 1..Len(w) : c[i] = w[i]
  OBVIOUS
<1>3. /\ r \in Seq(Ids) /\ Len(r) = Len(f) + 1 /\ r[Len(f) + 1] = e.id
      /\ \A i \in 1..Len(f) : r[i] = f[i]
  BY <1>1
<1>4. /\ Len(w) \in Nat /\ Len(f) \in Nat /\ Len(w) <= Len(f)
      /\ \A i \in 1..Len(w) : w[i].id = f[Len(f) - Len(w) + i]
  BY DEF Follows
<1> HIDE DEF c, r
<1>5. Len(r) - Len(c) = Len(f) - Len(w)
  BY <1>2, <1>3, <1>4
<1>6. ASSUME NEW i \in 1..Len(c)
      PROVE  c[i].id = r[Len(r) - Len(c) + i]
  <2>1. CASE i \in 1..Len(w)
    <3>1. Len(f) - Len(w) + i \in 1..Len(f)
      BY <1>4, <2>1
    <3> QED
      BY <1>2, <1>3, <1>4, <1>5, <2>1, <3>1
  <2>2. CASE i = Len(w) + 1
    BY <1>2, <1>3, <1>4, <1>5, <2>2
  <2> QED
    BY <1>2, <1>4, <2>1, <2>2
<1>7. Len(c) <= Len(r)
  BY <1>2, <1>3, <1>4
<1>8. Follows(c, r)
  BY <1>6, <1>7 DEF Follows
<1> QED
  BY <1>8 DEF c, r
-----------------------------------------------------------------------------
(* What holds of a cache c between the two halves of set(), when r has the  *)
(* ids by their last use and l the templates last registered.               *)
WellKept(c, r, l) ==
  /\ c \in Seq(CacheEntries)
  /\ r \in Seq(Ids) /\ IsInjective(r)
  /\ l \in [Ids -> CompiledTemplates \cup {None}]
  /\ \A id \in Ids : l[id] # None <=> \E i \in 1..Len(r) : r[i] = id
  /\ Follows(c, r)
  /\ Len(c) >= (IF Len(r) < MaxCached THEN Len(r) ELSE MaxCached)
  /\ \A i \in 1..Len(c) : c[i].value = l[c[i].id]

LEMMA NoneIsNoTemplate == None \notin CompiledTemplates
BY DEF None, CompiledTemplates

LEMMA StoredKeepsWell ==
  ASSUME NEW c, NEW r, NEW l, WellKept(c, r, l),
         NEW id \in Ids, NEW value \in CompiledTemplates
  PROVE  /\ WellKept(EntryStored(c, id, value), IdUsed(r, id), [l EXCEPT ![id] = value])
         /\ Len(EntryStored(c, id, value)) = IF Has(c, id) THEN Len(c) ELSE Len(c) + 1
<1> DEFINE c2 == EntryStored(c, id, value)
           r2 == IdUsed(r, id)
           l2 == [l EXCEPT ![id] = value]
<1>0. c \in Seq(CacheEntries) /\ r \in Seq(Ids) /\ IsInjective(r) /\ Follows(c, r)
  BY DEF WellKept
<1>1. \A i, j \in 1..Len(c) : c[i].id = c[j].id => i = j
  BY <1>0, EntriesAreUnique
<1>2. IsStoredLast(c, id, value, c2)
  BY <1>0, <1>1, StoredIsLast
<1>3. IsLast(r, id, r2)
  BY <1>0, UsedIsLast
<1>4. Follows(c2, r2)
  <2>1. Follows(Without(c, id), RemoveFirst(r, id))
    BY FollowsWithout DEF WellKept
  <2>2. Without(c, id) \in Seq(CacheEntries) /\ RemoveFirst(r, id) \in Seq(Ids)
    BY WithoutLeavesOut, RemoveFirstLeavesOut DEF WellKept
  <2>3. Entry(id, value) \in CacheEntries /\ Entry(id, value).id = id
    BY DEF Entry, CacheEntries
  <2> QED
    BY <2>1, <2>2, <2>3, FollowsAppended DEF IdUsed, EntryStored
<1>5. /\ l2 \in [Ids -> CompiledTemplates \cup {None}]
      /\ l2[id] = value /\ \A e \in Ids \ {id} : l2[e] = l[e]
  BY DEF WellKept
<1> HIDE DEF c2, r2, l2
<1> USE DEF IsStoredLast, IsLast
<1>6. Len(c) \in Nat /\ Len(r) \in Nat /\ Len(c2) \in Nat /\ Len(r2) \in Nat
  BY <1>2, <1>3 DEF WellKept
<1>7. \A e \in Ids : l2[e] # None <=> \E i \in 1..Len(r2) : r2[i] = e
  <2>1. Len(r2) \in 1..Len(r2) /\ l2[id] # None
    BY <1>3, <1>5, <1>6, NoneIsNoTemplate
  <2>2. \A e \in Ids \ {id} : l2[e] # None <=> \E i \in 1..Len(r2) : r2[i] = e
    BY <1>3, <1>5 DEF WellKept
  <2> QED
    BY <1>3, <2>1, <2>2
<1>8. Len(c2) >= (IF Len(r2) < MaxCached THEN Len(r2) ELSE MaxCached)
  <2>1. Len(c) >= (IF Len(r) < MaxCached THEN Len(r) ELSE MaxCached)
    BY DEF WellKept
  <2>2. CASE Has(c, id)
    <3>1. PICK i \in 1..Len(c) : c[i].id = id
      BY <2>2 DEF Has, WellKept
    <3>2. Len(r) - Len(c) + i \in 1..Len(r) /\ r[Len(r) - Len(c) + i] = id
      BY <1>6, <3>1 DEF WellKept, Follows
    <3> QED
      BY <1>2, <1>3, <1>6, <2>1, <2>2, <3>2
  <2>3. CASE ~Has(c, id)
    <3>1. Len(c2) = Len(c) + 1 /\ (Len(r2) = Len(r) \/ Len(r2) = Len(r) + 1)
      BY <1>2, <1>3, <2>3
    <3> QED
      BY <1>6, <2>1, <3>1, CacheAssumption
  <2> QED
    BY <2>2, <2>3
<1>9. ASSUME NEW i \in 1..Len(c2)
      PROVE  c2[i].value = l2[c2[i].id]
  <2>1. CASE i = Len(c2)
    BY <1>2, <1>5, <2>1 DEF Entry
  <2>2. CASE i \in 1..Len(c2) - 1
    <3>1. PICK j \in 1..Len(c) : c2[i] = c[j]
      BY <1>2, <2>2
    <3>2. c[j] \in CacheEntries /\ c[j].value = l[c[j].id]
      BY DEF WellKept
    <3>3. c[j].id \in Ids \ {id}
      BY <1>2, <2>2, <3>1, <3>2 DEF CacheEntries
    <3> QED
      BY <1>5, <3>1, <3>2, <3>3
  <2> QED
    BY <1>6, <2>1, <2>2
<1> QED
  <2>1. WellKept(c2, r2, l2)
    BY <1>2, <1>3, <1>4, <1>5, <1>7, <1>8, <1>9 DEF WellKept
  <2> QED
    BY <1>2, <2>1 DEF c2, r2, l2

LEMMA EvictedKeepsWell ==
  ASSUME NEW c, NEW r, NEW l, WellKept(c, r, l),
         Len(c) > MaxCached + 1 => l[Blank] # None
  PROVE  /\ WellKept(Evicted(c), r, l)
         /\ Len(Evicted(c)) > MaxCached => l[Blank] # None
<1>1. Len(c) \in Nat /\ Len(r) \in Nat /\ MaxCached \in Nat /\ MaxCached > 0
  BY CacheAssumption DEF WellKept
<1>2. CASE Len(c) > MaxCached /\ c[1].id # Blank
  <2> DEFINE t == Tail(c)
  <2>1. /\ t \in Seq(CacheEntries) /\ Len(t) = Len(c) - 1
        /\ \A i \in 1..Len(c) - 1 : t[i] = c[i + 1]
    BY <1>1, <1>2 DEF WellKept
  <2>2. Evicted(c) = t
    BY <1>2 DEF Evicted
  <2> HIDE DEF t
  <2>3. Follows(t, r)
    <3>1. ASSUME NEW i \in 1..Len(t) PROVE t[i].id = r[Len(r) - Len(t) + i]
      <4>1. i + 1 \in 1..Len(c) /\ Len(r) - Len(c) + (i + 1) = Len(r) - Len(t) + i
        BY <1>1, <2>1
      <4>2. t[i] = c[i + 1]
        BY <2>1
      <4> QED
        BY <4>1, <4>2 DEF WellKept, Follows
    <3>2. Len(c) <= Len(r)
      BY DEF WellKept, Follows
    <3>3. Len(t) <= Len(r)
      BY <1>1, <2>1, <3>2
    <3> QED
      BY <3>1, <3>3 DEF Follows
  <2>4. \A i \in 1..Len(t) : t[i].value = l[t[i].id]
    <3>1. \A i \in 1..Len(t) : i + 1 \in 1..Len(c) /\ t[i] = c[i + 1]
      BY <1>1, <2>1
    <3> QED
      BY <3>1 DEF WellKept
  <2>5. Len(t) >= MaxCached /\ (Len(t) > MaxCached => l[Blank] # None)
    BY <1>1, <1>2, <2>1
  <2>6. Len(t) >= (IF Len(r) < MaxCached THEN Len(r) ELSE MaxCached)
    BY <1>1, <2>1, <2>5
  <2>7. WellKept(t, r, l)
    BY <2>1, <2>3, <2>4, <2>6 DEF WellKept
  <2> QED
    BY <2>2, <2>5, <2>7
<1>3. CASE Len(c) > MaxCached /\ c[1].id = Blank
  <2>0. 1 \in 1..Len(c)
    BY <1>1, <1>3
  <2>1. c[1] \in CacheEntries /\ c[1].value = l[Blank]
    <3>1. c[1] \in CacheEntries
      <4> HIDE DEF CacheEntries
      <4> QED
        BY <2>0 DEF WellKept
    <3>2. c[1].value = l[c[1].id]
      BY <2>0 DEF WellKept
    <3> QED
      BY <1>3, <3>1, <3>2
  <2>2. l[Blank] # None
    BY <2>1, NoneIsNoTemplate DEF CacheEntries
  <2> QED
    BY <1>3, <2>2 DEF Evicted
<1>4. CASE ~(Len(c) > MaxCached)
  BY <1>4 DEF Evicted
<1> QED
  BY <1>2, <1>3, <1>4
-----------------------------------------------------------------------------
TemplatesInv ==
  /\ engine \in {"handlebars", "mustache"}
  /\ regs \in 0..MaxRegs
  /\ WellKept(cache, recent, latest)
  /\ Len(cache) > MaxCached => latest[Blank] # None

LEMMA TemplatesInvMeans == TemplatesInv => TemplatesTypeOK /\ CacheIsLRU
<1> SUFFICES ASSUME TemplatesInv PROVE TemplatesTypeOK /\ CacheIsLRU
  OBVIOUS
<1>1. IsSuffix(CachedIds, recent)
  BY SuffixIsFollowing DEF TemplatesInv, WellKept, CachedIds
<1>2. DOMAIN cache = 1..Len(cache) /\ DOMAIN recent = 1..Len(recent)
  BY DEF TemplatesInv, WellKept
<1> QED
  BY <1>1, <1>2 DEF TemplatesInv, TemplatesTypeOK, CacheIsLRU, WellKept, CacheEntries

LEMMA TemplatesInitInv == TemplatesInit => TemplatesInv
<1> SUFFICES ASSUME TemplatesInit PROVE TemplatesInv
  OBVIOUS
<1>1. /\ cache \in Seq(CacheEntries) /\ recent \in Seq(Ids)
      /\ Len(cache) = 0 /\ Len(recent) = 0 /\ DOMAIN recent = {}
  BY DEF TemplatesInit
<1>2. latest \in [Ids -> CompiledTemplates \cup {None}] /\ \A id \in Ids : latest[id] = None
  BY DEF TemplatesInit
<1>3. WellKept(cache, recent, latest)
  BY <1>1, <1>2, CacheAssumption DEF WellKept, Follows, IsInjective
<1> QED
  BY <1>1, <1>3, CacheAssumption, TemplatesAssumption DEF TemplatesInit, TemplatesInv

LEMMA RegisterInv ==
  ASSUME TemplatesInv, NEW id \in Ids, NEW source \in Sources, NEW typed \in BOOLEAN,
         RegisterTemplate(id, source, typed)
  PROVE  TemplatesInv'
<1> DEFINE value == [kind |-> CompiledBy(typed), source |-> source, version |-> regs + 1]
           c == EntryStored(cache, id, value)
<1>1. /\ engine \in {"handlebars", "mustache"} /\ regs \in 0..MaxRegs /\ MaxRegs \in Nat
      /\ WellKept(cache, recent, latest)
      /\ Len(cache) > MaxCached => latest[Blank] # None
  BY TemplatesAssumption DEF TemplatesInv
<1>2. value \in CompiledTemplates /\ regs' \in 0..MaxRegs /\ engine' = engine
  BY <1>1 DEF RegisterTemplate, CompiledTemplates, CompiledBy
<1>3. /\ cache' = Evicted(c)
      /\ recent' = IdUsed(recent, id)
      /\ latest' = [latest EXCEPT ![id] = value]
  BY DEF RegisterTemplate, AfterSet, EntryStored, Used, IdUsed
<1> HIDE DEF value, c
<1>4. WellKept(c, recent', latest') /\ (Len(c) = Len(cache) \/ Len(c) = Len(cache) + 1)
  BY <1>1, <1>2, <1>3, StoredKeepsWell DEF c
<1>5. Len(c) > MaxCached + 1 => latest'[Blank] # None
  <2>1. latest'[Blank] = latest[Blank] \/ latest'[Blank] = value
    BY <1>1, <1>3, TemplatesAssumption DEF WellKept
  <2>2. Len(c) > MaxCached + 1 => Len(cache) > MaxCached
    BY <1>1, <1>4, CacheAssumption DEF WellKept
  <2> QED
    BY <1>1, <1>2, <2>1, <2>2, NoneIsNoTemplate
<1>6. WellKept(cache', recent', latest') /\ (Len(cache') > MaxCached => latest'[Blank] # None)
  BY <1>3, <1>4, <1>5, EvictedKeepsWell
<1> QED
  BY <1>1, <1>2, <1>6 DEF TemplatesInv

LEMMA SendInv ==
  ASSUME TemplatesInv, NEW id \in Ids, Send(id)
  PROVE  TemplatesInv'
<1>1. /\ engine \in {"handlebars", "mustache"} /\ regs \in 0..MaxRegs
      /\ WellKept(cache, recent, latest)
      /\ Len(cache) > MaxCached => latest[Blank] # None
  BY DEF TemplatesInv
<1>2. CASE id # Blank /\ Hit(cache, id)
  <2> DEFINE value == Found(cache, id)
             c == EntryStored(cache, id, value)
  <2>1. Has(cache, id) /\ cache' = c /\ recent' = IdUsed(recent, id)
    BY <1>2 DEF Send, AfterGet, EntryStored, Used, IdUsed, Hit
  <2>2. /\ Place(cache, id) \in 1..Len(cache) /\ cache[Place(cache, id)].id = id
        /\ cache[Place(cache, id)] \in CacheEntries
    BY <1>1, <2>1 DEF Has, Place, WellKept
  <2>3. value \in CompiledTemplates /\ value = latest[id]
    BY <1>1, <2>2 DEF WellKept, Found, CacheEntries
  <2>4. latest' = latest /\ latest = [latest EXCEPT ![id] = value]
    BY <1>1, <2>3 DEF Send, WellKept
  <2> HIDE DEF value, c
  <2>5. WellKept(c, recent', latest') /\ Len(c) = Len(cache)
    BY <1>1, <2>1, <2>3, <2>4, StoredKeepsWell DEF c
  <2>6. WellKept(cache', recent', latest') /\ Len(cache') = Len(cache)
    BY <2>1, <2>5
  <2> QED
    BY <1>1, <2>4, <2>6 DEF Send, TemplatesInv
<1>3. CASE ~(id # Blank /\ Hit(cache, id))
  BY <1>3 DEF Send, TemplatesInv, WellKept, Follows
<1> QED
  BY <1>2, <1>3

THEOREM TemplatesInvariant == TemplatesSpec => []TemplatesInv
<1>1. TemplatesInv /\ UNCHANGED templatesVars => TemplatesInv'
  BY DEF TemplatesInv, templatesVars
<1>2. TemplatesInv /\ [TemplatesNext]_templatesVars => TemplatesInv'
  BY <1>1, RegisterInv, SendInv DEF TemplatesNext
<1> QED
  BY <1>2, TemplatesInitInv, PTL DEF TemplatesSpec

(* The cache and the histories stay in their domains. *)
THEOREM TemplatesTypeCorrect == TemplatesSpec => []TemplatesTypeOK
BY TemplatesInvariant, TemplatesInvMeans, PTL

(* The cache holds the templates used last, in that order and as last       *)
(* registered, never fewer than it has room for; and it outgrows its size   *)
(* only when the empty id is in use.                                        *)
THEOREM TemplatesAreLRU == TemplatesSpec => []CacheIsLRU
BY TemplatesInvariant, TemplatesInvMeans, PTL

LEMMA YoungerIsFar ==
  ASSUME TemplatesInv, NEW id \in Ids, ~Has(cache, id), latest[id] # None
  PROVE  Younger(id) >= MaxCached
<1> DEFINE q == CHOOSE i \in DOMAIN recent : recent[i] = id
           n == Len(cache)
           m == Len(recent)
<1>1. /\ cache \in Seq(CacheEntries) /\ recent \in Seq(Ids) /\ n \in Nat /\ m \in Nat /\ n <= m
      /\ \A i \in 1..n : cache[i].id = recent[m - n + i]
      /\ n >= (IF m < MaxCached THEN m ELSE MaxCached)
      /\ \E i \in 1..m : recent[i] = id
  BY DEF TemplatesInv, WellKept, Follows
<1>2. q \in 1..m /\ recent[q] = id
  BY <1>1
<1>3. \A i \in 1..n : cache[i].id # id
  BY <1>1 DEF Has
<1>4. Younger(id) = m - q
  BY DEF Younger
<1> HIDE DEF q, n, m
<1>5. q <= m - n
  <2>1. SUFFICES ASSUME q > m - n PROVE FALSE
    BY <1>1, <1>2
  <2>2. q - (m - n) \in 1..n /\ m - n + (q - (m - n)) = q
    BY <1>1, <1>2, <2>1
  <2> QED
    BY <1>1, <1>2, <1>3, <2>2
<1> QED
  BY <1>1, <1>2, <1>4, <1>5, CacheAssumption

(* Unless MaxCached others were used or registered since, an email is       *)
(* rendered by the template last registered under its id, or refused for    *)
(* what is wrong with that template, its data or its kind.                  *)
THEOREM RenderedByTheLast == TemplatesSpec => []RenderedAsRegistered
<1>1. ASSUME TemplatesInv, NEW id \in Ids, Has(cache, id)
      PROVE  Found(cache, id) = latest[id]
  <2>1. Place(cache, id) \in 1..Len(cache) /\ cache[Place(cache, id)].id = id
    BY <1>1 DEF Has, Place, TemplatesInv, WellKept
  <2> QED
    BY <1>1, <2>1 DEF Found, TemplatesInv, WellKept
<1>2. ASSUME TemplatesInv, NEW id \in Ids, NEW data \in {"good", "bad"},
             id # Blank, Hit(cache, id)
      PROVE  /\ Rendered(id, data).result = "html" \/ Rendered(id, data).result = "TemplateError"
             /\ Rendered(id, data).result # "as it is"
             /\ Rendered(id, data).by = latest[id]
             /\ Rendered(id, data).result = "TemplateError" =>
                  \/ latest[id].source = "malformed" \/ data = "bad"
                  \/ engine = "mustache" /\ latest[id].kind = "typed"
  BY <1>1, <1>2 DEF Hit, Rendered, RenderThrows
<1>3. ASSUME TemplatesInv, NEW id \in Ids, NEW data \in {"good", "bad"},
             ~(id # Blank /\ Hit(cache, id))
      PROVE  /\ Rendered(id, data).result = "as it is"
             /\ \/ id = Blank \/ latest[id] = None
                \/ Younger(id) >= MaxCached \/ Falsy(latest[id])
  <2>1. Has(cache, id) => id = Blank \/ Falsy(latest[id])
    BY <1>1, <1>3 DEF Hit, Falsy
  <2>2. ~Has(cache, id) => latest[id] = None \/ Younger(id) >= MaxCached
    BY <1>3, YoungerIsFar
  <2>3. Rendered(id, data).result = "as it is"
    BY <1>3 DEF Rendered
  <2> QED
    BY <2>1, <2>2, <2>3 DEF Falsy
<1>4. TemplatesInv => RenderedAsRegistered
  BY <1>2, <1>3 DEF RenderedAsRegistered
<1> QED
  BY <1>4, TemplatesInvariant, PTL
-----------------------------------------------------------------------------
(* SDKBuilder, for any sections, fields, values, offers and SDKs. *)

(* LastSaid as a function of the calls. *)
About(said, s, f, n) ==
  {j \in 1..n : said[j].section = s /\ f \in DOMAIN said[j].overrides}

LastIn(places) == CHOOSE j \in places : \A i \in places : i <= j

LastOf(said, s, f, n) ==
  IF About(said, s, f, n) = {} THEN Default
  ELSE said[LastIn(About(said, s, f, n))].overrides[f]

LEMMA LastSaidIsLastOf ==
  ASSUME NEW CONSTANT s, NEW CONSTANT f, NEW STATE n
  PROVE  LastSaid(s, f, n) = LastOf(calls, s, f, n)
BY DEF LastSaid, LastOf, About, LastIn

(* A set of positions that is not empty has a last one. *)
LEMMA LastPlace ==
  ASSUME NEW n \in Nat, NEW S \in SUBSET (1..n), S # {}
  PROVE  LastIn(S) \in S /\ \A i \in S : i <= LastIn(S)
<1> DEFINE R == {ss \in Nat \X Nat : ss[1] < ss[2]}
           T == {n - j : j \in S}
<1>1. IsWellFoundedOn(R, Nat)
  BY NatLessThanWellFounded DEF OpToRel
<1>2. T \subseteq Nat /\ T # {}
  <2>1. \A j \in S : n - j \in Nat
    OBVIOUS
  <2> QED
    BY <2>1
<1>3. PICK x \in T : \A y \in T : ~(<<y, x>> \in R)
  <2> HIDE DEF R, T
  <2> QED
    BY <1>1, <1>2, WFMin
<1>4. PICK j \in S : x = n - j
  BY <1>3
<1>5. ASSUME NEW i \in S, ~(i <= j) PROVE FALSE
  <2>1. i \in 1..n /\ j \in 1..n
    OBVIOUS
  <2>2. n - i \in Nat /\ n - j \in Nat /\ n - i < n - j
    BY <2>1, <1>5
  <2>3. n - i \in T /\ <<n - i, x>> \in R
    BY <2>2, <1>4
  <2> QED
    BY <2>3, <1>3
<1>6. \E l \in S : \A i \in S : i <= l
  BY <1>5
<1> QED
  BY <1>6 DEF LastIn

(* A further call says the last of what it is about, and leaves the rest as *)
(* it was said.                                                             *)
LEMMA LastOfAppended ==
  ASSUME NEW S, NEW said \in Seq(S), NEW call \in S, NEW s, NEW f
  PROVE  LET more == Append(said, call)
             n == Len(said)
         IN  /\ \A m \in 0..n : LastOf(more, s, f, m) = LastOf(said, s, f, m)
             /\ LastOf(more, s, f, n + 1) =
                  IF call.section = s /\ f \in DOMAIN call.overrides THEN call.overrides[f]
                  ELSE LastOf(said, s, f, n)
<1> DEFINE more == Append(said, call)
           n == Len(said)
<1>1. /\ n \in Nat
      /\ \A j \in 1..n : more[j] = said[j]
      /\ more[n + 1] = call
  OBVIOUS
<1> HIDE DEF more, n
<1>2. ASSUME NEW m \in 0..n
      PROVE  About(more, s, f, m) = About(said, s, f, m)
  BY <1>1 DEF About
<1>3. ASSUME NEW m \in 0..n, About(said, s, f, m) # {}
      PROVE  more[LastIn(About(said, s, f, m))] = said[LastIn(About(said, s, f, m))]
  <2>1. About(said, s, f, m) \in SUBSET (1..m) /\ m \in Nat
    BY <1>1 DEF About
  <2>2. LastIn(About(said, s, f, m)) \in 1..m
    BY <1>3, <2>1, LastPlace
  <2> QED
    BY <1>1, <2>1, <2>2
<1>4. ASSUME NEW m \in 0..n
      PROVE  LastOf(more, s, f, m) = LastOf(said, s, f, m)
  BY <1>2, <1>3 DEF LastOf
<1>5. CASE call.section = s /\ f \in DOMAIN call.overrides
  <2> DEFINE A == About(more, s, f, n + 1)
  <2>1. A \in SUBSET (1..n + 1) /\ n + 1 \in A
    BY <1>1, <1>5 DEF About
  <2>2. LastIn(A) = n + 1
    <3> HIDE DEF A
    <3>0. n + 1 \in Nat /\ A # {}
      BY <1>1, <2>1
    <3>1. LastIn(A) \in A /\ \A i \in A : i <= LastIn(A)
      BY <2>1, <3>0, LastPlace
    <3>2. LastIn(A) \in 1..n + 1 /\ n + 1 <= LastIn(A)
      BY <2>1, <3>1
    <3> QED
      BY <1>1, <3>2
  <2>3. LastOf(more, s, f, n + 1) = more[LastIn(A)].overrides[f]
    BY <2>1 DEF LastOf
  <2>4. LastOf(more, s, f, n + 1) = call.overrides[f]
    BY <1>1, <2>2, <2>3
  <2> QED
    BY <1>4, <1>5, <2>4 DEF more, n
<1>6. CASE ~(call.section = s /\ f \in DOMAIN call.overrides)
  <2>1. About(more, s, f, n + 1) = About(more, s, f, n)
    BY <1>1, <1>6 DEF About
  <2>2. LastOf(more, s, f, n + 1) = LastOf(more, s, f, n)
    BY <2>1 DEF LastOf
  <2>3. LastOf(more, s, f, n) = LastOf(said, s, f, n)
    BY <1>1, <1>4
  <2> QED
    BY <1>4, <1>6, <2>2, <2>3 DEF more, n
<1> QED
  BY <1>5, <1>6

(* The newest object of a section and the settings are what was said last,  *)
NewestSaid ==
  /\ \A s \in Sections, f \in Fields : Newest(s)[f] = LastOf(calls, s, f, Len(calls))
  /\ \A s \in Settings : settings[s] = LastOf(calls, s, "value", Len(calls))

(* an SDK refers to objects there are, and was built before now,            *)
RefersWithin ==
  \A i \in DOMAIN sdks :
    /\ \A s \in ByReference : sdks[i].refers[s] <= Len(objects[s])
    /\ sdks[i].chain <= Len(providers)
    /\ sdks[i].after <= Len(calls)

(* it finds there what was said before,                                     *)
WorksAsSaid ==
  \A i \in DOMAIN sdks :
    /\ \A s \in Sections, f \in Fields :
         Reads(sdks[i], s)[f] = LastOf(calls, s, f, sdks[i].after)
    /\ \A s \in Settings : sdks[i].settings[s] = LastOf(calls, s, "value", sdks[i].after)

(* a guard was made for a provider of its name, and there is one for every  *)
(* provider the SDK was built with,                                         *)
GuardsBelong ==
  \A i \in DOMAIN sdks :
    /\ \A n \in DOMAIN sdks[i].guards :
         /\ sdks[i].guards[n] \in DOMAIN providers
         /\ providers[sdks[i].guards[n]].name = n
    /\ \A k \in DOMAIN providers :
         k <= sdks[i].chain => providers[k].name \in DOMAIN sdks[i].guards

(* and a mock still has to fail what it has not failed yet.                 *)
MocksCountDown ==
  \A k \in DOMAIN providers :
    providers[k].type = "mock" =>
      LET first == providers[k].options.failFirst
          n == providers[k].answered
      IN  /\ first \in Nat
          /\ providers[k].failRemaining = IF n < first THEN first - n ELSE 0
          /\ providers[k].failed = IF n < first THEN n ELSE first

BuilderInv ==
  /\ TypeOK
  /\ NewestSaid
  /\ RefersWithin
  /\ WorksAsSaid
  /\ GuardsBelong
  /\ SameEmailByAll
  /\ MocksCountDown

(* No class changes an email, but for the two exceptions. *)
LEMMA EachPassesOn ==
  ASSUME NEW type \in Types, type # "mock"
  PROVE  PassedOn[type]
<1>1. SUFFICES ASSUME NEW payload \in Payloads(People)
      PROVE  LET request == Requested(type, payload)
             IN  /\ \/ request.recipients = Everyone(payload)
                    \/ type = "ses" /\ payload.attached /\ request.recipients = payload.to
                 /\ request.html = "given" <=> payload.html = "given"
                 /\ request.text = "given" <=>
                      \/ payload.text = "given"
                      \/ type = "sendgrid" /\ payload.text = "undefined" /\ payload.html = "given"
  BY DEF PassedOn
<1>2. payload.html \in Bodies /\ payload.text \in Bodies /\ payload.attached \in BOOLEAN
  BY DEF Payloads
<1>3. CASE type = "smtp"
  BY <1>3 DEF Requested, SmtpRequest, Request
<1>4. CASE type = "sendgrid"
  <2>1. Requested(type, payload) = SendGridRequest(payload)
    BY <1>4 DEF Requested
  <2> QED
    BY <1>2, <1>4, <2>1 DEF SendGridRequest, Request, Bodies
<1>5. CASE type = "ses" /\ payload.attached
  <2>1. Requested(type, payload) = SesRawRequest(payload)
    BY <1>5 DEF Requested
  <2> QED
    BY <1>2, <1>5, <2>1 DEF SesRawRequest, Request, IfGiven, Bodies
<1>6. CASE type = "ses" /\ ~payload.attached
  <2>1. Requested(type, payload) = SesRequest(payload)
    BY <1>6 DEF Requested
  <2> QED
    BY <1>2, <1>6, <2>1 DEF SesRequest, Request, IfGiven, Bodies
<1> QED
  BY <1>2, <1>3, <1>4, <1>5, <1>6 DEF Types

(* What the fields of an SDK are. *)
LEMMA EachSDK ==
  ASSUME TypeOK, NEW i \in DOMAIN sdks
  PROVE  /\ sdks[i].refers \in [ByReference -> Nat \ {0}]
         /\ sdks[i].given \in [Sections \ ByReference -> Configurations]
         /\ sdks[i].chain \in Nat
         /\ sdks[i].after \in Nat
<1>1. sdks \in Seq(SDKs)
  BY DEF TypeOK
<1> HIDE DEF SDKs
<1>2. sdks[i] \in SDKs
  BY <1>1
<1> QED
  BY <1>2 DEF SDKs

(* A new builder has said nothing, and everything has its default. *)
LEMMA BuilderStarts == Init => BuilderInv
<1> SUFFICES ASSUME Init PROVE BuilderInv
  OBVIOUS
<1>0. Default \in Values
  BY BuilderAssumption
<1>1. TypeOK
  <2>1. <<[f \in Fields |-> Default]>> \in Seq(Configurations) \ {<<>>}
    BY <1>0 DEF Configurations
  <2>2. objects \in [Sections -> Seq(Configurations) \ {<<>>}]
    BY <2>1 DEF Init
  <2> QED
    BY <1>0, <2>2 DEF Init, TypeOK
<1>2. \A s, f : LastOf(calls, s, f, 0) = Default
  BY DEF LastOf, About
<1>3. NewestSaid
  <2>1. Len(calls) = 0
    BY DEF Init
  <2>2. \A s \in Sections : Newest(s) = [f \in Fields |-> Default]
    BY DEF Init, Newest
  <2> QED
    BY <1>2, <2>1, <2>2 DEF NewestSaid, Init
<1>4. DOMAIN sdks = {} /\ DOMAIN providers = {}
  BY DEF Init
<1> QED
  BY <1>1, <1>3, <1>4 DEF BuilderInv, RefersWithin, WorksAsSaid, GuardsBelong,
     SameEmailByAll, MocksCountDown

(* addMockProvider() and addProvider() *)
LEMMA AddProviderKeeps ==
  ASSUME BuilderInv, NEW offer \in Offers, AddProvider(offer)
  PROVE  BuilderInv'
<1> DEFINE p == Constructed(offer.type, offer.name, offer.options)
<1>0. /\ providers \in Seq(BuiltProviders) /\ sdks \in Seq(SDKs)
      /\ registry \in [DOMAIN registry -> DOMAIN providers]
      /\ providers' = Append(providers, p)
      /\ UNCHANGED <<objects, settings, sdks, calls>>
  BY DEF AddProvider, BuilderInv, TypeOK
<1>1. /\ offer.type \in Types
      /\ offer.type = "mock" => offer.options.failFirst \in Nat
  BY OffersAssumption
<1>2. p \in BuiltProviders
  <2>1. (IF offer.name = "undefined" THEN offer.type ELSE offer.name) \in ProviderNames
    BY <1>1 DEF ProviderNames
  <2>2. (IF offer.type = "mock" THEN offer.options.failFirst ELSE 0) \in Nat
    BY <1>1
  <2> QED
    BY <1>1, <2>1, <2>2 DEF Constructed, BuiltProviders
<1>3. /\ p.type = offer.type /\ p.options = offer.options
      /\ p.answered = 0 /\ p.failed = 0
      /\ p.type = "mock" => p.failRemaining = p.options.failFirst
  BY DEF Constructed
<1>4. apiKey' = IF p.type = "sendgrid" THEN p.options.key ELSE apiKey
  BY <1>3 DEF AddProvider, KeyAfter
<1>5. registry' = Registered(p.name, Len(providers'))
  BY DEF AddProvider
<1> HIDE DEF p
<1>6. /\ providers' \in Seq(BuiltProviders) /\ Len(providers') = Len(providers) + 1
      /\ DOMAIN providers = 1..Len(providers) /\ DOMAIN providers' = 1..Len(providers) + 1
      /\ Len(providers) \in Nat
      /\ \A k \in DOMAIN providers : providers'[k] = providers[k]
      /\ providers'[Len(providers) + 1] = p
  BY <1>0, <1>2
<1>7. TypeOK'
  <2>1. registry' \in [DOMAIN registry' -> DOMAIN providers']
    BY <1>0, <1>5, <1>6 DEF Registered
  <2> QED
    BY <1>0, <1>6, <2>1 DEF BuilderInv, TypeOK
<1>8. NewestSaid' /\ WorksAsSaid'
  BY <1>0 DEF BuilderInv, NewestSaid, Newest, WorksAsSaid, Reads
<1>9. RefersWithin'
  <2>1. \A i \in DOMAIN sdks : sdks[i].chain \in Nat
    BY EachSDK DEF BuilderInv
  <2>2. \A i \in DOMAIN sdks : sdks[i].chain <= Len(providers)
    BY DEF BuilderInv, RefersWithin
  <2>3. \A i \in DOMAIN sdks : sdks[i].chain <= Len(providers')
    BY <1>6, <2>1, <2>2
  <2> QED
    BY <1>0, <2>3 DEF BuilderInv, RefersWithin
<1>10. GuardsBelong'
  <2>1. \A i \in DOMAIN sdks : sdks[i].chain < Len(providers) + 1
    BY <1>6, EachSDK DEF BuilderInv, RefersWithin
  <2>2. ASSUME NEW i \in DOMAIN sdks, NEW n \in DOMAIN sdks[i].guards
        PROVE  /\ sdks[i].guards[n] \in DOMAIN providers'
               /\ providers'[sdks[i].guards[n]].name = n
    BY <1>6 DEF BuilderInv, GuardsBelong
  <2>3. ASSUME NEW i \in DOMAIN sdks, NEW k \in DOMAIN providers', k <= sdks[i].chain
        PROVE  providers'[k].name \in DOMAIN sdks[i].guards
    <3>1. k \in DOMAIN providers
      BY <1>6, <2>1, <2>3, EachSDK DEF BuilderInv
    <3> QED
      BY <1>6, <2>3, <3>1 DEF BuilderInv, GuardsBelong
  <2> QED
    BY <1>0, <2>2, <2>3 DEF GuardsBelong
<1>11. SameEmailByAll'
  <2>1. ASSUME NEW k \in DOMAIN providers', providers'[k].type # "mock"
        PROVE  PassedOn[providers'[k].type]
    <3>1. providers'[k].type \in Types
      <4> HIDE DEF BuiltProviders
      <4>1. providers'[k] \in BuiltProviders
        BY <1>6
      <4> QED
        BY <4>1 DEF BuiltProviders
    <3> QED
      BY <2>1, <3>1, EachPassesOn
  <2>2. ASSUME NEW k \in DOMAIN providers', providers'[k].type = "sendgrid"
        PROVE  \/ apiKey' = providers'[k].options.key
               \/ \E j \in k + 1..Len(providers') :
                    providers'[j].type = "sendgrid" /\ apiKey' = providers'[j].options.key
    <3>1. CASE k = Len(providers) + 1
      BY <1>4, <1>6, <2>2, <3>1
    <3>2. CASE k \in DOMAIN providers /\ p.type = "sendgrid"
      <4>1. Len(providers) + 1 \in k + 1..Len(providers')
        BY <1>6, <3>2
      <4> QED
        BY <1>4, <1>6, <3>2, <4>1
    <3>3. CASE k \in DOMAIN providers /\ p.type # "sendgrid"
      <4>1. \/ apiKey = providers[k].options.key
            \/ \E j \in k + 1..Len(providers) :
                 providers[j].type = "sendgrid" /\ apiKey = providers[j].options.key
        BY <1>6, <2>2, <3>3 DEF BuilderInv, SameEmailByAll
      <4>2. \A j \in k + 1..Len(providers) : j \in k + 1..Len(providers') /\ j \in DOMAIN providers
        BY <1>6, <3>3
      <4> QED
        BY <1>4, <1>6, <3>3, <4>1, <4>2
    <3> QED
      BY <1>6, <3>1, <3>2, <3>3
  <2> QED
    BY <2>1, <2>2 DEF SameEmailByAll, PassedOn
<1>12. MocksCountDown'
  <2>1. ASSUME NEW k \in DOMAIN providers', providers'[k].type = "mock"
        PROVE  LET first == providers'[k].options.failFirst
                   n == providers'[k].answered
               IN  /\ first \in Nat
                   /\ providers'[k].failRemaining = IF n < first THEN first - n ELSE 0
                   /\ providers'[k].failed = IF n < first THEN n ELSE first
    <3>1. CASE k \in DOMAIN providers
      BY <1>6, <2>1, <3>1 DEF BuilderInv, MocksCountDown
    <3>2. CASE k = Len(providers) + 1
      <4>1. p.options.failFirst \in Nat
        BY <1>1, <1>3, <1>6, <2>1, <3>2
      <4> QED
        BY <1>3, <1>6, <2>1, <3>2, <4>1
    <3> QED
      BY <1>6, <3>1, <3>2
  <2> QED
    BY <2>1 DEF MocksCountDown
<1> QED
  BY <1>7, <1>8, <1>9, <1>10, <1>11, <1>12 DEF BuilderInv

(* What is said of the providers stays true while they stay as they are. *)
LEMMA ProvidersKept ==
  ASSUME BuilderInv, UNCHANGED <<providers, apiKey, sdks>>
  PROVE  GuardsBelong' /\ SameEmailByAll' /\ MocksCountDown'
<1>1. GuardsBelong' /\ MocksCountDown'
  BY DEF BuilderInv, GuardsBelong, MocksCountDown
<1>2. SameEmailByAll'
  BY DEF BuilderInv, SameEmailByAll
<1> QED
  BY <1>1, <1>2

(* A further call leaves what an SDK has been given as it was said: it      *)
(* makes another object.                                                    *)
LEMMA SayKeeps ==
  ASSUME BuilderInv, NEW section \in Sections \cup Settings,
         NEW overrides \in Overrides \cup [{"value"} -> Values], Say(section, overrides)
  PROVE  /\ calls' \in Seq(Calls) /\ Len(calls') = Len(calls) + 1 /\ Len(calls) \in Nat
         /\ \A s, f : \A n \in 0..Len(calls) : LastOf(calls', s, f, n) = LastOf(calls, s, f, n)
         /\ \A s, f : LastOf(calls', s, f, Len(calls) + 1) =
              IF section = s /\ f \in DOMAIN overrides THEN overrides[f]
              ELSE LastOf(calls, s, f, Len(calls))
<1> DEFINE call == [section |-> section, overrides |-> overrides]
<1>1. calls \in Seq(Calls) /\ call \in Calls /\ calls' = Append(calls, call)
  BY DEF Say, BuilderInv, TypeOK, Calls
<1>2. call.section = section /\ call.overrides = overrides
  OBVIOUS
<1> HIDE DEF call
<1>3. ASSUME NEW s, NEW f
      PROVE  /\ \A n \in 0..Len(calls) : LastOf(calls', s, f, n) = LastOf(calls, s, f, n)
             /\ LastOf(calls', s, f, Len(calls) + 1) =
                  IF section = s /\ f \in DOMAIN overrides THEN overrides[f]
                  ELSE LastOf(calls, s, f, Len(calls))
  <2> HIDE DEF Calls
  <2>1. /\ \A m \in 0..Len(calls) : LastOf(Append(calls, call), s, f, m) = LastOf(calls, s, f, m)
        /\ LastOf(Append(calls, call), s, f, Len(calls) + 1) =
             IF call.section = s /\ f \in DOMAIN call.overrides THEN call.overrides[f]
             ELSE LastOf(calls, s, f, Len(calls))
    BY <1>1, LastOfAppended
  <2> QED
    BY <1>1, <1>2, <2>1
<1>4. calls' \in Seq(Calls) /\ Len(calls') = Len(calls) + 1 /\ Len(calls) \in Nat
  <2> HIDE DEF Calls
  <2> QED
    BY <1>1
<1> QED
  BY <1>3, <1>4

(* withRetry() and the like, with a new object *)
LEMMA WithKeeps ==
  ASSUME BuilderInv, NEW section \in Sections, NEW overrides \in Overrides,
         With(section, overrides)
  PROVE  BuilderInv'
<1> DEFINE merged == Merged(Newest(section), overrides)
<1>0. /\ objects \in [Sections -> Seq(Configurations) \ {<<>>}]
      /\ objects' = [objects EXCEPT ![section] = Append(@, merged)]
      /\ Say(section, overrides)
      /\ UNCHANGED <<settings, providers, registry, apiKey, sdks>>
  BY DEF BuilderInv, TypeOK, With, Say
<1>1. \A s \in Sections : /\ objects[s] \in Seq(Configurations)
                          /\ Len(objects[s]) \in Nat \ {0}
                          /\ DOMAIN objects[s] = 1..Len(objects[s])
  <2> HIDE DEF Configurations
  <2>1. \A s \in Sections : objects[s] \in Seq(Configurations) /\ objects[s] # <<>>
    BY <1>0
  <2> QED
    BY <2>1
<1>2. overrides \in [DOMAIN overrides -> Values] /\ DOMAIN overrides \subseteq Fields
  BY DEF Overrides
<1>3. merged \in Configurations
  <2>1. Newest(section) \in Configurations
    BY <1>1 DEF Newest
  <2> QED
    BY <1>2, <2>1 DEF Merged, Configurations
<1>4. \A f \in Fields :
        merged[f] = IF f \in DOMAIN overrides THEN overrides[f] ELSE Newest(section)[f]
  BY DEF Merged
<1> HIDE DEF merged, Configurations
<1>5. /\ objects'[section] \in Seq(Configurations) \ {<<>>}
      /\ Len(objects'[section]) = Len(objects[section]) + 1
      /\ objects'[section][Len(objects[section]) + 1] = merged
      /\ \A m \in 1..Len(objects[section]) : objects'[section][m] = objects[section][m]
  <2>1. objects'[section] = Append(objects[section], merged)
    BY <1>0
  <2> QED
    BY <1>1, <1>3, <2>1
<1>6. \A s \in Sections : s # section => objects'[s] = objects[s]
  BY <1>0
<1>7. /\ calls' \in Seq(Calls) /\ Len(calls') = Len(calls) + 1 /\ Len(calls) \in Nat
      /\ \A s, f : \A n \in 0..Len(calls) : LastOf(calls', s, f, n) = LastOf(calls, s, f, n)
      /\ \A s, f : LastOf(calls', s, f, Len(calls) + 1) =
           IF section = s /\ f \in DOMAIN overrides THEN overrides[f]
           ELSE LastOf(calls, s, f, Len(calls))
  BY <1>0, SayKeeps
<1>8. TypeOK'
  <2>1. objects' \in [Sections -> Seq(Configurations) \ {<<>>}]
    BY <1>0, <1>5
  <2> QED
    BY <1>0, <1>7, <2>1 DEF BuilderInv, TypeOK
<1>9. NewestSaid'
  <2>1. ASSUME NEW s \in Sections, NEW f \in Fields
        PROVE  Newest(s)'[f] = LastOf(calls', s, f, Len(calls) + 1)
    <3>1. Newest(s)[f] = LastOf(calls, s, f, Len(calls))
      BY DEF BuilderInv, NewestSaid
    <3>2. Newest(s)' = IF s = section THEN merged ELSE Newest(s)
      BY <1>5, <1>6 DEF Newest
    <3> QED
      BY <1>4, <1>7, <3>1, <3>2
  <2>2. ASSUME NEW s \in Settings
        PROVE  settings'[s] = LastOf(calls', s, "value", Len(calls) + 1)
    <3>1. s # section
      BY BuilderAssumption
    <3> QED
      BY <1>0, <1>7, <3>1 DEF BuilderInv, NewestSaid
  <2> QED
    BY <1>7, <2>1, <2>2 DEF NewestSaid
<1>10. RefersWithin' /\ WorksAsSaid'
  <2>1. ASSUME NEW i \in DOMAIN sdks
        PROVE  /\ \A s \in ByReference :
                    /\ sdks[i].refers[s] \in 1..Len(objects[s])
                    /\ sdks[i].refers[s] <= Len(objects'[s])
                    /\ objects'[s][sdks[i].refers[s]] = objects[s][sdks[i].refers[s]]
               /\ sdks[i].after \in 0..Len(calls)
    <3>1. /\ \A s \in ByReference : sdks[i].refers[s] \in Nat \ {0}
          /\ sdks[i].after \in Nat
      BY EachSDK DEF BuilderInv
    <3>2. /\ \A s \in ByReference : sdks[i].refers[s] <= Len(objects[s])
          /\ sdks[i].after <= Len(calls)
      BY DEF BuilderInv, RefersWithin
    <3>3. \A s \in ByReference : s \in Sections
      BY BuilderAssumption
    <3>4. \A s \in ByReference : sdks[i].refers[s] \in 1..Len(objects[s])
      BY <1>1, <3>1, <3>2, <3>3
    <3>5. ASSUME NEW s \in ByReference
          PROVE  /\ sdks[i].refers[s] <= Len(objects'[s])
                 /\ objects'[s][sdks[i].refers[s]] = objects[s][sdks[i].refers[s]]
      <4> DEFINE k == sdks[i].refers[s]
      <4>1. s \in Sections /\ k \in 1..Len(objects[s]) /\ k \in Nat
        BY <3>1, <3>3, <3>4
      <4> HIDE DEF k
      <4> SUFFICES k <= Len(objects'[s]) /\ objects'[s][k] = objects[s][k]
        BY DEF k
      <4> QED
        BY <1>1, <1>5, <1>6, <4>1
    <3>6. sdks[i].after \in 0..Len(calls)
      BY <1>7, <3>1, <3>2
    <3> QED
      BY <3>4, <3>5, <3>6
  <2>2. RefersWithin'
    BY <1>0, <1>7, <2>1 DEF BuilderInv, RefersWithin
  <2>3. ASSUME NEW i \in DOMAIN sdks, NEW s \in Sections, NEW f \in Fields
        PROVE  Reads(sdks[i], s)'[f] = LastOf(calls', s, f, sdks[i].after)
    <3>1. Reads(sdks[i], s)' = Reads(sdks[i], s)
      BY <1>0, <2>1 DEF Reads
    <3> QED
      BY <1>7, <2>1, <3>1 DEF BuilderInv, WorksAsSaid
  <2>4. ASSUME NEW i \in DOMAIN sdks, NEW s \in Settings
        PROVE  sdks[i].settings[s] = LastOf(calls', s, "value", sdks[i].after)
    BY <1>7, <2>1 DEF BuilderInv, WorksAsSaid
  <2> QED
    BY <1>0, <2>2, <2>3, <2>4 DEF WorksAsSaid
<1>11. GuardsBelong' /\ SameEmailByAll' /\ MocksCountDown'
  BY <1>0, ProvidersKept
<1> QED
  BY <1>8, <1>9, <1>10, <1>11 DEF BuilderInv

(* withTemplateEngine() and withDLQ() *)
LEMMA SetKeeps ==
  ASSUME BuilderInv, NEW setting \in Settings, NEW value \in Values, Set(setting, value)
  PROVE  BuilderInv'
<1> DEFINE said == [f \in {"value"} |-> value]
<1>0. /\ settings' = [settings EXCEPT ![setting] = value]
      /\ Say(setting, said)
      /\ UNCHANGED <<objects, providers, registry, apiKey, sdks>>
      /\ settings \in [Settings -> Values]
  BY DEF BuilderInv, TypeOK, Set, Say
<1>1. said \in [{"value"} -> Values] /\ DOMAIN said = {"value"} /\ said["value"] = value
  OBVIOUS
<1> HIDE DEF said
<1>2. /\ calls' \in Seq(Calls) /\ Len(calls') = Len(calls) + 1 /\ Len(calls) \in Nat
      /\ \A s, f : \A n \in 0..Len(calls) : LastOf(calls', s, f, n) = LastOf(calls, s, f, n)
      /\ \A s, f : LastOf(calls', s, f, Len(calls) + 1) =
           IF setting = s /\ f \in DOMAIN said THEN said[f] ELSE LastOf(calls, s, f, Len(calls))
  BY <1>0, <1>1, SayKeeps
<1>3. TypeOK'
  <2>1. settings' \in [Settings -> Values]
    BY <1>0
  <2> QED
    BY <1>0, <1>2, <2>1 DEF BuilderInv, TypeOK
<1>4. NewestSaid'
  <2>1. ASSUME NEW s \in Sections, NEW f \in Fields
        PROVE  Newest(s)'[f] = LastOf(calls', s, f, Len(calls) + 1)
    <3>1. s # setting
      BY BuilderAssumption
    <3> QED
      BY <1>0, <1>2, <3>1 DEF BuilderInv, NewestSaid, Newest
  <2>2. ASSUME NEW s \in Settings
        PROVE  settings'[s] = LastOf(calls', s, "value", Len(calls) + 1)
    BY <1>0, <1>1, <1>2 DEF BuilderInv, NewestSaid
  <2> QED
    BY <1>2, <2>1, <2>2 DEF NewestSaid
<1>5. RefersWithin' /\ WorksAsSaid'
  <2>1. \A i \in DOMAIN sdks : sdks[i].after \in 0..Len(calls) /\ sdks[i].after <= Len(calls')
    BY <1>2, EachSDK DEF BuilderInv, RefersWithin
  <2>2. RefersWithin'
    BY <1>0, <2>1 DEF BuilderInv, RefersWithin
  <2>3. ASSUME NEW i \in DOMAIN sdks, NEW s \in Sections, NEW f \in Fields
        PROVE  Reads(sdks[i], s)'[f] = LastOf(calls', s, f, sdks[i].after)
    BY <1>0, <1>2, <2>1 DEF Reads, BuilderInv, WorksAsSaid
  <2>4. ASSUME NEW i \in DOMAIN sdks, NEW s \in Settings
        PROVE  sdks[i].settings[s] = LastOf(calls', s, "value", sdks[i].after)
    BY <1>2, <2>1 DEF BuilderInv, WorksAsSaid
  <2> QED
    BY <1>0, <2>2, <2>3, <2>4 DEF WorksAsSaid
<1>6. GuardsBelong' /\ SameEmailByAll' /\ MocksCountDown'
  BY <1>0, ProvidersKept
<1> QED
  BY <1>3, <1>4, <1>5, <1>6 DEF BuilderInv

(* A guard is that of the last provider of its name. *)
LEMMA GuardsMade ==
  ASSUME Len(providers) \in Nat, DOMAIN providers = 1..Len(providers)
  PROVE  /\ Guards(providers) \in [Names(providers) -> Nat \ {0}]
         /\ \A n \in Names(providers) :
              /\ Guards(providers)[n] \in DOMAIN providers
              /\ providers[Guards(providers)[n]].name = n
<1>1. ASSUME NEW n \in Names(providers)
      PROVE  /\ Guards(providers)[n] \in DOMAIN providers
             /\ providers[Guards(providers)[n]].name = n
  <2> DEFINE S == {k \in DOMAIN providers : providers[k].name = n}
  <2>1. S \in SUBSET (1..Len(providers)) /\ S # {}
    BY DEF Names
  <2>2. LastIn(S) \in S /\ \A j \in S : j <= LastIn(S)
    <3> HIDE DEF S
    <3> QED
      BY <2>1, LastPlace
  <2>3. \E k \in DOMAIN providers :
          /\ providers[k].name = n
          /\ \A j \in DOMAIN providers : providers[j].name = n => j <= k
    BY <2>2
  <2>4. Guards(providers)[n] =
          CHOOSE k \in DOMAIN providers :
            /\ providers[k].name = n
            /\ \A j \in DOMAIN providers : providers[j].name = n => j <= k
    BY DEF Guards
  <2> QED
    BY <2>3, <2>4, Zenon
<1>2. \A n \in Names(providers) : Guards(providers)[n] \in Nat \ {0}
  BY <1>1
<1>3. Guards(providers) \in [Names(providers) -> Nat \ {0}]
  <2> DEFINE last(n) == CHOOSE k \in DOMAIN providers :
                          /\ providers[k].name = n
                          /\ \A j \in DOMAIN providers : providers[j].name = n => j <= k
  <2>1. Guards(providers) = [n \in Names(providers) |-> last(n)]
    BY DEF Guards
  <2> HIDE DEF last
  <2> QED
    BY <1>2, <2>1
<1> QED
  BY <1>1, <1>3

(* build(): the new SDK refers to the newest objects. *)
LEMMA BuildKeeps == ASSUME BuilderInv, Build PROVE BuilderInv'
<1> DEFINE sdk == NewSDK(Guards(providers))
<1>0. /\ sdks \in Seq(SDKs) /\ sdks' = Append(sdks, sdk)
      /\ UNCHANGED <<objects, settings, providers, registry, apiKey, calls>>
      /\ objects \in [Sections -> Seq(Configurations) \ {<<>>}]
      /\ settings \in [Settings -> Values]
      /\ providers \in Seq(BuiltProviders) /\ calls \in Seq(Calls)
  BY DEF Build, BuilderInv, TypeOK
<1>1. /\ Len(providers) \in Nat /\ DOMAIN providers = 1..Len(providers)
      /\ Len(calls) \in Nat
  <2> HIDE DEF BuiltProviders, Calls
  <2> QED
    BY <1>0
<1>2. /\ sdk.refers = [s \in ByReference |-> Len(objects[s])]
      /\ sdk.given = [s \in Sections \ ByReference |-> Newest(s)]
      /\ sdk.settings = settings
      /\ sdk.guards = Guards(providers)
      /\ sdk.chain = Len(providers) /\ sdk.after = Len(calls)
  BY DEF NewSDK
<1>3. \A s \in Sections : Len(objects[s]) \in Nat \ {0} /\ Newest(s) \in Configurations
  <2> HIDE DEF Configurations
  <2>1. \A s \in Sections : objects[s] \in Seq(Configurations) /\ objects[s] # <<>>
    BY <1>0
  <2> QED
    BY <2>1 DEF Newest
<1>4. sdk \in SDKs
  <2>1. Guards(providers) \in UNION {[S -> Nat \ {0}] : S \in SUBSET ProviderNames}
    <3>1. \A k \in DOMAIN providers : providers[k] \in BuiltProviders
      <4> HIDE DEF BuiltProviders
      <4> QED
        BY <1>0
    <3>2. Names(providers) \in SUBSET ProviderNames
      BY <3>1 DEF Names, BuiltProviders
    <3>3. Guards(providers) \in [Names(providers) -> Nat \ {0}]
      BY <1>1, GuardsMade
    <3> QED
      BY <3>2, <3>3
  <2>2. sdk.refers \in [ByReference -> Nat \ {0}]
    BY <1>2, <1>3, BuilderAssumption
  <2>3. sdk.given \in [Sections \ ByReference -> Configurations]
    BY <1>2, <1>3
  <2> QED
    BY <1>0, <1>1, <2>1, <2>2, <2>3 DEF NewSDK, SDKs
<1> HIDE DEF sdk
<1>5. /\ sdks' \in Seq(SDKs) /\ Len(sdks) \in Nat
      /\ DOMAIN sdks = 1..Len(sdks) /\ DOMAIN sdks' = 1..Len(sdks) + 1
      /\ \A i \in DOMAIN sdks : sdks'[i] = sdks[i]
      /\ sdks'[Len(sdks) + 1] = sdk
  <2> HIDE DEF SDKs
  <2> QED
    BY <1>0, <1>4
<1>6. TypeOK' /\ NewestSaid'
  BY <1>0, <1>5 DEF BuilderInv, TypeOK, NewestSaid, Newest
<1>7. RefersWithin'
  <2>1. \A s \in ByReference : s \in Sections
    BY BuilderAssumption
  <2>2. \A s \in ByReference : sdk.refers[s] <= Len(objects[s])
    BY <1>2, <1>3, <2>1
  <2> QED
    BY <1>0, <1>1, <1>2, <1>5, <2>2 DEF BuilderInv, RefersWithin
<1>8. WorksAsSaid'
  <2>1. ASSUME NEW s \in Sections, NEW f \in Fields
        PROVE  Reads(sdk, s)[f] = LastOf(calls, s, f, sdk.after)
    <3>1. Reads(sdk, s) = Newest(s)
      BY <1>2, <1>3 DEF Reads, Newest
    <3> QED
      BY <1>2, <3>1 DEF BuilderInv, NewestSaid
  <2>2. ASSUME NEW s \in Settings
        PROVE  sdk.settings[s] = LastOf(calls, s, "value", sdk.after)
    BY <1>2 DEF BuilderInv, NewestSaid
  <2>3. ASSUME NEW i \in DOMAIN sdks'
        PROVE  /\ \A s \in Sections, f \in Fields :
                    Reads(sdks'[i], s)[f] = LastOf(calls, s, f, sdks'[i].after)
               /\ \A s \in Settings : sdks'[i].settings[s] = LastOf(calls, s, "value", sdks'[i].after)
    <3>1. CASE i \in DOMAIN sdks
      BY <1>5, <3>1 DEF BuilderInv, WorksAsSaid
    <3>2. CASE i = Len(sdks) + 1
      BY <1>5, <2>1, <2>2, <3>2
    <3> QED
      BY <1>5, <3>1, <3>2
  <2> QED
    BY <1>0, <2>3 DEF WorksAsSaid, Reads
<1>9. GuardsBelong'
  <2>1. ASSUME NEW i \in DOMAIN sdks'
        PROVE  /\ \A n \in DOMAIN sdks'[i].guards :
                    /\ sdks'[i].guards[n] \in DOMAIN providers
                    /\ providers[sdks'[i].guards[n]].name = n
               /\ \A k \in DOMAIN providers :
                    k <= sdks'[i].chain => providers[k].name \in DOMAIN sdks'[i].guards
    <3>1. CASE i \in DOMAIN sdks
      BY <1>5, <3>1 DEF BuilderInv, GuardsBelong
    <3>2. CASE i = Len(sdks) + 1
      <4>1. sdks'[i].guards = Guards(providers)
        BY <1>2, <1>5, <3>2
      <4>2. DOMAIN Guards(providers) = Names(providers)
        BY DEF Guards
      <4>3. \A k \in DOMAIN providers : providers[k].name \in Names(providers)
        BY DEF Names
      <4> QED
        BY <1>1, <4>1, <4>2, <4>3, GuardsMade
    <3> QED
      BY <1>5, <3>1, <3>2
  <2> QED
    BY <1>0, <2>1 DEF GuardsBelong
<1>10. SameEmailByAll' /\ MocksCountDown'
  <2>1. SameEmailByAll'
    BY <1>0 DEF BuilderInv, SameEmailByAll
  <2>2. MocksCountDown'
    BY <1>0 DEF BuilderInv, MocksCountDown
  <2> QED
    BY <2>1, <2>2
<1> QED
  BY <1>6, <1>7, <1>8, <1>9, <1>10 DEF BuilderInv

(* A mock that falls asleep or wakes up keeps its name, type and options,   *)
(* and counts what it has answered, failed and still has to fail.           *)
LEMMA MockKeeps ==
  ASSUME BuilderInv, NEW k \in DOMAIN providers, NEW p,
         p = Asleep(providers[k]) \/ (p = Awake(providers[k]) /\ providers[k].sleeping > 0),
         providers' = [providers EXCEPT ![k] = p],
         UNCHANGED <<objects, settings, registry, apiKey, sdks, calls>>
  PROVE  BuilderInv'
<1> DEFINE q == providers[k]
<1>0. providers \in Seq(BuiltProviders)
  BY DEF BuilderInv, TypeOK
<1>1. q \in BuiltProviders
  <2> HIDE DEF BuiltProviders
  <2> QED
    BY <1>0
<1>2. /\ q.failRemaining \in Nat /\ q.sleeping \in Nat /\ q.answered \in Nat /\ q.failed \in Nat
      /\ q.type = "mock" =>
           /\ q.options.failFirst \in Nat
           /\ q.failRemaining = IF q.answered < q.options.failFirst
                                THEN q.options.failFirst - q.answered ELSE 0
           /\ q.failed = IF q.answered < q.options.failFirst
                         THEN q.answered ELSE q.options.failFirst
  BY <1>1 DEF BuiltProviders, BuilderInv, MocksCountDown
<1>3. /\ p \in BuiltProviders
      /\ p.type = q.type /\ p.name = q.name /\ p.options = q.options
  <2>1. CASE p = Asleep(q)
    BY <1>1, <2>1 DEF Asleep, BuiltProviders
  <2>2. CASE p = Awake(q) /\ q.sleeping > 0
    <3>1. /\ q.sleeping - 1 \in Nat /\ q.answered + 1 \in Nat
          /\ (IF q.failRemaining > 0 THEN q.failed + 1 ELSE q.failed) \in Nat
          /\ (IF q.failRemaining > 0 THEN q.failRemaining - 1 ELSE q.failRemaining) \in Nat
      BY <1>2, <2>2
    <3> HIDE DEF q
    <3> QED
      BY <1>1, <2>2, <3>1 DEF Awake, BuiltProviders
  <2> QED
    BY <2>1, <2>2
<1>4. ASSUME p.type = "mock"
      PROVE  LET first == p.options.failFirst
                 n == p.answered
             IN  /\ first \in Nat
                 /\ p.failRemaining = IF n < first THEN first - n ELSE 0
                 /\ p.failed = IF n < first THEN n ELSE first
  <2>1. CASE p = Asleep(q)
    <3>1. p.answered = q.answered /\ p.failed = q.failed /\ p.failRemaining = q.failRemaining
      BY <1>1, <2>1 DEF Asleep, BuiltProviders
    <3> QED
      BY <1>2, <1>3, <1>4, <3>1
  <2>2. CASE p = Awake(q)
    <3>1. /\ p.answered = q.answered + 1
          /\ p.failed = IF q.failRemaining > 0 THEN q.failed + 1 ELSE q.failed
          /\ p.failRemaining = IF q.failRemaining > 0 THEN q.failRemaining - 1 ELSE q.failRemaining
      BY <1>1, <2>2 DEF Awake, BuiltProviders
    <3> HIDE DEF q
    <3> QED
      BY <1>2, <1>3, <1>4, <3>1
  <2> QED
    BY <2>1, <2>2
<1>5. /\ providers' \in Seq(BuiltProviders)
      /\ Len(providers') = Len(providers) /\ DOMAIN providers' = DOMAIN providers
      /\ providers'[k] = p
      /\ \A j \in DOMAIN providers : j # k => providers'[j] = providers[j]
  <2> HIDE DEF BuiltProviders
  <2> QED
    BY <1>0, <1>3
<1>6. \A j \in DOMAIN providers : /\ providers'[j].type = providers[j].type
                                  /\ providers'[j].name = providers[j].name
                                  /\ providers'[j].options = providers[j].options
  BY <1>3, <1>5
<1>7. TypeOK' /\ NewestSaid' /\ RefersWithin' /\ WorksAsSaid'
  BY <1>5 DEF BuilderInv, TypeOK, NewestSaid, Newest, RefersWithin, WorksAsSaid, Reads
<1>8. GuardsBelong'
  BY <1>5, <1>6 DEF BuilderInv, GuardsBelong
<1>9. SameEmailByAll'
  <2>1. \A i \in DOMAIN providers : \A j \in i + 1..Len(providers) : j \in DOMAIN providers
    <3> HIDE DEF BuiltProviders
    <3> QED
      BY <1>0
  <2> QED
    BY <1>5, <1>6, <2>1 DEF BuilderInv, SameEmailByAll
<1>10. MocksCountDown'
  BY <1>4, <1>5 DEF BuilderInv, MocksCountDown
<1> QED
  BY <1>7, <1>8, <1>9, <1>10 DEF BuilderInv

(* The strengthened invariant holds after every call on the builder and     *)
(* while the mocks of its SDKs are sending.                                 *)
THEOREM BuilderInvariant == Spec => []BuilderInv
<1>1. ASSUME BuilderInv, [Next]_vars PROVE BuilderInv'
  <2>1. ASSUME NEW offer \in Offers, AddProvider(offer) PROVE BuilderInv'
    BY <1>1, <2>1, AddProviderKeeps
  <2>2. ASSUME NEW s \in Sections, NEW o \in Overrides, With(s, o) PROVE BuilderInv'
    BY <1>1, <2>2, WithKeeps
  <2>3. ASSUME NEW s \in Settings, NEW v \in Values, Set(s, v) PROVE BuilderInv'
    BY <1>1, <2>3, SetKeeps
  <2>4. CASE Build
    BY <1>1, <2>4, BuildKeeps
  <2>5. ASSUME NEW k \in DOMAIN providers, StartSend(k) PROVE BuilderInv'
    BY <1>1, <2>5, MockKeeps DEF StartSend
  <2>6. ASSUME NEW k \in DOMAIN providers, EndSend(k) PROVE BuilderInv'
    BY <1>1, <2>6, MockKeeps DEF EndSend
  <2>7. CASE UNCHANGED vars
    <3>1. TypeOK' /\ NewestSaid' /\ RefersWithin' /\ WorksAsSaid'
      BY <1>1, <2>7 DEF vars, BuilderInv, TypeOK, NewestSaid, Newest, RefersWithin,
         WorksAsSaid, Reads
    <3> QED
      BY <1>1, <2>7, <3>1, ProvidersKept DEF vars, BuilderInv
  <2> QED
    BY <1>1, <2>1, <2>2, <2>3, <2>4, <2>5, <2>6, <2>7 DEF Next
<1> QED
  BY <1>1, BuilderStarts, PTL DEF Spec

(* The builder and its SDKs stay in their domains, and the registry stands  *)
(* for providers there are.                                                 *)
THEOREM BuilderTypeCorrect == Spec => []TypeOK
<1>1. BuilderInv => TypeOK
  BY DEF BuilderInv
<1> QED
  BY <1>1, BuilderInvariant, PTL

(* An SDK works with what the builder was told before build(), whatever the *)
(* builder is told later: no object an SDK refers to is changed.            *)
THEOREM SDKsWorkAsSaid == Spec => []ConfiguredAsSaid
<1>1. ASSUME BuilderInv PROVE ConfiguredAsSaid
  <2>1. \A s, f, n : LastSaid(s, f, n) = LastOf(calls, s, f, n)
    BY DEF LastSaid, LastOf, About, LastIn
  <2> QED
    BY <1>1, <2>1 DEF BuilderInv, WorksAsSaid, ConfiguredAsSaid
<1> QED
  BY <1>1, BuilderInvariant, PTL

(* Every provider an SDK was built with has a breaker and a limiter, which  *)
(* it shares with those of its name and with no other.                      *)
THEOREM GuardsGoByName == Spec => []GuardedByName
<1>1. ASSUME BuilderInv PROVE GuardedByName
  <2>1. SUFFICES ASSUME NEW i \in DOMAIN sdks, NEW j \in DOMAIN providers,
                        NEW k \in DOMAIN providers
        PROVE  /\ k <= sdks[i].chain => Guard(sdks[i], k) # 0
               /\ Guard(sdks[i], k) # 0 =>
                    (Guard(sdks[i], j) = Guard(sdks[i], k) <=>
                       providers[j].name = providers[k].name)
    BY DEF GuardedByName
  <2>2. DOMAIN providers \subseteq Nat \ {0}
    <3>1. providers \in Seq(BuiltProviders)
      BY <1>1 DEF BuilderInv, TypeOK
    <3> HIDE DEF BuiltProviders
    <3> QED
      BY <3>1
  <2>3. /\ \A n \in DOMAIN sdks[i].guards :
             /\ sdks[i].guards[n] # 0
             /\ providers[sdks[i].guards[n]].name = n
        /\ k <= sdks[i].chain => providers[k].name \in DOMAIN sdks[i].guards
    BY <1>1, <2>2 DEF BuilderInv, GuardsBelong
  <2> QED
    BY <2>3 DEF Guard
<1> QED
  BY <1>1, BuilderInvariant, PTL

(* Falling back changes neither the recipients nor the bodies of an email,  *)
(* and its SendGrid account only when a later one is there.                 *)
THEOREM ProvidersSendTheSame == Spec => []SameEmailByAll
<1>1. BuilderInv => SameEmailByAll
  BY DEF BuilderInv
<1> QED
  BY <1>1, BuilderInvariant, PTL

(* A mock fails the first failFirst emails it answers and no other, however *)
(* many are on their way at once.                                           *)
THEOREM MocksFailTheFirst == Spec => []MocksFailFirst
<1>1. BuilderInv => MocksFailFirst
  BY DEF BuilderInv, MocksCountDown, MocksFailFirst
<1> QED
  BY <1>1, BuilderInvariant, PTL
=============================================================================
