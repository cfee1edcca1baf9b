------------------------- MODULE DeadLettersProofs -------------------------
(***************************************************************************)
(* Proofs about DeadLetters, for any jobs: what is durable, and what the   *)
(* file never loses to a job that JSON cannot represent.                   *)
(***************************************************************************)
EXTENDS DeadLetters, FiniteSetTheorems, TLAPS

Safe == TypeOK /\ CrashSafe

OnDisk == [id : Ids, body : {"text", "object"}]

LEMMA StoredType ==
  ASSUME NEW s \in Seq(Letters), Serialisable(s)
  PROVE  Stored(s) \in Seq(OnDisk)
<1>1. ASSUME NEW i \in 1..Len(s)
      PROVE  AsStored(s[i]) \in OnDisk
  <2>1. s[i] \in Letters /\ s[i].body # "unserialisable"
    BY DEF Serialisable
  <2> QED
    BY <2>1 DEF AsStored, OnDisk, Letters, Bodies
<1> QED
  BY <1>1 DEF Stored

(* What comes from the file is stored as it is. *)
LEMMA StoredAgain ==
  ASSUME NEW s \in Seq(OnDisk)
  PROVE  Stored(s) = s /\ s \in Seq(Letters)
<1>1. ASSUME NEW i \in 1..Len(s)
      PROVE  AsStored(s[i]) = s[i] /\ s[i] \in Letters
  <2>1. s[i] \in OnDisk
    OBVIOUS
  <2>2. s[i].body # "buffer"
    BY <2>1 DEF OnDisk
  <2>3. AsStored(s[i]) = [s[i] EXCEPT !.body = s[i].body]
    BY <2>2 DEF AsStored
  <2> QED
    BY <2>1, <2>3 DEF OnDisk, Letters, Bodies
<1> QED
  BY <1>1 DEF Stored

LEMMA InitInv == Init => Safe
<1> SUFFICES ASSUME Init PROVE Safe
  OBVIOUS
<1>1. <<>> \in Seq(Letters) /\ <<>> \in Seq(OnDisk)
  OBVIOUS
<1>2. TypeOK
  BY <1>1 DEF Init, TypeOK, NoFile, OnDisk
<1>3. Stored(returned) = <<>>
  BY DEF Init, Stored
<1> QED
  BY <1>2, <1>3 DEF Init, Safe, CrashSafe, Loaded, NoFile

(* A step that leaves the file as it is, and what it is compared with. *)
LEMMA SameFile ==
  ASSUME CrashSafe, UNCHANGED <<persist, file, failed, returned>>,
         step' # "writing" /\ ~cut' => step # "writing" /\ ~cut
  PROVE  CrashSafe'
BY DEF CrashSafe, Loaded, Stored, Serialisable

(* A change of the queue; if it is persistent, the call has not returned. *)
LEMMA ChangeInv ==
  ASSUME Safe, NEW s \in Seq(Letters), Change(s), adds' \in [Ids -> Nat]
  PROVE  Safe'
<1>1. TypeOK'
  BY DEF Safe, TypeOK, Change
<1>2. CASE persist
  BY <1>1, <1>2, SameFile DEF Safe, Change
<1>3. CASE ~persist
  BY <1>1, <1>3 DEF Safe, CrashSafe, Change
<1> QED
  BY <1>2, <1>3

LEMMA CallInv ==
  ASSUME Safe,
         \/ \E id \in Ids, body \in Bodies : Add(id, body)
         \/ \E id \in Ids : RemoveJob(id)
         \/ Clear
  PROVE  Safe'
<1>1. ASSUME NEW id \in Ids, NEW body \in Bodies, Add(id, body)
      PROVE  Safe'
  <2>1. Append(jobs, [id |-> id, body |-> body]) \in Seq(Letters)
    BY DEF Safe, TypeOK, Letters
  <2>2. adds' \in [Ids -> Nat]
    BY <1>1 DEF Safe, TypeOK, Add
  <2> QED
    BY <1>1, <2>1, <2>2, ChangeInv DEF Add
<1>2. ASSUME NEW id \in Ids, RemoveJob(id)
      PROVE  Safe'
  <2>1. PICK i \in 1..Len(jobs) : Change(RemoveAt(jobs, i))
    BY <1>2 DEF RemoveJob, Safe, TypeOK
  <2>2. RemoveAt(jobs, i) \in Seq(Letters)
    BY <2>1 DEF RemoveAt, Safe, TypeOK
  <2> QED
    BY <1>2, <2>1, <2>2, ChangeInv DEF RemoveJob, Safe, TypeOK
<1>3. CASE Clear
  <2>1. <<>> \in Seq(Letters)
    OBVIOUS
  <2> QED
    BY <1>3, <2>1, ChangeInv DEF Clear, Safe, TypeOK
<1> QED
  BY <1>1, <1>2, <1>3

LEMMA FlushInv ==
  ASSUME Safe, StringifyThrows \/ OpenFails \/ Truncate \/ Write \/ WriteFails
  PROVE  Safe'
<1> USE DEF Safe
<1>1. CASE StringifyThrows
  <2>1. TypeOK'
    BY <1>1 DEF TypeOK, StringifyThrows, Returns
  <2>2. returned' = jobs /\ ~Serialisable(jobs)
    BY <1>1 DEF StringifyThrows, Returns
  <2> QED
    BY <2>1, <2>2 DEF CrashSafe, Serialisable
<1>2. CASE OpenFails
  BY <1>2 DEF TypeOK, CrashSafe, OpenFails, Returns
<1>3. CASE Truncate
  BY <1>3 DEF TypeOK, CrashSafe, Truncate, TornFile
<1>4. CASE Write
  <2>1. Stored(jobs) \in Seq(OnDisk)
    BY <1>4, StoredType DEF TypeOK, Write
  <2>2. file' = [is |-> "whole", letters |-> Stored(jobs)] /\ returned' = jobs
    BY <1>4 DEF Write, Returns
  <2>3. file' \in [is : {"absent", "torn", "whole"}, letters : Seq(OnDisk)]
    BY <2>1, <2>2
  <2>4. TypeOK'
    BY <1>4, <2>3 DEF TypeOK, Write, Returns, OnDisk
  <2>5. Loaded(file)' = Stored(jobs) /\ Stored(returned)' = Stored(jobs)
    BY <2>2 DEF Loaded, Stored
  <2> QED
    BY <2>4, <2>5 DEF CrashSafe
<1>5. CASE WriteFails
  BY <1>5 DEF TypeOK, CrashSafe, WriteFails, Returns
<1> QED
  BY <1>1, <1>2, <1>3, <1>4, <1>5

LEMMA RestartInv ==
  ASSUME Safe, Crash \/ Restart
  PROVE  Safe'
<1> USE DEF Safe
<1>1. CASE Crash
  <2>1. <<>> \in Seq(Letters)
    OBVIOUS
  <2>2. TypeOK'
    BY <1>1, <2>1 DEF TypeOK, Crash
  <2>3. CASE step = "writing"
    BY <1>1, <2>2, <2>3 DEF CrashSafe, Crash
  <2>4. CASE step # "writing"
    <3>1. ~cut
      BY <1>1 DEF TypeOK, Crash
    <3> QED
      BY <1>1, <2>2, <2>4, <3>1, SameFile DEF Crash
  <2> QED
    BY <2>3, <2>4
<1>2. CASE Restart
  <2>1. Loaded(file) \in Seq(OnDisk) /\ <<>> \in Seq(OnDisk)
    BY DEF TypeOK, Loaded, OnDisk
  <2>2. /\ jobs' \in Seq(Letters) /\ returned' = jobs'
        /\ persist => Stored(returned') = Loaded(file)
    BY <1>2, <2>1, StoredAgain DEF Restart, Returns
  <2>3. TypeOK'
    BY <1>2, <2>2 DEF TypeOK, Restart, Returns
  <2>4. CrashSafe'
    <3>1. Stored(returned)' = Stored(returned')
      BY DEF Stored
    <3>2. Loaded(file)' = Loaded(file) /\ persist' = persist
      BY <1>2 DEF Restart, Loaded
    <3> QED
      BY <2>2, <3>1, <3>2 DEF CrashSafe
  <2> QED
    BY <2>3, <2>4
<1> QED
  BY <1>1, <1>2

LEMMA NextInv == Safe /\ [Next]_vars => Safe'
<1>1. Safe /\ UNCHANGED vars => Safe'
  BY DEF Safe, TypeOK, CrashSafe, Loaded, Stored, Serialisable, vars
<1> QED
  BY <1>1, CallInv, FlushInv, RestartInv DEF Next

THEOREM Invariant == Spec => []Safe
BY InitInv, NextInv, PTL DEF Spec

(* The queue and the file hold letters, and the file only what JSON can     *)
(* hold.                                                                    *)
THEOREM TypeCorrect == Spec => []TypeOK
BY Invariant, PTL DEF Safe

(* What the last call to return left in memory is what a restart brings     *)
(* back, at any moment and after a crash at any moment, unless the disk     *)
(* failed, JSON cannot represent one of the jobs, or the process ended      *)
(* between the truncation of the file and its being written.                *)
THEOREM DurableOnceReturned == Spec => []CrashSafe
BY Invariant, PTL DEF Safe

(* A job that JSON cannot represent does not destroy what is on disk. *)
THEOREM UnserialisableIsHarmless == Spec => UnserialisableLeavesFile
<1>1. Safe /\ [Next]_vars => [~Serialisable(jobs) => file' = file]_vars
  BY DEF Safe, TypeOK, Next, vars, Add, RemoveJob, Clear, Change, StringifyThrows,
         OpenFails, Truncate, Write, WriteFails, Crash, Restart, Returns
<1> QED
  BY <1>1, Invariant, PTL DEF Spec, UnserialisableLeavesFile
-----------------------------------------------------------------------------
(* The places of the entries of a job. *)
PlacesOf(s, id) == {i \in DOMAIN s : s[i].id = id}

LEMMA PlacesAreFinite ==
  ASSUME NEW s \in Seq(Letters), NEW id
  PROVE  /\ IsFiniteSet(PlacesOf(s, id))
         /\ Copies(s, id) = Cardinality(PlacesOf(s, id)) /\ Copies(s, id) \in Nat
<1>1. IsFiniteSet(1..Len(s))
  BY FS_Interval
<1>2. PlacesOf(s, id) \subseteq 1..Len(s)
  BY DEF PlacesOf
<1> QED
  BY <1>1, <1>2, FS_Subset, FS_CardinalityType DEF PlacesOf, Copies

LEMMA NoCopies == \A id : Copies(<<>>, id) = 0
<1>1. \A id : PlacesOf(<<>>, id) = {}
  BY DEF PlacesOf
<1> QED
  BY <1>1, FS_EmptySet DEF Copies, PlacesOf

(* add() brings one entry of its job, and none of another. *)
LEMMA CopiesAfterAdd ==
  ASSUME NEW s \in Seq(Letters), NEW letter \in Letters, NEW id
  PROVE  Copies(Append(s, letter), id) <= Copies(s, id) + (IF letter.id = id THEN 1 ELSE 0)
<1> DEFINE q == Append(s, letter)
<1>1. /\ Len(s) \in Nat /\ DOMAIN s = 1..Len(s) /\ DOMAIN q = 1..(Len(s) + 1)
      /\ \A i \in 1..Len(s) : q[i] = s[i]
      /\ q[Len(s) + 1] = letter
  OBVIOUS
<1> HIDE DEF q
<1>2. PlacesOf(q, id) =
        IF letter.id = id THEN PlacesOf(s, id) \cup {Len(s) + 1} ELSE PlacesOf(s, id)
  BY <1>1 DEF PlacesOf
<1>3. /\ IsFiniteSet(PlacesOf(s, id)) /\ Copies(s, id) = Cardinality(PlacesOf(s, id))
      /\ Copies(s, id) \in Nat
  BY PlacesAreFinite
<1>4. Copies(q, id) = Cardinality(PlacesOf(q, id))
  BY DEF Copies, PlacesOf
<1>5. Cardinality(PlacesOf(s, id) \cup {Len(s) + 1}) <= Cardinality(PlacesOf(s, id)) + 1
  <2>1. \A n : Cardinality(PlacesOf(s, id) \cup {n}) =
                 IF n \in PlacesOf(s, id) THEN Cardinality(PlacesOf(s, id))
                 ELSE Cardinality(PlacesOf(s, id)) + 1
    BY <1>3, FS_AddElement
  <2>2. Cardinality(PlacesOf(s, id)) \in Nat
    BY <1>3
  <2>3. \A k \in Nat : k <= k + 1 /\ k + 1 <= k + 1
    OBVIOUS
  <2> HIDE DEF PlacesOf
  <2> QED
    BY <2>1, <2>2, <2>3, Zenon
<1>6. Copies(q, id) <= Copies(s, id) + (IF letter.id = id THEN 1 ELSE 0)
  <2>1. CASE letter.id = id
    BY <1>2, <1>3, <1>4, <1>5, <2>1
  <2>2. CASE letter.id # id
    BY <1>2, <1>3, <1>4, <2>2
  <2> QED
    BY <2>1, <2>2
<1> QED
  BY <1>6 DEF q

(* remove() adds no entry of any job. *)
LEMMA CopiesAfterRemove ==
  ASSUME NEW s \in Seq(Letters), NEW i \in 1..Len(s), NEW id
  PROVE  Copies(RemoveAt(s, i), id) <= Copies(s, id)
<1> DEFINE q == RemoveAt(s, i)
           from(k) == IF k < i THEN k ELSE k + 1
           f == [k \in PlacesOf(q, id) |-> from(k)]
<1>1. /\ Len(s) \in Nat /\ DOMAIN q = 1..(Len(s) - 1)
      /\ \A k \in 1..(Len(s) - 1) : q[k] = s[from(k)]
  <2> DEFINE l == SubSeq(s, 1, i - 1)
             r == SubSeq(s, i + 1, Len(s))
  <2>1. /\ l \in Seq(Letters) /\ Len(l) = i - 1
        /\ \A k \in 1..(i - 1) : l[k] = s[k]
    OBVIOUS
  <2>2. /\ r \in Seq(Letters) /\ Len(r) = Len(s) - i
        /\ \A k \in 1..(Len(s) - i) : r[k] = s[k + i]
    OBVIOUS
  <2>3. q = l \o r
    BY DEF RemoveAt
  <2> HIDE DEF l, r, q
  <2>4. DOMAIN q = 1..(Len(s) - 1)
    BY <2>1, <2>2, <2>3
  <2>5. ASSUME NEW k \in 1..(Len(s) - 1) PROVE q[k] = s[from(k)]
    <3>1. CASE k < i
      BY <2>1, <2>2, <2>3, <3>1
    <3>2. CASE ~(k < i)
      <4>0. /\ k > Len(l) /\ k <= Len(l) + Len(r)
            /\ k \in Nat /\ Len(l) \in Nat /\ Len(r) \in Nat
        BY <2>1, <2>2, <3>2
      <4>1. q[k] = r[k - Len(l)] /\ k - Len(l) \in 1..(Len(s) - i)
        BY <2>1, <2>2, <2>3, <4>0
      <4>2. k - Len(l) = k - i + 1 /\ (k - i + 1) + i = k + 1
        BY <2>1
      <4> QED
        BY <2>2, <3>2, <4>1, <4>2
    <3> QED
      BY <3>1, <3>2
  <2> QED
    BY <2>4, <2>5
<1> HIDE DEF q
<1>2. \A k \in PlacesOf(q, id) : from(k) \in PlacesOf(s, id) /\ k \in Int
  BY <1>1 DEF PlacesOf
<1>3. f \in Injection(PlacesOf(q, id), PlacesOf(s, id))
  <2>1. f \in [PlacesOf(q, id) -> PlacesOf(s, id)]
    BY <1>2
  <2>2. \A j, k \in PlacesOf(q, id) : f[j] = f[k] => j = k
    BY <1>2
  <2> QED
    BY <2>1, <2>2 DEF Injection, IsInjective
<1>4. Cardinality(PlacesOf(q, id)) <= Cardinality(PlacesOf(s, id))
  BY <1>3, PlacesAreFinite, FS_Injection
<1> QED
  BY <1>4 DEF q, Copies, PlacesOf

(* The file has as many entries of a job as the memory it was written from. *)
LEMMA CopiesStored ==
  ASSUME NEW s \in Seq(Letters), NEW id
  PROVE  Copies(Stored(s), id) = Copies(s, id)
<1>1. ASSUME NEW i \in DOMAIN s PROVE Stored(s)[i].id = s[i].id
  <2>1. s[i] \in Letters
    OBVIOUS
  <2>2. Stored(s)[i] = AsStored(s[i])
    BY DEF Stored
  <2>3. \A body : [s[i] EXCEPT !.body = body].id = s[i].id
    BY <2>1 DEF Letters
  <2> QED
    BY <2>2, <2>3 DEF AsStored
<1>2. PlacesOf(Stored(s), id) = PlacesOf(s, id)
  BY <1>1 DEF PlacesOf, Stored
<1> QED
  BY <1>2 DEF Copies, PlacesOf

LEMMA CopiesStep == Safe /\ NoneMultiplied /\ [Next]_vars => NoneMultiplied'
<1> SUFFICES ASSUME Safe, NoneMultiplied, [Next]_vars, NEW id \in Ids
             PROVE  Copies(jobs', id) <= adds'[id] /\ Copies(Loaded(file'), id) <= adds'[id]
  BY DEF NoneMultiplied, Copies
<1>1. /\ Copies(jobs, id) <= adds[id] /\ Copies(Loaded(file), id) <= adds[id]
      /\ adds \in [Ids -> Nat] /\ adds[id] \in Nat /\ jobs \in Seq(Letters)
      /\ Copies(jobs, id) \in Nat
  BY PlacesAreFinite DEF NoneMultiplied, Safe, TypeOK
<1>2. ASSUME NEW k \in Ids, NEW body \in Bodies, Add(k, body)
      PROVE  Copies(jobs', id) <= adds'[id] /\ Copies(Loaded(file'), id) <= adds'[id]
  <2> DEFINE letter == [id |-> k, body |-> body]
  <2>1. /\ jobs' = Append(jobs, letter) /\ file' = file
        /\ adds' = [adds EXCEPT ![k] = adds[k] + 1]
    BY <1>2 DEF Add, Change
  <2>2. letter \in Letters /\ letter.id = k
    BY DEF Letters
  <2> HIDE DEF letter
  <2>3. Copies(jobs', id) <= Copies(jobs, id) + (IF k = id THEN 1 ELSE 0)
    BY <1>1, <2>1, <2>2, CopiesAfterAdd
  <2>4. adds'[id] = adds[id] + (IF k = id THEN 1 ELSE 0)
    BY <1>1, <2>1
  <2>5. Copies(Loaded(file), id) \in Nat
    <3>1. Loaded(file) \in Seq(Letters)
      <4>1. Loaded(file) \in Seq(OnDisk)
        BY DEF Safe, TypeOK, Loaded, OnDisk
      <4> QED
        BY <4>1, StoredAgain
    <3> QED
      BY <3>1, PlacesAreFinite
  <2>6. /\ Copies(jobs', id) <= adds[id] + (IF k = id THEN 1 ELSE 0)
        /\ Copies(Loaded(file), id) <= adds[id] + (IF k = id THEN 1 ELSE 0)
    <3>1. Append(jobs, letter) \in Seq(Letters)
      BY <1>1, <2>2
    <3>2. Copies(jobs', id) \in Nat
      BY <2>1, <3>1, PlacesAreFinite
    <3> QED
      BY <1>1, <2>3, <2>5, <3>2
  <2> QED
    BY <2>1, <2>4, <2>6
<1>3. ASSUME NEW k \in Ids, RemoveJob(k)
      PROVE  Copies(jobs', id) <= adds'[id] /\ Copies(Loaded(file'), id) <= adds'[id]
  <2>1. PICK i \in 1..Len(jobs) : jobs' = RemoveAt(jobs, i)
    BY <1>1, <1>3 DEF RemoveJob, Change
  <2>2. file' = file /\ adds' = adds
    BY <1>3 DEF RemoveJob, Change
  <2>3. Copies(jobs', id) <= Copies(jobs, id) /\ Copies(jobs', id) \in Nat
    <3>1. RemoveAt(jobs, i) \in Seq(Letters)
      BY <1>1 DEF RemoveAt
    <3> QED
      BY <1>1, <2>1, <3>1, CopiesAfterRemove, PlacesAreFinite
  <2> QED
    BY <1>1, <2>2, <2>3
<1>4. CASE Clear \/ Crash
  <2>1. jobs' = <<>> /\ file' = file /\ adds' = adds
    BY <1>4 DEF Clear, Change, Crash
  <2> QED
    BY <1>1, <2>1, NoCopies
<1>5. CASE StringifyThrows \/ OpenFails \/ WriteFails
  BY <1>1, <1>5 DEF StringifyThrows, OpenFails, WriteFails, Returns
<1>6. CASE Truncate
  <2>1. jobs' = jobs /\ adds' = adds /\ Loaded(file') = <<>>
    BY <1>6 DEF Truncate, TornFile, Loaded
  <2> QED
    BY <1>1, <2>1, NoCopies
<1>7. CASE Write
  <2>1. jobs' = jobs /\ adds' = adds /\ Loaded(file') = Stored(jobs)
    BY <1>7 DEF Write, Returns, Loaded
  <2> QED
    BY <1>1, <2>1, CopiesStored
<1>8. CASE Restart
  <2>1. jobs' \in {Loaded(file), <<>>} /\ file' = file /\ adds' = adds
    BY <1>8 DEF Restart, Returns
  <2> QED
    BY <1>1, <2>1, NoCopies
<1>9. CASE UNCHANGED vars
  BY <1>1, <1>9 DEF vars
<1> QED
  BY <1>2, <1>3, <1>4, <1>5, <1>6, <1>7, <1>8, <1>9 DEF Next

(* Restarts and repeated flushes never multiply letters: neither memory nor *)
(* file ever holds more entries of a job than add() was called for it.      *)
THEOREM LettersAreNotMultiplied == Spec => []NoneMultiplied
<1>1. Init => NoneMultiplied
  <2>1. Init => jobs = <<>> /\ Loaded(file) = <<>> /\ \A id \in Ids : adds[id] = 0
    BY DEF Init, NoFile, Loaded
  <2> QED
    BY <2>1, NoCopies DEF NoneMultiplied
<1> QED
  BY <1>1, CopiesStep, Invariant, PTL DEF Spec
=============================================================================
