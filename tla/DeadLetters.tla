---------------------------- MODULE DeadLetters ----------------------------
(***************************************************************************)
(* The dead letter queue (src/queue/DLQHandler.ts): jobs in memory and,    *)
(* with a persistPath, a file that is written anew after every change and  *)
(* read once, at the start.  A write truncates the file first, and may     *)
(* fail or be cut short by a crash at each point; failures are swallowed.  *)
(***************************************************************************)
EXTENDS SequencesExt, FiniteSets

CONSTANTS Ids,       \* the ids of the jobs
          MaxAdds    \* bound on the calls of add()

ASSUME LettersAssumption == IsFiniteSet(Ids) /\ MaxAdds \in Nat

(* What JSON makes of a payload: text stays what it is, the Buffer of an    *)
(* attachment comes back as a plain object, and a BigInt or a cycle in      *)
(* templateData makes JSON.stringify throw.                                 *)
Bodies == {"text", "buffer", "object", "unserialisable"}
Letters == [id : Ids, body : Bodies]

VARIABLES
  persist,   \* whether there is a persistPath
  jobs,      \* failedJobs
  file,      \* the file: its state, and the letters in it
  step,      \* where the handler is; "down" when the process does not run
  failed,    \* history: the disk failed a flush since the file was last
             \* written or read
  cut,       \* history: the process ended between truncation and write
  returned,  \* history: the jobs that the last call to return left
  adds       \* history: how often each id was added

vars == <<persist, jobs, file, step, failed, cut, returned, adds>>

NoFile == [is |-> "absent", letters |-> <<>>]
TornFile == [is |-> "torn", letters |-> <<>>]

Init == /\ persist \in BOOLEAN
        /\ jobs = <<>>
        /\ file = NoFile
        /\ step = "idle"
        /\ failed = FALSE /\ cut = FALSE
        /\ returned = <<>>
        /\ adds = [id \in Ids |-> 0]

Serialisable(s) == \A i \in DOMAIN s : s[i].body # "unserialisable"

AsStored(l) == [l EXCEPT !.body = IF @ = "buffer" THEN "object" ELSE @]
Stored(s) == [i \in DOMAIN s |-> AsStored(s[i])]

(* What loadFromDisk() finds: a missing or corrupt file is an empty queue. *)
Loaded(f) == IF f.is = "whole" THEN f.letters ELSE <<>>

(* A change of failedJobs is followed by flushToDisk(), if persistent. *)
Change(s) ==
  /\ step = "idle"
  /\ jobs' = s
  /\ step' = IF persist THEN "flushing" ELSE "idle"
  /\ returned' = IF persist THEN returned ELSE s
  /\ UNCHANGED <<persist, file, failed, cut>>

Add(id, body) ==
  /\ SumFunction(adds) < MaxAdds
  /\ Change(Append(jobs, [id |-> id, body |-> body]))
  /\ adds' = [adds EXCEPT ![id] = @ + 1]

IsFirst(i, id) == jobs[i].id = id /\ \A j \in 1..(i - 1) : jobs[j].id # id

(* Mutant: remove() does not flush. *)
RemoveJobUnflushed(id) ==
  /\ step = "idle"
  /\ \E i \in DOMAIN jobs : IsFirst(i, id) /\ jobs' = RemoveAt(jobs, i)
  /\ returned' = jobs'
  /\ UNCHANGED <<persist, file, step, failed, cut, adds>>

(* remove(id); a job that was added twice has two entries, and one goes     *)
RemoveJob(id) ==
  /\ \E i \in DOMAIN jobs : IsFirst(i, id) /\ Change(RemoveAt(jobs, i))
  /\ UNCHANGED adds

Clear == Change(<<>>) /\ UNCHANGED adds

(* The call, or the constructor, returns with these jobs in memory;         *)
(* flushToDisk() swallows whatever has been thrown.                         *)
Returns(s) == step' = "idle" /\ jobs' = s /\ returned' = s

(* Some job cannot be represented: JSON.stringify() throws before the file  *)
(* is opened.                                                               *)
StringifyThrows ==
  /\ step = "flushing"
  /\ ~Serialisable(jobs)
  /\ Returns(jobs)
  /\ UNCHANGED <<persist, file, failed, cut, adds>>

(* The directory cannot be made, or the file not opened. *)
OpenFails ==
  /\ step = "flushing"
  /\ Returns(jobs)
  /\ failed' = TRUE
  /\ UNCHANGED <<persist, file, cut, adds>>

(* Mutant: the file is opened before the jobs are serialised. *)
TruncateFirst ==
  /\ step = "flushing"
  /\ step' = IF Serialisable(jobs) THEN "writing" ELSE "idle"
  /\ returned' = IF Serialisable(jobs) THEN returned ELSE jobs
  /\ file' = TornFile
  /\ UNCHANGED <<persist, jobs, failed, cut, adds>>

(* writeFileSync() opens the file, which empties it. *)
Truncate ==
  /\ step = "flushing"
  /\ Serialisable(jobs)
  /\ step' = "writing"
  /\ file' = TornFile
  /\ UNCHANGED <<persist, jobs, failed, cut, returned, adds>>

Write ==
  /\ step = "writing"
  /\ Returns(jobs)
  /\ file' = [is |-> "whole", letters |-> Stored(jobs)]
  /\ failed' = FALSE
  /\ UNCHANGED <<persist, cut, adds>>

(* The disk is full: the rest of the file is missing. *)
WriteFails ==
  /\ step = "writing"
  /\ Returns(jobs)
  /\ failed' = TRUE
  /\ UNCHANGED <<persist, file, cut, adds>>

(* The process ends, between two calls or in the middle of a flush. *)
Crash ==
  /\ step # "down"
  /\ step' = "down"
  /\ jobs' = <<>>
  /\ cut' = (step = "writing")
  /\ UNCHANGED <<persist, file, failed, returned, adds>>

(* Mutant: the file is read by the constructor and once more. *)
RestartTwice ==
  /\ step = "down"
  /\ Returns(IF persist THEN Loaded(file) \o Loaded(file) ELSE <<>>)
  /\ failed' = FALSE /\ cut' = FALSE
  /\ UNCHANGED <<persist, file, adds>>

(* The constructor, with loadFromDisk() *)
Restart ==
  /\ step = "down"
  /\ Returns(IF persist THEN Loaded(file) ELSE <<>>)
  /\ failed' = FALSE /\ cut' = FALSE
  /\ UNCHANGED <<persist, file, adds>>

Next == \/ \E id \in Ids :
             \/ \E body \in Bodies \ {"object"} : Add(id, body)
             \/ RemoveJob(id)
        \/ Clear
        \/ StringifyThrows \/ OpenFails \/ Truncate \/ Write \/ WriteFails
        \/ Crash \/ Restart

Spec == Init /\ [][Next]_vars
-----------------------------------------------------------------------------
(* The queue and the file hold letters, and the file only what JSON can     *)
(* hold; without a persistPath there is no file.                            *)
TypeOK ==
  /\ persist \in BOOLEAN
  /\ jobs \in Seq(Letters)
  /\ file \in [is : {"absent", "torn", "whole"},
               letters : Seq([id : Ids, body : {"text", "object"}])]
  /\ step \in {"idle", "flushing", "writing", "down"}
  /\ failed \in BOOLEAN /\ cut \in BOOLEAN
  /\ returned \in Seq(Letters) /\ (step = "idle" => returned = jobs)
  /\ adds \in [Ids -> Nat]
  /\ cut => step = "down"
  /\ step = "writing" => file = TornFile /\ Serialisable(jobs)
  /\ ~persist => file = NoFile /\ step \in {"idle", "down"}

(* What the last call to return left in memory is what a restart brings    *)
(* back, in order: between two calls, in the middle of a later one, and     *)
(* after a crash at any of these moments.  Three things alone keep it from  *)
(* being so: the disk has failed a flush and no later one has gone through, *)
(* the call left a job that JSON cannot represent, or the process ended     *)
(* just when the file had been truncated, which loses all letters there     *)
(* were: "persisting failed jobs across restarts" (DLQHandler.ts) fails     *)
(* in these three ways and in no other.                                     *)
CrashSafe ==
  persist /\ step # "writing" /\ ~failed /\ ~cut /\ Serialisable(returned) =>
    Loaded(file) = Stored(returned)

(* A job that JSON cannot represent stops persistence, but does not destroy *)
(* what is on disk: while one is in the queue, no flush touches the file.   *)
UnserialisableLeavesFile == [][~Serialisable(jobs) => file' = file]_vars

Copies(s, id) == Cardinality({i \in DOMAIN s : s[i].id = id})

(* Restarts and repeated flushes never multiply letters: there are at most  *)
(* as many entries of a job as add() was called for it, so that whoever     *)
(* reprocesses the queue sends an email no more often than it failed.       *)
NoneMultiplied ==
  \A id \in Ids : Copies(jobs, id) <= adds[id] /\ Copies(Loaded(file), id) <= adds[id]
=============================================================================
