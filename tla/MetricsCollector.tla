-------------------------- MODULE MetricsCollector --------------------------
(***************************************************************************)
(* The retention window of src/analytics/MetricsCollector.ts, as operators *)
(* on the array of points.  A point is one email.sent or email.failed      *)
(* event, with the time of its arrival; average latencies are left out.    *)
(***************************************************************************)
EXTENDS Integers, Sequences, FiniteSets

CONSTANT Retention   \* retentionMs, in ticks of the clock

ASSUME RetentionAssumption == Retention \in Nat

Point(now, provider, success) ==
  [ts |-> now, provider |-> provider, success |-> success]

(* compact() drops the points before the first that is not too old. *)
Stale(points, now, i) == points[i].ts < now - Retention

FirstValid(points, now) ==
  CHOOSE k \in 1..Len(points) + 1 :
    /\ \A i \in 1..k - 1 : Stale(points, now, i)
    /\ k <= Len(points) => ~Stale(points, now, k)

(* Mutant: a point leaves the window one tick early. *)
CompactedEarly(points, now) ==
  SelectSeq(points, LAMBDA p : p.ts > now - Retention)

Compacted(points, now) == SubSeq(points, FirstValid(points, now), Len(points))

(* An event handler: push, then compact. *)
Recorded(points, now, provider, success) ==
  Compacted(Append(points, Point(now, provider, success)), now)

(* getStats() after its compact(): how many of the points of a provider are *)
(* successes, or failures.  The totals are the sums over the providers.     *)
Count(points, provider, success) ==
  Cardinality({i \in DOMAIN points : /\ points[i].provider = provider
                                     /\ points[i].success = success})
=============================================================================
