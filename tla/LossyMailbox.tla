----------------------------- MODULE LossyMailbox -----------------------------
(***************************************************************************)
(* What a telemetry client promises about the events it accepts, without   *)
(* saying how: an accepted event is pending until it gets one final fate,  *)
(* a fate never changes, and an event is evicted only while at least       *)
(* Capacity others stay pending.  The clients implement this.              *)
(***************************************************************************)
EXTENDS Naturals, FiniteSets

CONSTANTS
    Capacity,   \* events that may be pending before any may be evicted
    MaxEvents   \* bound on accepted events

VARIABLES pending, fate

vars == <<pending, fate>>

FinalFates == {"sent", "dropped", "beacon"}

Init == pending = {} /\ fate = [id \in {} |-> "sent"]

WithFate(ids, f) ==
    [id \in DOMAIN fate \cup ids |-> IF id \in DOMAIN fate THEN fate[id] ELSE f]

\* Of the events all, evict those in lost.
EvictFrom(all, lost) ==
    /\ pending' = all \ lost
    /\ fate' = WithFate(lost, "evicted")
    /\ lost # {} => Cardinality(pending') >= Capacity

Accept(id) ==
    /\ id \notin pending \cup DOMAIN fate
    /\ \E lost \in SUBSET (pending \cup {id}) : EvictFrom(pending \cup {id}, lost)

Evict == \E lost \in (SUBSET pending) \ {{}} : EvictFrom(pending, lost)

Settle(ids, f) ==
    /\ pending' = pending \ ids
    /\ fate' = WithFate(ids, f)

Next ==
    \/ \E id \in 1 .. MaxEvents : Accept(id)
    \/ Evict
    \/ \E ids \in (SUBSET pending) \ {{}}, f \in FinalFates : Settle(ids, f)

Spec == Init /\ [][Next]_vars
=============================================================================
