------------------------------- MODULE Deduper -------------------------------
(***************************************************************************)
(* The gateway's short-window deduplication: _is_duplicate in              *)
(* gateway/src/obs_gateway/ingest.py.  A signature stands for the digest   *)
(* of sender, type, body and stack that _signature computes.  The code     *)
(* runs without an await, so one call is one action.                       *)
(***************************************************************************)
EXTENDS Integers, Sequences, FiniteSets, Functions

CONSTANTS
    Signatures,         \* digests of events
    DedupeWindow,       \* settings.dedupe_window_seconds
    MaxTrackedKeys,     \* MAX_TRACKED_KEYS
    MaxNow,             \* bound on the clock
    MaxCalls            \* bound on the calls

ASSUME DeduperAssumption ==
    {DedupeWindow, MaxTrackedKeys, MaxNow, MaxCalls} \subseteq Nat

VARIABLES
    recent,     \* _recent: signature -> time it was last seen
    now,        \* time.monotonic()
    calls       \* history: every call, its time and its answer

deduperVars == <<recent, now, calls>>

DeduperTypeOK ==
    /\ DOMAIN recent \subseteq Signatures /\ recent \in [DOMAIN recent -> Nat]
    /\ now \in Nat
    /\ calls \in Seq([sig : Signatures, at : Nat, duplicate : BOOLEAN])

\* Mutant: clears the table when it is full, before it overflows.
ClearWhenFull ==
    IF Cardinality(DOMAIN recent) >= MaxTrackedKeys THEN Restrict(recent, {}) ELSE recent

\* Above MaxTrackedKeys keys the expired entries are pruned; if that is not
\* enough, everything is forgotten.
RecentKept ==
    LET live == {s \in DOMAIN recent : recent[s] >= now - DedupeWindow} IN
    IF Cardinality(DOMAIN recent) <= MaxTrackedKeys THEN recent
    ELSE Restrict(recent, IF Cardinality(live) > MaxTrackedKeys THEN {} ELSE live)

DeduperInit == recent = [s \in {} |-> 0] /\ now = 0 /\ calls = <<>>

\* Mutant: takes the signature out to look at it, and puts only new ones back.
IsDuplicatePops(sig) ==
    LET kept == RecentKept
        duplicate == sig \in DOMAIN kept /\ now - kept[sig] < DedupeWindow
    IN  /\ recent' = IF duplicate THEN Restrict(kept, DOMAIN kept \ {sig})
                     ELSE [s \in DOMAIN kept \cup {sig} |-> IF s = sig THEN now ELSE kept[s]]
        /\ calls' = Append(calls, [sig |-> sig, at |-> now, duplicate |-> duplicate])
        /\ UNCHANGED now

\* One call; calls' ends with its answer.
IsDuplicate(sig) ==
    LET kept == RecentKept
        duplicate == sig \in DOMAIN kept /\ now - kept[sig] < DedupeWindow
    IN  /\ recent' = [s \in DOMAIN kept \cup {sig} |-> IF s = sig THEN now ELSE kept[s]]
        /\ calls' = Append(calls, [sig |-> sig, at |-> now, duplicate |-> duplicate])
        /\ UNCHANGED now

DeduperTick == now < MaxNow /\ now' = now + 1 /\ UNCHANGED <<recent, calls>>

DeduperNext ==
    \/ DeduperTick
    \/ \E sig \in Signatures : Len(calls) < MaxCalls /\ IsDuplicate(sig)

DeduperSpec == DeduperInit /\ [][DeduperNext]_deduperVars

-----------------------------------------------------------------------------
\* The table never holds more than MaxTrackedKeys + 1 signatures.
RecentBounded == Cardinality(DOMAIN recent) <= MaxTrackedKeys + 1

\* Two calls with one signature, the second within the window of the first.
Repeats(i, j) ==
    /\ i < j /\ calls[i].sig = calls[j].sig
    /\ calls[j].at - calls[i].at < DedupeWindow

\* No event is suppressed unless its signature was seen within the window.
SuppressedWasSeen ==
    \A j \in DOMAIN calls : calls[j].duplicate => \E i \in DOMAIN calls : Repeats(i, j)

\* The signatures seen in the window that ends at call m, before that call.
SeenInWindow(m) ==
    {calls[k].sig : k \in {k \in 1 .. m - 1 : calls[m].at - calls[k].at <= DedupeWindow}}

\* A repetition within the window slips through only when, in between, more
\* than MaxTrackedKeys signatures were seen in one window.
SlipsThroughOnlyUnderFlood ==
    \A i, j \in DOMAIN calls :
        (Repeats(i, j) /\ ~calls[j].duplicate) =>
            \E m \in i + 1 .. j : Cardinality(SeenInWindow(m)) > MaxTrackedKeys
=============================================================================
