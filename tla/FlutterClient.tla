---------------------------- MODULE FlutterClient ----------------------------
(***************************************************************************)
(* The Flutter telemetry client                                            *)
(* (clients/flutter/obs_telemetry/lib/src/client.dart).                    *)
(*                                                                         *)
(* A Dart isolate runs one callback at a time, so an action is one public  *)
(* method, one timer callback, or one continuation of _drain() between two *)
(* of its awaits.  An async function that has awaited completes its future *)
(* synchronously, so _drain() returning and the whenComplete() that clears *)
(* _inFlight are one step.  An event is the position of its enqueue in     *)
(* `history`.                                                              *)
(***************************************************************************)
EXTENDS Integers, Sequences, SequencesExt

CONSTANTS
    Sigs,            \* event signatures (type|message|stack)
    BatchSize,       \* _batchSize: config.maxBatch clamped to 1..100
    MaxQueue,        \* config.maxQueue
    DedupeWindow,    \* config.dedupeWindow
    PruneAbove,      \* signatures remembered before expired ones are pruned (200)
    Enabled,         \* config.enabled
    ClockSteps,      \* how DateTime.now() may move: {1}, or also backwards
    MaxNow,          \* bound on the clock
    MaxEvents        \* bound on accepted events

ASSUME FlutterAssumption ==
    /\ BatchSize \in Nat \ {0}
    /\ {MaxQueue, DedupeWindow, PruneAbove, MaxNow, MaxEvents} \subseteq Nat
    /\ Enabled \in BOOLEAN
    /\ ClockSteps \subseteq Int

VARIABLES
    queue,   \* _queue: events waiting to be sent, oldest first
    recent,  \* _recent: signature -> when it was last accepted
    timerOn, \* _started: the periodic timer runs
    closed,  \* _http.close() was called
    drain,   \* the future behind _inFlight and the chunk it holds
    now,     \* DateTime.now()
    history, \* every event enqueue() accepted, in order
    fate     \* what became of the events that left the client

vars == <<queue, recent, timerOn, closed, drain, now, history, fate>>

Idle == [pc |-> "idle", chunk |-> <<>>]

\* "refused": the request was posted after close(), so it can only fail.
DrainStates == [pc : {"idle", "token", "sending", "refused"}, chunk : Seq(Nat)]

TypeOK ==
    /\ queue \in Seq(Nat)
    /\ DOMAIN recent \subseteq Sigs /\ recent \in [DOMAIN recent -> Int]
    /\ timerOn \in BOOLEAN /\ closed \in BOOLEAN
    /\ drain \in DrainStates
    /\ now \in Int
    /\ history \in Seq([sig : Sigs, at : Int])
    /\ DOMAIN fate \subseteq Nat
    /\ \A id \in DOMAIN fate : fate[id] \in {"sent", "dropped", "evicted"}

Smaller(a, b) == IF a <= b THEN a ELSE b

Larger(a, b) == IF a <= b THEN b ELSE a

\* Mutant: drops the newest.
TrimBack(s) == SubSeq(s, 1, Smaller(Len(s), MaxQueue))

\* Mutant: trims to a full batch less than the bound.
TrimBatch(s) == SubSeq(s, Larger(1, Len(s) - MaxQueue + BatchSize + 1), Len(s))

\* _trimQueue: the newest MaxQueue entries stay.
Trim(s) == SubSeq(s, Larger(1, Len(s) - MaxQueue + 1), Len(s))

WithFate(ids, f) ==
    [id \in DOMAIN fate \cup ids |-> IF id \in DOMAIN fate THEN fate[id] ELSE f]

\* The queue becomes s after _trimQueue.
QueueTrimmed(s) ==
    /\ queue' = Trim(s)
    /\ fate' = WithFate(Range(s) \ Range(Trim(s)), "evicted")

Suppressed(sig) == sig \in DOMAIN recent /\ now - recent[sig] < DedupeWindow

\* Mutant: makes room by forgetting everything else.
RememberAlone(sig) ==
    LET r == [s \in DOMAIN recent \cup {sig} |-> IF s = sig THEN now ELSE recent[s]]
    IN  IF Cardinality(DOMAIN r) > PruneAbove THEN Restrict(r, {sig}) ELSE r

\* _recent[sig] = now; above the limit only expired signatures are removed, so
\* live ones may stay in any number.
Remember(sig) ==
    LET r == [s \in DOMAIN recent \cup {sig} |-> IF s = sig THEN now ELSE recent[s]]
    IN  IF Cardinality(DOMAIN r) > PruneAbove
        THEN Restrict(r, {s \in DOMAIN r : now - r[s] <= DedupeWindow})
        ELSE r

\* flush() on queue q: shares the drain in flight, and does nothing when empty.
Flush(q) ==
    drain' = IF drain.pc = "idle" /\ q # <<>> THEN [pc |-> "token", chunk |-> <<>>] ELSE drain

-----------------------------------------------------------------------------
Init ==
    /\ queue = <<>> /\ recent = [s \in {} |-> 0] /\ timerOn = FALSE /\ closed = FALSE
    /\ drain = Idle /\ now = 0 /\ history = <<>> /\ fate = [id \in {} |-> "sent"]

\* start() after dispose() restarts the timer on the closed HTTP client.
Start ==
    /\ Enabled /\ ~timerOn
    /\ timerOn' = TRUE
    /\ UNCHANGED <<queue, recent, closed, drain, now, history, fate>>

Dispose ==
    /\ timerOn' = FALSE /\ closed' = TRUE
    /\ UNCHANGED <<queue, recent, drain, now, history, fate>>

\* A suppressed call returns early: it is a stuttering step.
Enqueue(sig) ==
    /\ Enabled /\ Len(history) < MaxEvents
    /\ ~Suppressed(sig)
    /\ recent' = Remember(sig)
    /\ history' = Append(history, [sig |-> sig, at |-> now])
    /\ QueueTrimmed(Append(queue, Len(history) + 1))
    /\ IF Len(queue') >= BatchSize THEN Flush(queue') ELSE drain' = drain
    /\ UNCHANGED <<timerOn, closed, now>>

FlushCall ==
    /\ Flush(queue)
    /\ UNCHANGED <<queue, recent, timerOn, closed, now, history, fate>>

\* Mutant: waits for a full batch.
TickFullBatch ==
    /\ timerOn
    /\ IF Len(queue) >= BatchSize THEN Flush(queue) ELSE drain' = drain
    /\ UNCHANGED <<queue, recent, timerOn, closed, now, history, fate>>

\* The callback of the periodic timer.
Tick ==
    /\ timerOn
    /\ Flush(queue)
    /\ UNCHANGED <<queue, recent, timerOn, closed, now, history, fate>>

\* The head of the loop of _drain(): post the next chunk, or finish.
NextChunk ==
    LET n == Smaller(Len(queue), BatchSize) IN
    /\ drain' = IF n = 0 THEN Idle
                ELSE [pc |-> IF closed THEN "refused" ELSE "sending", chunk |-> SubSeq(queue, 1, n)]
    /\ queue' = SubSeq(queue, n + 1, Len(queue))

\* _token() settled; a getToken() that throws means no token.
TokenResolved ==
    /\ drain.pc = "token"
    /\ NextChunk
    /\ UNCHANGED <<recent, timerOn, closed, now, history, fate>>

\* _send() returned true: 2xx ("sent"), or a status that is not retried.
ChunkDone(outcome) ==
    /\ drain.pc = "sending"
    /\ fate' = WithFate(Range(drain.chunk), outcome)
    /\ NextChunk
    /\ UNCHANGED <<recent, timerOn, closed, now, history>>

\* Mutant: appends the failed chunk.
ChunkFailedAtBack ==
    /\ drain.pc \in {"sending", "refused"}
    /\ QueueTrimmed(queue \o drain.chunk)
    /\ drain' = Idle
    /\ UNCHANGED <<recent, timerOn, closed, now, history>>

\* _send() returned false: 429, 5xx, an exception or the 4 s timeout.
ChunkFailed ==
    /\ drain.pc \in {"sending", "refused"}
    /\ QueueTrimmed(drain.chunk \o queue)
    /\ drain' = Idle
    /\ UNCHANGED <<recent, timerOn, closed, now, history>>

\* A wall clock: it may also be set back.
ClockMoves ==
    /\ now' \in {now + d : d \in ClockSteps} \cap (0 .. MaxNow)
    /\ UNCHANGED <<queue, recent, timerOn, closed, drain, history, fate>>

ChunkAnswered == \E outcome \in {"sent", "dropped"} : ChunkDone(outcome)

Next ==
    \/ Start \/ Dispose
    \/ \E sig \in Sigs : Enqueue(sig)
    \/ FlushCall \/ Tick
    \/ TokenResolved \/ ChunkAnswered \/ ChunkFailed
    \/ ClockMoves

Spec == Init /\ [][Next]_vars

\* The timer fires, the token future settles, requests are answered or time
\* out, and a request attempted again and again is one day answered for good.
FairSpec ==
    /\ Spec
    /\ WF_vars(Tick) /\ WF_vars(TokenResolved)
    /\ WF_vars(ChunkAnswered \/ ChunkFailed) /\ SF_vars(ChunkAnswered)

-----------------------------------------------------------------------------
Pending == Range(queue) \cup Range(drain.chunk)

\* Retries keep events in order of acceptance, and each once: the chunk in flight
\* is older than the queue.
InOrder ==
    LET s == drain.chunk \o queue
    IN  \A i, j \in DOMAIN s : i < j => s[i] < s[j]

\* An evicted event is older than every event that stays queued
\* ("oldest dropped", models.dart).
EvictsOldest ==
    [][\A lost \in DOMAIN fate' \ DOMAIN fate, kept \in Range(queue') :
          fate'[lost] = "evicted" => lost < kept]_vars

\* Events of one signature are accepted less than a window apart, as the clock
\* reads, only if that clock was set back: an event between them was accepted at
\* a reading that made the first one expired, and found more than PruneAbove
\* signatures to prune.  A step back alone, or pruning alone, lets none through.
ForgetsOnlyIfSetBack ==
    \A i, j \in DOMAIN history :
       (/\ i < j /\ history[i].sig = history[j].sig
        /\ history[j].at - history[i].at < DedupeWindow)
       => \E k \in i + 1 .. j - 1 :
             /\ history[k].at - history[i].at > DedupeWindow
             /\ Cardinality({history[m].sig : m \in 1 .. k}) > PruneAbove

\* The Flutter client keeps the same promise as the React one: an accepted event
\* is pending until it has one final fate, and is evicted only while MaxQueue
\* others stay pending.
Mailbox == INSTANCE LossyMailbox WITH Capacity <- MaxQueue, pending <- Pending, fate <- fate
ImplementsMailbox == Mailbox!Spec

\* While the timer runs on an open client, every accepted event is in the end
\* delivered, refused or evicted.
EveryEventSettles ==
    \A id \in 1 .. MaxEvents :
       (<>[](timerOn /\ ~closed) /\ <>(id <= Len(history))) => <>(id \in DOMAIN fate)
=============================================================================
