--------------------------- MODULE TelemetryClient ---------------------------
(***************************************************************************)
(* The React/TypeScript telemetry client                                   *)
(* (clients/react/obs-telemetry/src/client.ts).                            *)
(*                                                                         *)
(* JavaScript runs one callback at a time, so an action is one run of a    *)
(* callback: a public method, the interval callback, or one continuation   *)
(* of the asynchronous drain() between two of its awaits.  An event is     *)
(* the position of its enqueue in `history` and the size of its JSON.      *)
(***************************************************************************)
EXTENDS Integers, Sequences, SequencesExt

CONSTANTS
    Sigs,               \* event signatures (type|message|stack)
    EventBytes,         \* possible sizes of an event's wire JSON
    MaxBatch,           \* config.maxBatch, already clamped to 1..100
    MaxQueue,           \* config.maxQueue, already clamped to >= 1
    MaxRequestBytes,    \* body budget of a normal request
    UnloadChunkBytes,   \* body budget of a keepalive request
    EmptyBodyBytes,     \* size of {"events":[]}
    DedupeWindow,       \* config.dedupeWindowMs
    DedupeMaxEntries,   \* DEDUPE_MAX_ENTRIES
    Enabled,            \* config.enabled
    Transport,          \* "fetch", or "beacon"/"none" when there is no fetch
    ClockSteps,         \* how Date.now() may move: {1}, or also backwards
    MaxNow,             \* bound on the clock
    MaxEvents,          \* bound on accepted events
    MaxPageHides        \* bound on pagehide/visibilitychange callbacks

ASSUME ClientAssumption ==
    /\ EventBytes \subseteq Nat
    /\ MaxBatch \in Nat \ {0}
    /\ MaxQueue \in Nat \ {0}
    /\ {MaxRequestBytes, UnloadChunkBytes, EmptyBodyBytes} \subseteq Nat
    /\ DedupeWindow \in Nat
    /\ DedupeMaxEntries \in Nat
    /\ Enabled \in BOOLEAN
    /\ Transport \in {"fetch", "beacon", "none"}
    /\ ClockSteps \subseteq Int
    /\ {MaxNow, MaxEvents, MaxPageHides} \subseteq Nat

VARIABLES
    queue,      \* this.queue: events waiting to be sent, oldest first
    recent,     \* this.recent: signature -> time and place in insertion order
    timerOn,    \* this.timer is set
    drain,      \* the coroutine behind this.inFlight, and the chunk it holds
    backingOff, \* this.backingOff
    unloads,    \* chunks of keepalive requests that are not answered yet
    now,        \* Date.now()
    history,    \* every event enqueue() accepted, in order
    fate,       \* what became of the events that left the client
    pageHides   \* page-hide callbacks so far

vars == <<queue, recent, timerOn, drain, backingOff, unloads, now, history,
          fate, pageHides>>

Event == [id : Nat, bytes : EventBytes]

\* "settling": drain() has returned, its .finally() has not yet cleared inFlight.
DrainStates == [pc : {"idle", "token", "sending", "settling"}, chunk : Seq(Event)]

Fates == {"sent", "dropped", "evicted", "beacon"}

TypeOK ==
    /\ queue \in Seq(Event)
    /\ DOMAIN recent \subseteq Sigs /\ recent \in [DOMAIN recent -> [at : Int, place : Nat]]
    /\ timerOn \in BOOLEAN
    /\ drain \in DrainStates
    /\ backingOff \in BOOLEAN
    /\ unloads \in SUBSET Seq(Event)
    /\ now \in Int
    /\ history \in Seq([sig : Sigs, at : Int])
    /\ DOMAIN fate \subseteq Nat /\ \A id \in DOMAIN fate : fate[id] \in Fates
    /\ pageHides \in Nat

-----------------------------------------------------------------------------
\* Chunks, requeueing and trimming.

Smaller(a, b) == IF a <= b THEN a ELSE b

Larger(a, b) == IF a <= b THEN b ELSE a

Ids(s) == {s[i].id : i \in DOMAIN s}

\* Bytes of the body of a request carrying the nonempty chunk.
BodyBytes(chunk) ==
    EmptyBodyBytes + FoldLeft(LAMBDA sum, e : sum + e.bytes + 1, -1, chunk)

\* takeChunk(maxBytes) on queue s takes n events: as many as fit, at least one.
TakesChunk(s, n, maxBytes) ==
    /\ n \in 1 .. Smaller(Len(s), MaxBatch)
    /\ n > 1 => BodyBytes(SubSeq(s, 1, n)) <= maxBytes
    /\ n < Smaller(Len(s), MaxBatch) => BodyBytes(SubSeq(s, 1, n + 1)) > maxBytes

\* Mutant: splices one event too many.
TrimTooMuch(s) == SubSeq(s, Larger(1, Len(s) - MaxQueue + 2), Len(s))

\* Mutant: drops the newest.
TrimBack(s) == SubSeq(s, 1, Smaller(Len(s), MaxQueue))

\* trimQueue: the newest MaxQueue entries stay, the front is dropped.
Trim(s) == SubSeq(s, Larger(1, Len(s) - MaxQueue + 1), Len(s))

Trimmed(s) == Ids(s) \ Ids(Trim(s))

\* The fates of the events ids become f.
WithFate(ids, f) ==
    [id \in DOMAIN fate \cup ids |-> IF id \in DOMAIN fate THEN fate[id] ELSE f]

\* Mutant: does not trim.
RequeueUntrimmed(chunk) ==
    /\ queue' = chunk \o queue
    /\ fate' = fate

\* Mutant: push instead of unshift.
RequeueAtBack(chunk) ==
    /\ queue' = Trim(queue \o chunk)
    /\ fate' = WithFate(Trimmed(queue \o chunk), "evicted")

\* requeue(chunk): back at the front, then trimQueue.
Requeue(chunk) ==
    /\ queue' = Trim(chunk \o queue)
    /\ fate' = WithFate(Trimmed(chunk \o queue), "evicted")

-----------------------------------------------------------------------------
\* Deduplication.

Suppressed(sig) == sig \in DOMAIN recent /\ now - recent[sig].at < DedupeWindow

\* pruneRecent: forget expired entries, then the oldest beyond the limit.
Unpruned(r) ==
    LET live == {s \in DOMAIN r : now - r[s].at < DedupeWindow}
    IN  {s \in live : Cardinality({t \in live : r[t].place >= r[s].place}) <= DedupeMaxEntries}

\* Map.set: the signature gets the time and place given.
WithEntry(sig, place) ==
    [s \in DOMAIN recent \cup {sig} |->
        IF s = sig THEN [at |-> now, place |-> place] ELSE recent[s]]

Pruned(r) == IF Cardinality(DOMAIN r) > DedupeMaxEntries THEN Restrict(r, Unpruned(r)) ELSE r

\* Mutant: no delete first, so a refreshed signature keeps its old place.
RememberInPlace(sig) ==
    Pruned(WithEntry(sig, IF sig \in DOMAIN recent THEN recent[sig].place
                          ELSE Len(history) + 1))

\* recent.delete(sig); recent.set(sig, now); prune when over the limit.
Remember(sig) == Pruned(WithEntry(sig, Len(history) + 1))

-----------------------------------------------------------------------------
\* flush() when the queue is q: the in-flight drain is shared; a new one runs
\* up to its first await, or returns at once when there is nothing to send.
Flush(q) ==
    drain' = IF drain.pc # "idle" THEN drain
             ELSE [pc |-> IF q = <<>> THEN "settling" ELSE "token", chunk |-> <<>>]

Init ==
    /\ queue = <<>> /\ recent = [s \in {} |-> 0] /\ timerOn = FALSE
    /\ drain = [pc |-> "idle", chunk |-> <<>>]
    /\ backingOff = FALSE /\ unloads = {} /\ now = 0
    /\ history = <<>> /\ fate = [id \in {} |-> "sent"] /\ pageHides = 0

Start ==
    /\ Enabled /\ ~timerOn
    /\ timerOn' = TRUE
    /\ UNCHANGED <<queue, recent, drain, backingOff, unloads, now, history, fate, pageHides>>

\* dispose() only stops the timer: the queue and requests in flight stay.
Dispose ==
    /\ timerOn
    /\ timerOn' = FALSE
    /\ UNCHANGED <<queue, recent, drain, backingOff, unloads, now, history, fate, pageHides>>

\* A suppressed call returns early and changes nothing: it is a stuttering step.
\* Reported values have the declared types: a value that makes toWire throw would
\* leave its signature remembered and the event nowhere (the catch).
Enqueue(sig, bytes) ==
    /\ Enabled /\ Len(history) < MaxEvents
    /\ ~Suppressed(sig)
    /\ recent' = Remember(sig)
    /\ history' = Append(history, [sig |-> sig, at |-> now])
    /\ LET q == Append(queue, [id |-> Len(history) + 1, bytes |-> bytes]) IN
         /\ queue' = Trim(q)
         /\ fate' = WithFate(Trimmed(q), "evicted")
    /\ IF Len(queue') >= MaxBatch /\ drain.pc = "idle" /\ ~backingOff
       THEN Flush(queue') ELSE drain' = drain
    /\ UNCHANGED <<timerOn, backingOff, unloads, now, pageHides>>

\* flush() called by the application.
FlushCall ==
    /\ Flush(queue)
    /\ UNCHANGED <<queue, recent, timerOn, backingOff, unloads, now, history, fate, pageHides>>

\* Mutant: leaves the flush to the application while backing off.
TickUnlessBackingOff ==
    /\ timerOn /\ drain.pc # "settling"
    /\ ~backingOff /\ Flush(queue)
    /\ UNCHANGED <<queue, recent, timerOn, backingOff, unloads, now, history, fate, pageHides>>

\* The interval callback.  It is a task of its own, so it cannot run between
\* the end of drain() and its .finally(), which are microtasks of one task.
Tick ==
    /\ timerOn /\ drain.pc # "settling"
    /\ backingOff' = FALSE
    /\ Flush(queue)
    /\ UNCHANGED <<queue, recent, timerOn, unloads, now, history, fate, pageHides>>

\* Mutant: sends the chunk before removing it from the queue.
NextChunkCopied(q) ==
    \/ /\ q = <<>>
       /\ queue' = q /\ backingOff' = FALSE
       /\ drain' = [pc |-> "settling", chunk |-> <<>>]
    \/ \E n \in 1 .. Len(q) :
         /\ TakesChunk(q, n, MaxRequestBytes)
         /\ drain' = [pc |-> "sending", chunk |-> SubSeq(q, 1, n)]
         /\ UNCHANGED <<queue, backingOff>>

\* The head of the loop of drain(): take and send a chunk of q, or finish.
NextChunk(q) ==
    \/ /\ q = <<>>
       /\ queue' = q /\ backingOff' = FALSE
       /\ drain' = [pc |-> "settling", chunk |-> <<>>]
    \/ \E n \in 1 .. Len(q) :
         /\ TakesChunk(q, n, MaxRequestBytes)
         /\ drain' = [pc |-> "sending", chunk |-> SubSeq(q, 1, n)]
         /\ queue' = SubSeq(q, n + 1, Len(q))
         /\ UNCHANGED backingOff

\* resolveToken() settled (a rejection counts as "no token").
TokenResolved ==
    /\ drain.pc = "token"
    /\ NextChunk(queue)
    /\ UNCHANGED <<recent, timerOn, unloads, now, history, fate, pageHides>>

\* send() returned 'sent' or 'dropped': the chunk is settled, go on.
ChunkSettled(outcome) ==
    /\ drain.pc = "sending"
    /\ Transport # "fetch" => outcome = "dropped"
    /\ fate' = WithFate(Ids(drain.chunk), outcome)
    /\ NextChunk(queue)
    /\ UNCHANGED <<recent, timerOn, unloads, now, history, pageHides>>

\* Mutant: does not start backing off.
ChunkFailedSilently ==
    /\ drain.pc = "sending" /\ Transport = "fetch"
    /\ Requeue(drain.chunk)
    /\ drain' = [pc |-> "settling", chunk |-> <<>>]
    /\ UNCHANGED <<recent, timerOn, backingOff, unloads, now, history, pageHides>>

\* send() returned 'retry' (429, 5xx, network error, 4 s timeout).
ChunkFailed ==
    /\ drain.pc = "sending" /\ Transport = "fetch"
    /\ Requeue(drain.chunk)
    /\ backingOff' = TRUE
    /\ drain' = [pc |-> "settling", chunk |-> <<>>]
    /\ UNCHANGED <<recent, timerOn, unloads, now, history, pageHides>>

\* .finally(() => { this.inFlight = undefined })
InFlightCleared ==
    /\ drain.pc = "settling"
    /\ drain' = [pc |-> "idle", chunk |-> <<>>]
    /\ UNCHANGED <<queue, recent, timerOn, backingOff, unloads, now, history, fate, pageHides>>

-----------------------------------------------------------------------------
\* flushOnUnload: the whole queue leaves in keepalive-sized chunks in one
\* synchronous loop.  A cut is the set of positions where a chunk ends.
Chunks(cut) == {p \in ({0} \cup cut) \X cut :
                  p[1] < p[2] /\ \A c \in cut : ~(p[1] < c /\ c < p[2])}

IsUnloadCut(cut) ==
    /\ Len(queue) \in cut
    /\ \A p \in Chunks(cut) :
         TakesChunk(SubSeq(queue, p[1] + 1, Len(queue)), p[2] - p[1], UnloadChunkBytes)

FlushOnUnload ==
    /\ pageHides < MaxPageHides /\ pageHides' = pageHides + 1
    /\ queue # <<>>
    /\ \E cut \in SUBSET (1 .. Len(queue)) :
         /\ IsUnloadCut(cut)
         /\ unloads' = IF Transport = "fetch"
                       THEN unloads \cup {SubSeq(queue, p[1] + 1, p[2]) : p \in Chunks(cut)}
                       ELSE unloads
    /\ fate' = CASE Transport = "fetch"  -> fate
                 [] Transport = "beacon" -> WithFate(Ids(queue), "beacon")
                 [] OTHER                -> WithFate(Ids(queue), "dropped")
    /\ queue' = <<>>
    /\ UNCHANGED <<recent, timerOn, drain, backingOff, now, history>>

\* The answer to a keepalive request: 2xx, or a final refusal.
UnloadSettled(chunk, outcome) ==
    /\ unloads' = unloads \ {chunk}
    /\ fate' = WithFate(Ids(chunk), outcome)
    /\ UNCHANGED <<queue, recent, timerOn, drain, backingOff, now, history, pageHides>>

\* 429, 5xx or a network error: requeued; backingOff is left alone.
UnloadFailed(chunk) ==
    /\ unloads' = unloads \ {chunk}
    /\ Requeue(chunk)
    /\ UNCHANGED <<recent, timerOn, drain, backingOff, now, history, pageHides>>

ClockMoves ==
    /\ now' \in {now + d : d \in ClockSteps} \cap (0 .. MaxNow)
    /\ UNCHANGED <<queue, recent, timerOn, drain, backingOff, unloads, history, fate, pageHides>>

Next ==
    \/ Start \/ Dispose
    \/ \E sig \in Sigs, bytes \in EventBytes : Enqueue(sig, bytes)
    \/ FlushCall
    \/ Tick
    \/ TokenResolved
    \/ \E outcome \in {"sent", "dropped"} : ChunkSettled(outcome)
    \/ ChunkFailed
    \/ InFlightCleared
    \/ FlushOnUnload
    \/ \E chunk \in unloads : \/ \E outcome \in {"sent", "dropped"} : UnloadSettled(chunk, outcome)
                              \/ UnloadFailed(chunk)
    \/ ClockMoves

Spec == Init /\ [][Next]_vars

\* The environment of the liveness properties: promises settle, requests are
\* answered or time out, the interval fires, and a request attempted again and
\* again is one day answered for good.
Fairness ==
    /\ WF_vars(Tick) /\ WF_vars(TokenResolved) /\ WF_vars(InFlightCleared)
    /\ WF_vars(ChunkFailed \/ \E outcome \in {"sent", "dropped"} : ChunkSettled(outcome))
    /\ SF_vars(\E outcome \in {"sent", "dropped"} : ChunkSettled(outcome))
    /\ WF_vars(\E chunk \in unloads :
                  \/ UnloadFailed(chunk)
                  \/ \E outcome \in {"sent", "dropped"} : UnloadSettled(chunk, outcome))

FairSpec == Spec /\ Fairness

-----------------------------------------------------------------------------
\* Where the accepted events are.

AllIds(chunks) == UNION {Ids(chunk) : chunk \in chunks}

Pending == Ids(queue) \cup Ids(drain.chunk) \cup AllIds(unloads)

Distinct(s) == \A i, j \in DOMAIN s : i # j => s[i].id # s[j].id

\* Every accepted event is in exactly one place: the queue, the chunk of the
\* running drain, one keepalive request, or settled.  Requeueing, trimming and
\* the two kinds of flush neither lose an event nor send it twice.
EachEventInOnePlace ==
    /\ Pending \cup DOMAIN fate = 1 .. Len(history)
    /\ Pending \cap DOMAIN fate = {}
    /\ \A s \in {queue, drain.chunk} \cup unloads : Distinct(s)
    /\ Ids(queue) \cap Ids(drain.chunk) = {}
    /\ \A c \in unloads : Ids(c) \cap (Ids(queue) \cup Ids(drain.chunk)) = {}
    /\ \A c, d \in unloads : c # d => Ids(c) \cap Ids(d) = {}

FitsRequest(chunk, maxBytes) ==
    /\ Len(chunk) <= MaxBatch
    /\ Len(chunk) > 1 => BodyBytes(chunk) <= maxBytes

\* However events return to the queue, it stays within maxQueue, the signatures
\* remembered stay within DEDUPE_MAX_ENTRIES, and every request carries at most
\* maxBatch events and, unless it carries just one, respects its byte budget.
WithinLimits ==
    /\ Len(queue) <= MaxQueue
    /\ Cardinality(DOMAIN recent) <= DedupeMaxEntries
    /\ FitsRequest(drain.chunk, MaxRequestBytes)
    /\ \A chunk \in unloads : FitsRequest(chunk, UnloadChunkBytes)

\* Without keepalive requests, delivery is first in, first out across retries:
\* what the drain holds is older than what is queued, in order of acceptance.
InOrder ==
    LET s == drain.chunk \o queue
    IN  \A i, j \in DOMAIN s : i < j => s[i].id < s[j].id

\* Without keepalive requests, trimQueue drops the oldest: an evicted event is
\* older than every event that stays in the queue.
EvictsOldest ==
    [][\A lost \in DOMAIN fate' \ DOMAIN fate, kept \in Ids(queue') :
          fate'[lost] = "evicted" => lost < kept]_vars

\* An event whose signature was seen less than DedupeWindow ago is accepted only
\* if at least DedupeMaxEntries other signatures were accepted in between.
ForgetsOnlyUnderFlood ==
    \A i, j \in DOMAIN history :
       (/\ i < j /\ history[i].sig = history[j].sig
        /\ history[j].at - history[i].at < DedupeWindow)
       => Cardinality({history[k].sig : k \in i + 1 .. j - 1}) >= DedupeMaxEntries

\* An accepted event is pending until it has one final fate, wherever it is, and
\* is evicted only while MaxQueue others stay pending.
Mailbox == INSTANCE LossyMailbox WITH Capacity <- MaxQueue, pending <- Pending, fate <- fate
ImplementsMailbox == Mailbox!Spec

\* The promise of the README of the client: while the interval runs, every
\* accepted event is in the end delivered, refused or evicted.
EveryEventSettles ==
    \A id \in 1 .. MaxEvents :
       (<>[]timerOn /\ <>(id <= Len(history))) => <>(id \in DOMAIN fate)
=============================================================================
