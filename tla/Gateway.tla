------------------------------- MODULE Gateway -------------------------------
(***************************************************************************)
(* The ingest endpoint of the gateway (ingest in                           *)
(* gateway/src/obs_gateway/ingest.py) with everything it calls: the rate   *)
(* limiter, the deduplication, the emitter, and the fallback log steered   *)
(* by the stack monitor.                                                   *)
(*                                                                         *)
(* The handler has no await, so nothing else of the gateway runs while it  *)
(* works through a batch; it takes one event per action, because time      *)
(* passes and the world changes in between.                                *)
(***************************************************************************)
EXTENDS StackMonitor, Integers

CONSTANTS
    Clients, Limit, Window, MaxTrackedKeys, MaxNow, MaxLog,         \* RateLimiter
    DedupeWindow, MaxCalls,                                         \* Deduper
    Apps, FallbackService, MaxAppServices, Endpoint, MaxRecords,    \* Emitter
    Users,          \* company|user of a valid token
    Bodies,         \* what distinguishes two events of one sender
    MaxBatchEvents  \* settings.max_batch_events

ASSUME GatewayAssumption ==
    {Limit, Window, MaxTrackedKeys, MaxNow, MaxLog, DedupeWindow, MaxCalls,
     MaxRecords, MaxBatchEvents} \subseteq Nat

VARIABLES
    now,
    hits, log, verdict, calledAt,   \* RateLimiter
    recent, calls,                  \* Deduper
    loggers, records, wasFull,      \* Emitter
    batch,      \* the request being handled: its sender and its remaining events
    seen        \* history, per handled event: the state of the fallback

\* Users are those whose tokens name a company and a user without '|': others can
\* share a digest, as all tokens without either claim do.
Signatures == (Clients \cup Users) \X Bodies

Limiter == INSTANCE RateLimiter
Dedupe == INSTANCE Deduper
Emitting == INSTANCE Emitter

limiterState == <<hits, log, verdict, calledAt>>
dedupeState == <<recent, calls>>
emitterState == <<loggers, records, wasFull>>
gatewayVars == <<stackVars, now, limiterState, dedupeState, emitterState, batch, seen>>

Event == [body : Bodies, app : Emitting!Services]

Batches == UNION {[1 .. n -> Event] : n \in 0 .. MaxBatchEvents}

GatewayTypeOK ==
    /\ batch.who \in Clients \cup Users
    /\ \A i \in DOMAIN batch.events : batch.events[i] \in Event
    /\ \A i \in DOMAIN calls : calls[i].sig \in Signatures
    /\ seen \in Seq([active : BOOLEAN, writable : BOOLEAN])
    /\ \A i \in DOMAIN files["events"] : files["events"][i] \in 1 .. Len(seen)

Idle == batch.events = <<>>

GatewayInit ==
    /\ StackInit
    /\ Limiter!LimiterInit /\ Dedupe!DeduperInit /\ Emitting!EmitterInit
    /\ batch \in [who : Clients \cup Users, events : {<<>>}]
    /\ seen = <<>>

\* Mutant: remembers the signatures of a batch that is refused.
ReceiveRemembers(ip, user, events) ==
    /\ Idle
    /\ Limiter!RateLimited(ip)
    /\ batch' = [who |-> user, events |-> IF verdict'[2] THEN events ELSE <<>>]
    /\ recent' = IF verdict'[2] THEN recent
                 ELSE [s \in DOMAIN recent \cup {<<user, events[i].body>> : i \in DOMAIN events}
                         |-> now]
    /\ UNCHANGED <<stackVars, calls, emitterState, seen>>

\* A validated request.  `user` is the sender a valid token names, or the
\* client address when there is none.  A refused batch is answered 429 at once.
Receive(ip, user, events) ==
    /\ Idle
    /\ Limiter!RateLimited(ip)
    /\ batch' = [who |-> user, events |-> IF verdict'[2] THEN events ELSE <<>>]
    /\ UNCHANGED <<stackVars, dedupeState, emitterState, seen>>

\* Mutant: the fallback copy is written before the deduplication.
HandleEventCopyFirst ==
    /\ ~Idle
    /\ LET event == Head(batch.events) IN
         /\ Dedupe!IsDuplicate(<<batch.who, event.body>>)
         /\ IF calls'[Len(calls')].duplicate
            THEN UNCHANGED emitterState
            ELSE Emitting!Emit(event.app)
         /\ IF FallbackActive THEN WriteEvent(Len(calls')) ELSE UNCHANGED fallbackVars
    /\ seen' = Append(seen, [active |-> FallbackActive, writable |-> Handler("events")])
    /\ batch' = [batch EXCEPT !.events = Tail(@)]
    /\ UNCHANGED <<monitorVars, limiterState>>

\* One turn of the loop: a duplicate is skipped; any other event is emitted
\* and, while the fallback is active, copied to events.jsonl.
HandleEvent ==
    /\ ~Idle
    /\ LET event == Head(batch.events) IN
         /\ Dedupe!IsDuplicate(<<batch.who, event.body>>)
         /\ IF calls'[Len(calls')].duplicate
            THEN UNCHANGED <<emitterState, fallbackVars>>
            ELSE /\ Emitting!Emit(event.app)
                 /\ IF FallbackActive THEN WriteEvent(Len(calls')) ELSE UNCHANGED fallbackVars
    /\ seen' = Append(seen, [active |-> FallbackActive, writable |-> Handler("events")])
    /\ batch' = [batch EXCEPT !.events = Tail(@)]
    /\ UNCHANGED <<monitorVars, limiterState>>

Tick ==
    /\ now < MaxNow /\ now' = now + 1
    /\ UNCHANGED <<stackVars, limiterState, dedupeState, emitterState, batch, seen>>

\* The monitor runs between requests; the world does not wait.
Monitor ==
    /\ \/ \E c \in Targets : ComponentChanges(c) \/ ProbeReturns(c)
       \/ Idle /\ (CheckEnds \/ SleepEnds)
       \/ DirChanges /\ UNCHANGED monitorVars
    /\ UNCHANGED <<now, limiterState, dedupeState, emitterState, batch, seen>>

GatewayNext ==
    \/ \E ip \in Clients, events \in Batches : \E user \in Users \cup {ip} :
          /\ Len(calls) + Len(events) <= MaxCalls /\ Len(log[ip]) < MaxLog
          /\ Receive(ip, user, events)
    \/ HandleEvent
    \/ Tick
    \/ Monitor

GatewaySpec == GatewayInit /\ [][GatewayNext]_gatewayVars

-----------------------------------------------------------------------------
\* An event is suppressed only if the same sender's same event was accepted
\* before: a batch refused with 429 leaves no trace that would suppress its
\* retry, and two senders never suppress each other.
DuplicateHasOriginal ==
    \A j \in DOMAIN calls : calls[j].duplicate =>
        \E i \in 1 .. j - 1 : calls[i].sig = calls[j].sig /\ ~calls[i].duplicate

\* events.jsonl holds, in order and once each, exactly the accepted events
\* that were handled while the fallback was active and the file could be opened.
EventsLogExact ==
    LET Copied(i) == seen[i].active /\ seen[i].writable /\ ~calls[i].duplicate
    IN  Ascending(files["events"], {i \in DOMAIN seen : Copied(i)})

=============================================================================
