------------------------------ MODULE Lifecycle ------------------------------
(***************************************************************************)
(* The gateway process from start to stop: the body limit and the shutdown *)
(* sequence of gateway/src/obs_gateway/main.py, around the emitter, the    *)
(* stack monitor and the fallback log.  Of the ingest handler it keeps     *)
(* whose request it is, and where an accepted event goes; the rest is in   *)
(* Gateway.                                                                *)
(*                                                                         *)
(* External, modelled from how the code uses them: uvicorn, which on       *)
(* SIGTERM finishes the running requests before the lifespan goes on; the  *)
(* OpenTelemetry batch processor, which holds emitted records until it     *)
(* exports them; the death of the process without any of that.             *)
(***************************************************************************)
EXTENDS StackMonitor, Emitter, Integers

CONSTANTS
    Clients,        \* addresses of callers
    Proxy,          \* the address of the trusted proxies
    Hops,           \* settings.trusted_proxy_hops
    Forgeries,      \* what a caller may send as X-Forwarded-For
    BodyLimit,      \* settings.max_request_bytes
    Sizes,          \* sizes of request bodies
    Collector       \* the component that settings.otel_endpoint names, by default a trigger

ASSUME LifecycleAssumption ==
    /\ Hops \in Nat /\ BodyLimit \in Nat /\ Sizes \subseteq Nat
    /\ Forgeries \subseteq Seq(STRING)
    /\ Collector \in Targets \cap Triggers

VARIABLES
    phase,      \* how far the process is from being stopped
    requests,   \* per client its last request
    events,     \* history: the accepted events, across restarts
    checkSawUp, \* history: the collector was up since the last check began
    unseen      \* history: it was up since the last finished check began

lifeVars == <<stackVars, emitterVars, phase, requests, events, checkSawUp, unseen>>

Fates == {"buffered", "exported", "lost", "crashed", "failed", "stdout"}

LifecycleTypeOK ==
    /\ phase \in {"up", "draining", "closing", "flushed", "stopped"}
    /\ requests \in [Clients -> [pc : {"none", "reading", "answered"}, ip : Clients \cup {Proxy},
                                 size : Nat, received : Nat, code : Nat]]
    /\ events \in Seq([fate : Fates, excused : BOOLEAN])
    /\ checkSawUp \in BOOLEAN /\ unseen \in BOOLEAN

\* The socket peer and the header of a client's request that came through all
\* the trusted proxies: each appends the address it received from.
Peer(c) == IF Hops = 0 THEN c ELSE Proxy

Forwarded(c, forged) ==
    IF Hops = 0 THEN forged ELSE forged \o <<c>> \o [i \in 1 .. Hops - 1 |-> Proxy]

\* Mutant: trusts the first address of the header.
ClientIpFirst(peer, forwarded) ==
    IF Hops = 0 \/ forwarded = <<>> THEN peer ELSE forwarded[1]

\* _client_ip
ClientIp(peer, forwarded) ==
    CASE Hops = 0 \/ forwarded = <<>> -> peer
      [] Hops > 0 /\ forwarded # <<>> ->
            IF Len(forwarded) >= Hops THEN forwarded[Len(forwarded) - Hops + 1] ELSE forwarded[1]

Answered(c, code) == [requests[c] EXCEPT !.pc = "answered", !.received = 0, !.code = code]

Running == phase \in {"up", "draining"}

EmitterEnds == IF loggers = {} THEN UNCHANGED emitterVars ELSE Shutdown

\* The buffered events leave the process.
Leave(fate) ==
    events' = [i \in DOMAIN events |->
                 IF events[i].fate = "buffered" THEN [events[i] EXCEPT !.fate = fate]
                 ELSE events[i]]

ExportOutcome == IF up[Collector] THEN "exported" ELSE "lost"

-----------------------------------------------------------------------------
LifecycleInit ==
    /\ StackInit /\ EmitterInit
    /\ phase = "up"
    /\ requests = [c \in Clients |-> [pc |-> "none", ip |-> c, size |-> 0, received |-> 0, code |-> 0]]
    /\ events = <<>>
    /\ checkSawUp = up[Collector] /\ unseen = TRUE

\* A request to the ingest endpoint.  A Content-Length over the limit is refused
\* before anything is read; a chunked body has none.
Arrive(c, size, chunked, forged) ==
    /\ phase = "up" /\ requests[c].pc # "reading"
    /\ LET refused == ~chunked /\ size > BodyLimit IN
       requests' = [requests EXCEPT ![c] =
           [pc |-> IF refused THEN "answered" ELSE "reading",
            ip |-> ClientIp(Peer(c), Forwarded(c, forged)),
            size |-> size, received |-> 0, code |-> IF refused THEN 413 ELSE 0]]
    /\ UNCHANGED <<stackVars, emitterVars, phase, events, checkSawUp, unseen>>

\* Mutant: compares each message, not their sum, with the limit.
ReceiveAlone(c, n) ==
    /\ requests[c].pc = "reading" /\ n <= requests[c].size - requests[c].received
    /\ LET received == requests[c].received + n IN
       requests' = [requests EXCEPT ![c] =
           IF n > BodyLimit THEN Answered(c, 413)
           ELSE [@ EXCEPT !.received = received]]
    /\ UNCHANGED <<stackVars, emitterVars, phase, events, checkSawUp, unseen>>

\* limited_receive: n more bytes of the body.
Receive(c, n) ==
    /\ requests[c].pc = "reading" /\ n <= requests[c].size - requests[c].received
    /\ LET received == requests[c].received + n IN
       requests' = [requests EXCEPT ![c] =
           IF received > BodyLimit THEN Answered(c, 413)
           ELSE [@ EXCEPT !.received = received]]
    /\ UNCHANGED <<stackVars, emitterVars, phase, events, checkSawUp, unseen>>

\* The client goes away before its body is complete: answered 400, to nobody.
Disconnect(c) ==
    /\ requests[c].pc = "reading" /\ requests[c].received < requests[c].size
    /\ requests' = [requests EXCEPT ![c] = Answered(c, 400)]
    /\ UNCHANGED <<stackVars, emitterVars, phase, events, checkSawUp, unseen>>

Complete(c) == requests[c].pc = "reading" /\ requests[c].received = requests[c].size

\* An invalid batch, or one over the rate limit, leaves nothing behind.
Refuse(c) ==
    /\ Complete(c)
    /\ \E code \in {422, 429} : requests' = [requests EXCEPT ![c] = Answered(c, code)]
    /\ UNCHANGED <<stackVars, emitterVars, phase, events, checkSawUp, unseen>>

\* An accepted batch with one event of the app.
Accept(c, app) ==
    /\ Complete(c) /\ Len(events) < MaxRecords
    /\ requests' = [requests EXCEPT ![c] = Answered(c, 204)]
    /\ Emit(app)
    /\ LET service == records'[Len(records')].service IN
       events' = Append(events, [fate |-> IF service \in Services THEN "buffered" ELSE service,
                                 excused |-> unseen \/ ~Handler("events")])
    /\ IF FallbackActive THEN WriteEvent(Len(events')) ELSE UNCHANGED fallbackVars
    /\ UNCHANGED <<monitorVars, phase, checkSawUp, unseen>>

\* The batch processor's thread hands a record to the collector, or gives up.
Export(i) ==
    /\ phase \notin {"stopped", "flushed"}
    /\ events[i].fate = "buffered"
    /\ events' = [events EXCEPT ![i].fate = ExportOutcome]
    /\ UNCHANGED <<stackVars, emitterVars, phase, requests, checkSawUp, unseen>>

-----------------------------------------------------------------------------
\* The monitor's task, until it is cancelled.
MonitorRuns ==
    /\ Running
    /\ \/ \E c \in Targets : ProbeReturns(c) /\ UNCHANGED <<checkSawUp, unseen>>
       \/ CheckEnds /\ unseen' = checkSawUp /\ UNCHANGED checkSawUp
       \/ SleepEnds /\ checkSawUp' = up[Collector] /\ UNCHANGED unseen
    /\ UNCHANGED <<emitterVars, phase, requests, events>>

\* A watched component, perhaps the collector, goes down or comes back.
ComponentsChange ==
    /\ \E c \in Targets : ComponentChanges(c)
    /\ checkSawUp' = (checkSawUp \/ up'[Collector])
    /\ unseen' = (unseen \/ up'[Collector])
    /\ UNCHANGED <<emitterVars, phase, requests, events>>

\* SIGTERM: uvicorn accepts no more requests.
Sigterm ==
    /\ phase = "up" /\ phase' = "draining"
    /\ UNCHANGED <<stackVars, emitterVars, requests, events, checkSawUp, unseen>>

\* Mutant: does not wait for the requests that are still being read.
DrainedAtOnce ==
    /\ phase = "draining"
    /\ phase' = "closing"
    /\ UNCHANGED <<stackVars, emitterVars, requests, events, checkSawUp, unseen>>

\* The running requests are answered; lifespan goes on after its yield and
\* awaits the cancelled monitor.
Drained ==
    /\ phase = "draining" /\ \A c \in Clients : requests[c].pc # "reading"
    /\ phase' = "closing"
    /\ UNCHANGED <<stackVars, emitterVars, requests, events, checkSawUp, unseen>>

\* emitter.shutdown(): what is buffered is exported now or never.
Flush ==
    /\ phase = "closing" /\ phase' = "flushed"
    /\ EmitterEnds /\ Leave(ExportOutcome)
    /\ UNCHANGED <<stackVars, requests, checkSawUp, unseen>>

\* fallback_log.close(), and the process exits.
Close ==
    /\ phase = "flushed" /\ phase' = "stopped"
    /\ FallbackEnds
    /\ UNCHANGED <<monitorVars, emitterVars, requests, events, checkSawUp, unseen>>

\* The process dies in the middle of anything.
Crash ==
    /\ phase # "stopped" /\ phase' = "stopped"
    /\ FallbackEnds /\ EmitterEnds /\ Leave("crashed")
    /\ requests' = [c \in Clients |-> IF requests[c].pc = "reading"
                                      THEN [requests[c] EXCEPT !.pc = "none"] ELSE requests[c]]
    /\ UNCHANGED <<monitorVars, checkSawUp, unseen>>

\* A new process; its monitor knows nothing yet.
Start ==
    /\ phase = "stopped" /\ phase' = "up"
    /\ MonitorRestarts
    /\ checkSawUp' = up[Collector] /\ unseen' = TRUE
    /\ UNCHANGED <<fallbackVars, emitterVars, requests, events>>

LifecycleNext ==
    \/ \E c \in Clients :
         \/ \E size \in Sizes, chunked \in BOOLEAN, forged \in Forgeries :
               Arrive(c, size, chunked, forged)
         \/ \E n \in 1 .. requests[c].size : Receive(c, n)
         \/ Disconnect(c) \/ Refuse(c)
         \/ \E app \in Services : Accept(c, app)
    \/ \E i \in DOMAIN events : Export(i)
    \/ MonitorRuns \/ ComponentsChange
    \/ Sigterm \/ Drained \/ Flush \/ Close
    \/ Crash \/ Start

LifecycleSpec == LifecycleInit /\ [][LifecycleNext]_lifeVars

-----------------------------------------------------------------------------
\* A body is answered 413 exactly when it is over the limit, whether its length
\* was declared or it was counted while it came in pieces.
RefusedIffTooLarge ==
    \A c \in Clients :
        requests[c].pc = "answered" /\ requests[c].code # 400 =>
            (requests[c].code = 413 <=> requests[c].size > BodyLimit)

\* A request that came through the trusted proxies is charged to the address
\* its first trusted proxy saw, whatever X-Forwarded-For it was sent with.
ChargedToItsSender ==
    \A c \in Clients : requests[c].pc # "none" => requests[c].ip = c

\* An accepted event that the collector did not take is in events.jsonl, unless
\* the file could not be opened, or the collector was up at some moment since
\* the last finished check began: the gap is never longer than one check and
\* the sleep before it.
NoSilentLoss ==
    \A i \in DOMAIN events :
        events[i].fate = "lost" => events[i].excused \/ i \in Range(files["events"])

\* A process that was stopped leaves nothing behind: no event still buffered,
\* no provider, no open file (docs/REQUIREMENTS.md, NFR-4: buffered telemetry
\* is flushed on graceful shutdown).
StopsClean ==
    phase = "stopped" =>
        /\ \A i \in DOMAIN events : events[i].fate # "buffered"
        /\ loggers = {} /\ openFiles = {}
=============================================================================
