------------------------------- MODULE Emitter -------------------------------
(***************************************************************************)
(* The OTLP emitter, one LoggerProvider per app: Emitter in                *)
(* gateway/src/obs_gateway/emit.py.  An app is the service name            *)
(* frontend/<app> it asks for; an event without an app asks for            *)
(* FallbackService.  What a provider does with a record (the OpenTelemetry *)
(* batch processor) is not modelled here.                                  *)
(***************************************************************************)
EXTENDS Naturals, Sequences, FiniteSets

CONSTANTS
    Apps,               \* service names of apps, all but FallbackService
    FallbackService,    \* FALLBACK_SERVICE
    MaxAppServices,     \* MAX_APP_SERVICES
    Endpoint,           \* settings.otel_endpoint is set
    MaxRecords          \* bound on the emitted records

ASSUME EmitterAssumption ==
    /\ FallbackService \notin Apps
    /\ {"failed", "stdout"} \cap (Apps \cup {FallbackService}) = {}
    /\ {MaxAppServices, MaxRecords} \subseteq Nat
    /\ Endpoint \in BOOLEAN

VARIABLES
    loggers,    \* the keys of _loggers (and of _providers)
    records,    \* history: the records emitted since the start or shutdown
    wasFull     \* history: loggers had MaxAppServices keys at some point

emitterVars == <<loggers, records, wasFull>>

Services == Apps \cup {FallbackService}

\* A record that could not be emitted has no service; one written to stdout
\* because there is no collector has the service "stdout".
Outcomes == Services \cup {"failed", "stdout"}

EmitterTypeOK ==
    /\ loggers \subseteq Services
    /\ records \in Seq([app : Services, service : Outcomes])
    /\ wasFull \in BOOLEAN

\* Mutant: no limit on the number of providers.
LoggerForUnlimited(app) == app

\* Mutant: a full table sends every app to the fallback service.
LoggerForWhenFull(app) ==
    IF Cardinality(loggers) >= MaxAppServices THEN FallbackService ELSE app

\* The service _logger_for(app) logs as.
LoggerFor(app) ==
    IF app \notin loggers /\ Cardinality(loggers) >= MaxAppServices
    THEN FallbackService ELSE app

EmitterInit == loggers = {} /\ records = <<>> /\ wasFull = FALSE

\* Emitter.emit.  Building the provider of a new service, or handing it the
\* record, may raise; emit catches that and the record is lost.
Emit(app) ==
    \E service \in IF Endpoint THEN {LoggerFor(app), "failed"} ELSE {"stdout"},
       registered \in BOOLEAN :
        /\ service \in Services => registered
        /\ service = "stdout" => ~registered
        /\ loggers' = IF registered THEN loggers \cup {LoggerFor(app)} ELSE loggers
        /\ records' = Append(records, [app |-> app, service |-> service])
        /\ wasFull' = (wasFull \/ Cardinality(loggers') >= MaxAppServices)

\* Emitter.shutdown: every provider is flushed and forgotten.
Shutdown ==
    /\ loggers # {}
    /\ loggers' = {} /\ records' = <<>> /\ wasFull' = FALSE

EmitterNext ==
    \/ \E app \in Services : Len(records) < MaxRecords /\ Emit(app)
    \/ Shutdown

EmitterSpec == EmitterInit /\ [][EmitterNext]_emitterVars

-----------------------------------------------------------------------------
\* There is never more than one provider beyond the limit, and that one is
\* the fallback service's.
ProvidersBounded ==
    /\ Cardinality(loggers) <= MaxAppServices + 1
    /\ Cardinality(loggers \ {FallbackService}) <= MaxAppServices

\* Events are attributed to their own app or, only when the table is full, to
\* the fallback service; an app logged once under its own name stays there.
Attributed ==
    \A j \in DOMAIN records :
        LET r == records[j] IN
        /\ r.service \in Services => r.service \in {r.app, FallbackService} \cap loggers
        /\ (r.service = FallbackService /\ r.app # FallbackService) =>
              /\ wasFull
              /\ \A i \in 1 .. j - 1 : records[i].app = r.app => records[i].service # r.app
=============================================================================
