--------------------------- MODULE ClientContract ---------------------------
(***************************************************************************)
(* What the callers of the client can observe over time: TelemetryClient   *)
(* with a history variable that only records its steps.                    *)
(***************************************************************************)
EXTENDS TelemetryClient

VARIABLE
    failed      \* a retryable failure, and no interval tick or drained queue since

contractVars == <<queue, recent, timerOn, drain, backingOff, unloads, now, history,
                  fate, pageHides, failed>>

ContractInit == Init /\ failed = FALSE

\* drain() ended with an empty queue after sending, which ends backing off.
Drained == drain.pc \in {"token", "sending"} /\ drain'.pc = "settling" /\ ~backingOff'

\* A chunk went back to the queue.
Requeued == ChunkFailed \/ \E chunk \in unloads : UnloadFailed(chunk)

ContractNext ==
    /\ Next
    /\ failed' = (Requeued \/ (failed /\ ~Tick /\ ~Drained))

ContractSpec == ContractInit /\ [][ContractNext]_contractVars

-----------------------------------------------------------------------------
\* backingOff: "Set after a retryable failure: suppresses eager flushes until
\* the next timer tick" - after a failure no enqueue() starts a drain.
NoEagerFlushAfterFailure ==
    [][failed /\ history' # history => drain' = drain]_contractVars

=============================================================================
