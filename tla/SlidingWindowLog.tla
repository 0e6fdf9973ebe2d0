--------------------------- MODULE SlidingWindowLog ---------------------------
(***************************************************************************)
(* What the rate limit of the ingest endpoint promises                     *)
(* (docs/REQUIREMENTS.md, FR-4.2), with nothing forgotten: the whole log   *)
(* of admitted requests decides, a request being admitted exactly when     *)
(* fewer than Limit requests of its client were admitted in the last       *)
(* Window.                                                                 *)
(***************************************************************************)
EXTENDS Integers, Sequences, FiniteSets

CONSTANTS Clients, Limit, Window

VARIABLES
    now,        \* time.monotonic()
    log,        \* per client, the times of its admitted requests
    verdict     \* the last decision: the client, and whether it was admitted

vars == <<now, log, verdict>>

InWindow(client) == {i \in DOMAIN log[client] : now - log[client][i] <= Window}

Init ==
    /\ now = 0
    /\ log = [client \in Clients |-> <<>>]
    /\ verdict \in {<<client, TRUE>> : client \in Clients}

Admit(client) ==
    /\ Cardinality(InWindow(client)) < Limit
    /\ log' = [log EXCEPT ![client] = Append(@, now)]
    /\ verdict' = <<client, TRUE>>
    /\ UNCHANGED now

Refuse(client) ==
    /\ Cardinality(InWindow(client)) >= Limit
    /\ verdict' = <<client, FALSE>>
    /\ UNCHANGED <<now, log>>

Tick == now' > now /\ UNCHANGED <<log, verdict>>

Next == Tick \/ \E client \in Clients : Admit(client) \/ Refuse(client)

Spec == Init /\ [][Next]_vars
===============================================================================
