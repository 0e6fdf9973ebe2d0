----------------------------- MODULE RateLimiter -----------------------------
(***************************************************************************)
(* The per-client rate limit of the ingest endpoint: _rate_limited in      *)
(* gateway/src/obs_gateway/ingest.py.  It runs without an await, so one    *)
(* call is one action.                                                     *)
(***************************************************************************)
EXTENDS Integers, Sequences, FiniteSets, Functions

CONSTANTS
    Clients,            \* client addresses, as _client_ip returns them
    Limit,              \* settings.rate_limit_per_min
    Window,             \* RATE_WINDOW_SECONDS
    MaxTrackedKeys,     \* MAX_TRACKED_KEYS
    MaxNow,             \* bound on the clock
    MaxLog              \* bound on the admitted requests of a client

ASSUME LimiterAssumption ==
    /\ IsFiniteSet(Clients)
    /\ {Limit, Window, MaxTrackedKeys, MaxNow, MaxLog} \subseteq Nat

VARIABLES
    hits,       \* _hits: client -> times of its admitted requests, oldest first
    now,        \* time.monotonic()
    log,        \* history: per client, all the times it was admitted
    verdict,    \* the last decision: the client, and whether it was admitted
    calledAt    \* history: the time of the last call

limiterVars == <<hits, now, log, verdict, calledAt>>

LimiterTypeOK ==
    /\ DOMAIN hits \subseteq Clients /\ \A c \in DOMAIN hits : hits[c] \in Seq(Nat)
    /\ now \in Nat
    /\ log \in [Clients -> Seq(Nat)]
    /\ verdict \in Clients \X BOOLEAN
    /\ calledAt \in Nat

\* A window the prune keeps: its newest entry has not expired.
Live(w) == w # <<>> /\ now - w[Len(w)] <= Window

\* Mutant: looks at the oldest entry instead of the newest.
KeptByOldest ==
    IF Cardinality(DOMAIN hits) > MaxTrackedKeys
    THEN Restrict(hits, {c \in DOMAIN hits : hits[c] # <<>> /\ now - hits[c][1] <= Window})
    ELSE hits

\* Mutant: prunes only while the table is within the limit.
KeptUnderLimit ==
    IF Cardinality(DOMAIN hits) <= MaxTrackedKeys
    THEN Restrict(hits, {c \in DOMAIN hits : Live(hits[c])})
    ELSE hits

\* The table after the prune that runs above MaxTrackedKeys keys.
Kept ==
    IF Cardinality(DOMAIN hits) > MaxTrackedKeys
    THEN Restrict(hits, {c \in DOMAIN hits : Live(hits[c])})
    ELSE hits

\* The popleft loop stops at the first entry that has not expired.
FirstInWindow(w) ==
    CHOOSE i \in 1 .. Len(w) + 1 :
        /\ \A j \in 1 .. i - 1 : now - w[j] > Window
        /\ i <= Len(w) => now - w[i] <= Window

Popped(w) == SubSeq(w, FirstInWindow(w), Len(w))

\* _hits.setdefault(client, deque()), then the popleft loop.
WindowOf(client) == IF client \in DOMAIN Kept THEN Popped(Kept[client]) ELSE <<>>

LimiterInit ==
    /\ hits = [c \in {} |-> <<>>] /\ now = 0
    /\ log = [c \in Clients |-> <<>>]
    /\ verdict \in {<<c, TRUE>> : c \in Clients}
    /\ calledAt = 0

\* Mutant: admits one request too many.
RateLimitedLate(client) ==
    LET w == WindowOf(client)
        admitted == Len(w) <= Limit
    IN  /\ hits' = [c \in DOMAIN Kept \cup {client} |->
                       IF c # client THEN Kept[c] ELSE IF admitted THEN Append(w, now) ELSE w]
        /\ log' = IF admitted THEN [log EXCEPT ![client] = Append(@, now)] ELSE log
        /\ verdict' = <<client, admitted>>
        /\ calledAt' = now /\ UNCHANGED now

\* One call; verdict' says whether the request goes on or is answered 429.
RateLimited(client) ==
    LET w == WindowOf(client)
        admitted == Len(w) < Limit
    IN  /\ hits' = [c \in DOMAIN Kept \cup {client} |->
                       IF c # client THEN Kept[c] ELSE IF admitted THEN Append(w, now) ELSE w]
        /\ log' = IF admitted THEN [log EXCEPT ![client] = Append(@, now)] ELSE log
        /\ verdict' = <<client, admitted>>
        /\ calledAt' = now /\ UNCHANGED now

LimiterTick ==
    /\ now < MaxNow /\ now' = now + 1
    /\ UNCHANGED <<hits, log, verdict, calledAt>>

LimiterNext ==
    \/ LimiterTick
    \/ \E client \in Clients : Len(log[client]) < MaxLog /\ RateLimited(client)

LimiterSpec == LimiterInit /\ [][LimiterNext]_limiterVars

-----------------------------------------------------------------------------
\* Popping, pruning and re-creating the windows forgets nothing that matters:
\* every decision is the one an unbounded log would give.
Promise == INSTANCE SlidingWindowLog
ImplementsSlidingWindow == Promise!Spec

\* No span of Window seconds holds more than Limit admitted requests of a client.
NeverOverLimit ==
    \A c \in Clients : \A i, j \in DOMAIN log[c] :
        j - i >= Limit => log[c][j] - log[c][i] > Window

\* The table outgrows MaxTrackedKeys + 1 only with clients that were admitted
\* within Window of the last call.
OutgrownOnlyByLiveClients ==
    Cardinality(DOMAIN hits) > MaxTrackedKeys + 1 =>
        \A c \in DOMAIN hits \ {verdict[1]} :
            \E i \in DOMAIN log[c] : calledAt - log[c][i] <= Window
=============================================================================
