------------------------------- MODULE Delivery -------------------------------
(***************************************************************************)
(* From a phone to the gateway's deduplication: FlutterClient posts its    *)
(* chunks, the network loses requests and answers, and Deduper decides     *)
(* which events the gateway stores.  _send() gives up after four seconds   *)
(* but does not cancel its request, so the gateway may still handle one    *)
(* that the client has given up and is about to send again.                *)
(*                                                                         *)
(* The network is external.  So are the other senders, who only fill the   *)
(* gateway's table.  The gateway works through one batch at a time,        *)
(* without an await; a batch it refuses (429, 5xx, 413, 422) leaves        *)
(* nothing behind, so it is a request that was lost, or rejected.          *)
(***************************************************************************)
EXTENDS Deduper, SequencesExt

CONSTANTS
    Sigs, BatchSize, MaxQueue, PruneAbove, Enabled, MaxEvents,   \* FlutterClient
    PhoneWindow,    \* config.dedupeWindow of the phone
    Identities,     \* who the phone's requests may come from: a token's user, an address
    Others,         \* signatures of other senders
    MaxLate,        \* bound on the requests given up and still under way
    MaxRestarts     \* bound on the restarts of the gateway

\* The gateway's digest covers the sender, so no two senders share a signature.
ASSUME DeliveryAssumption ==
    /\ BatchSize \in Nat \ {0} /\ Enabled \in BOOLEAN
    /\ {MaxQueue, PhoneWindow, PruneAbove, MaxEvents, MaxLate, MaxRestarts} \subseteq Nat
    /\ Signatures = (Identities \X Sigs) \cup Others
    /\ Others \cap (Identities \X Sigs) = {}

VARIABLES
    queue, phoneRecent, timerOn, closed, drain, history, fate,   \* FlutterClient
    mine,       \* the request behind drain, in a sequence of at most one
    late,       \* requests the phone has given up
    handled,    \* history: each event of the phone the gateway handled
    restarts    \* restarts of the gateway so far

\* One clock serves both; the gateway's is monotonic, and the phone's reading of
\* it matters only to its own window.
Phone == INSTANCE FlutterClient
            WITH recent <- phoneRecent, DedupeWindow <- PhoneWindow, ClockSteps <- {1}

phoneVars == <<queue, phoneRecent, timerOn, closed, drain, history, fate>>
deliveryVars == <<deduperVars, phoneVars, mine, late, handled, restarts>>

\* A request: who sent it, the events the gateway has not handled yet, and
\* whether it is under way, being handled, done with, or cut off by a restart.
Requests == [who : Identities, left : Seq(1 .. MaxEvents),
             pc : {"travelling", "handling", "handled", "cut"}]

DeliveryTypeOK ==
    /\ Phone!TypeOK /\ DeduperTypeOK
    /\ mine \in Seq(Requests) /\ Len(mine) = (IF drain.pc = "sending" THEN 1 ELSE 0)
    /\ late \in Seq(Requests) /\ Len(late) <= MaxLate
    /\ handled \in Seq([id : 1 .. MaxEvents, who : Identities, at : Nat, stored : BOOLEAN,
                        epoch : 0 .. MaxRestarts, call : 1 .. MaxCalls])
    /\ restarts \in 0 .. MaxRestarts

\* The requests that still exist, the phone's own first.
UnderWay == mine \o late

Request(who, chunk) == [who |-> who, left |-> chunk, pc |-> "travelling"]

\* drain' posts a chunk, or does not.
Posts(who) == mine' = IF drain'.pc = "sending" THEN <<Request(who, drain'.chunk)>> ELSE <<>>

-----------------------------------------------------------------------------
DeliveryInit ==
    /\ DeduperInit /\ Phone!Init
    /\ mine = <<>> /\ late = <<>> /\ handled = <<>> /\ restarts = 0

\* The app starts its client before it reports anything, and does not start one
\* that it has disposed of.
PhoneActs ==
    /\ \/ Phone!Start /\ ~closed
       \/ Phone!Dispose
       \/ timerOn /\ (Phone!Tick \/ \E sig \in Sigs : Phone!Enqueue(sig))
    /\ UNCHANGED <<deduperVars, mine, late, handled, restarts>>

\* The token is read once per drain; the user may have logged in or out since.
TokenRead ==
    /\ \E who \in Identities : Phone!TokenResolved /\ Posts(who)
    /\ UNCHANGED <<recent, calls, late, handled, restarts>>

\* Mutant: the gateway answers a batch before it handles it.
AnswerArrivesEarly ==
    /\ mine # <<>>
    /\ mine[1].pc # "cut" /\ Phone!ChunkDone("sent")
    /\ Posts(mine[1].who)
    /\ UNCHANGED <<recent, calls, late, handled, restarts>>

\* 204 arrives, or 413 or 422 in its place: the phone is done with the chunk.
AnswerArrives ==
    /\ mine # <<>>
    /\ \/ mine[1].pc = "handled" /\ Phone!ChunkDone("sent")
       \/ mine[1].pc = "travelling" /\ Phone!ChunkDone("dropped")
    /\ Posts(mine[1].who)
    /\ UNCHANGED <<recent, calls, late, handled, restarts>>

\* 429, 5xx, a broken connection: the request or its answer is lost.  What is
\* posted after dispose() never leaves the phone.
RequestFails ==
    /\ drain.pc = "refused" \/ (mine # <<>> /\ mine[1].pc # "handling")
    /\ Phone!ChunkFailed /\ mine' = <<>>
    /\ UNCHANGED <<recent, calls, late, handled, restarts>>

\* Four seconds have passed; the request goes on without its sender.
TimesOut ==
    /\ mine # <<>> /\ mine[1].pc \in {"travelling", "handling"} /\ Len(late) < MaxLate
    /\ Phone!ChunkFailed /\ mine' = <<>> /\ late' = late \o mine
    /\ UNCHANGED <<recent, calls, handled, restarts>>

\* It never arrives.
LateRequestLost(i) ==
    /\ late[i].pc = "travelling"
    /\ late' = RemoveAt(late, i)
    /\ UNCHANGED <<deduperVars, phoneVars, mine, handled, restarts>>

\* The gateway handles the next event of the request: the loop of ingest.
Handles(i) ==
    LET r == UnderWay[i]
        id == Head(r.left)
        rest == [r EXCEPT !.left = Tail(@), !.pc = IF Len(r.left) = 1 THEN "handled" ELSE "handling"]
    IN  /\ r.left # <<>> /\ r.pc \in {"travelling", "handling"}
        /\ \A j \in DOMAIN UnderWay : UnderWay[j].pc = "handling" => j = i
        /\ Len(calls) < MaxCalls
        /\ IsDuplicate(<<r.who, history[id].sig>>)
        /\ handled' = Append(handled, [id |-> id, who |-> r.who, at |-> now, epoch |-> restarts,
                                       call |-> Len(calls'), stored |-> ~calls'[Len(calls')].duplicate])
        /\ IF i <= Len(mine) THEN mine' = <<rest>> /\ UNCHANGED late
           ELSE /\ late' = IF rest.pc = "handled" THEN RemoveAt(late, i - Len(mine))
                           ELSE [late EXCEPT ![i - Len(mine)] = rest]
                /\ UNCHANGED mine
        /\ UNCHANGED <<phoneVars, restarts>>

\* Another sender's event, between two batches of the phone.
OtherSends(sig) ==
    /\ \A i \in DOMAIN UnderWay : UnderWay[i].pc # "handling"
    /\ Len(calls) < MaxCalls
    /\ IsDuplicate(sig)
    /\ UNCHANGED <<phoneVars, mine, late, handled, restarts>>

\* The gateway restarts: it forgets what it has seen and cuts off what it was at.
GatewayRestarts ==
    /\ restarts < MaxRestarts /\ restarts' = restarts + 1
    /\ recent' = [s \in {} |-> 0] /\ calls' = <<>>
    /\ mine' = [i \in DOMAIN mine |->
                 IF mine[i].pc = "handling" THEN [mine[i] EXCEPT !.pc = "cut"] ELSE mine[i]]
    /\ \/ \E i \in DOMAIN late : late[i].pc = "handling" /\ late' = RemoveAt(late, i)
       \/ (\A i \in DOMAIN late : late[i].pc # "handling") /\ UNCHANGED late
    /\ UNCHANGED <<now, phoneVars, handled>>

TimePasses ==
    /\ DeduperTick
    /\ UNCHANGED <<phoneVars, mine, late, handled, restarts>>

DeliveryNext ==
    \/ PhoneActs \/ TokenRead
    \/ AnswerArrives \/ RequestFails \/ TimesOut
    \/ \E i \in DOMAIN late : LateRequestLost(i)
    \/ \E i \in DOMAIN UnderWay : Handles(i)
    \/ \E sig \in Others : OtherSends(sig)
    \/ GatewayRestarts
    \/ TimePasses

DeliverySpec == DeliveryInit /\ [][DeliveryNext]_deliveryVars

-----------------------------------------------------------------------------
\* An event the phone sends again is stored again only if, since it was first
\* stored, the sender's identity changed, the gateway restarted, a whole window
\* went by, or a flood made the gateway forget.
StoredTwiceOnlyIf ==
    \A i, j \in DOMAIN handled :
        (i < j /\ handled[i].id = handled[j].id /\ handled[i].stored /\ handled[j].stored) =>
            \/ handled[i].who # handled[j].who
            \/ handled[i].epoch # handled[j].epoch
            \/ handled[j].at - handled[i].at >= DedupeWindow
            \/ handled[j].epoch < restarts    \* the calls of an earlier process are gone
            \/ \E m \in handled[i].call + 1 .. handled[j].call :
                  Cardinality(SeenInWindow(m)) > MaxTrackedKeys

\* Whatever the phone counts as sent the gateway has stored: this event, or one
\* with its signature.
SentIsStored ==
    \A id \in DOMAIN fate : fate[id] = "sent" =>
        \E i \in DOMAIN handled :
            handled[i].stored /\ history[handled[i].id].sig = history[id].sig

\* The gateway first meets the phone's events in the order in which they were
\* accepted.  Only a late request overtakes: with an event that was evicted or
\* dropped in the meantime.
MetInOrder ==
    \A j \in DOMAIN handled :
        (\A i \in 1 .. j - 1 : handled[i].id # handled[j].id) =>
            \A i \in 1 .. j - 1 : handled[i].id > handled[j].id =>
                handled[j].id \in DOMAIN fate /\ fate[handled[j].id] \in {"evicted", "dropped"}
=============================================================================
