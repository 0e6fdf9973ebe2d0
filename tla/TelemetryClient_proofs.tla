----------------------- MODULE TelemetryClient_proofs -----------------------
(***************************************************************************)
(* Proofs about TelemetryClient and ClientContract, for every value of     *)
(* their constants: types and limits, no event lost or held twice, the     *)
(* mailbox it implements, order, backing off and deduplication.            *)
(***************************************************************************)
EXTENDS ClientContract, SequenceTheorems, FiniteSetTheorems, TLAPS

-----------------------------------------------------------------------------
\* Sets of natural numbers.

LEMMA LeastElement ==
  ASSUME NEW S \in SUBSET Nat, S # {}
  PROVE  \E m \in S : \A k \in S : m <= k
<1>1. PICK n \in S : TRUE
  OBVIOUS
<1>2. IsWellFoundedOn(OpToRel(<, Nat), Nat)
  BY NatLessThanWellFounded
<1>3. PICK m \in S : \A k \in S : <<k, m>> \notin OpToRel(<, Nat)
  BY <1>1, <1>2, WFMin
<1>4. \A k \in S : ~(k < m)
  BY <1>3 DEF OpToRel
<1> QED
  BY <1>4

LEMMA GreatestElement ==
  ASSUME NEW n \in Nat, NEW S \in SUBSET (0 .. n), S # {}
  PROVE  \E m \in S : \A k \in S : k <= m
<1> DEFINE T == {n - k : k \in S}
<1>1. PICK s \in S : TRUE
  OBVIOUS
<1>2. n - s \in T
  BY <1>1
<1>3. T \subseteq Nat
  <2>1. \A k \in 0 .. n : n - k \in Nat
    OBVIOUS
  <2> QED
    BY <2>1
<1>4. PICK t \in T : \A k \in T : t <= k
  BY <1>2, <1>3, LeastElement
<1>5. PICK m \in S : t = n - m
  BY <1>4
<1>6. \A k \in S : n - m <= n - k
  BY <1>4, <1>5
<1>7. \A k \in S : k <= m
  BY <1>6
<1> QED
  BY <1>7

-----------------------------------------------------------------------------
\* Trimming and chunking.

\* trimQueue keeps a suffix of at most MaxQueue entries, all of them if they fit.
LEMMA TrimFacts ==
  ASSUME NEW S, NEW s \in Seq(S)
  PROVE  /\ Trim(s) \in Seq(S)
         /\ Len(Trim(s)) <= MaxQueue
         /\ \E d \in 0 .. Len(s) : /\ Len(Trim(s)) = Len(s) - d
                                   /\ \A i \in 1 .. Len(s) - d : Trim(s)[i] = s[i + d]
                                   /\ d > 0 => Len(s) - d = MaxQueue
<1> DEFINE m == Larger(1, Len(s) - MaxQueue + 1)
<1>1. Len(s) \in Nat /\ MaxQueue \in Nat \ {0}
  BY LenProperties, ClientAssumption
<1>2. /\ m \in Int /\ 1 <= m /\ m >= Len(s) - MaxQueue + 1 /\ m <= Len(s) + 1
      /\ m > 1 => m = Len(s) - MaxQueue + 1
  BY <1>1 DEF Larger
<1>3. \A i \in m .. Len(s) : s[i] \in S
  BY <1>2, ElementOfSeq
<1> HIDE DEF m
<1>4. /\ SubSeq(s, m, Len(s)) \in Seq(S)
      /\ Len(SubSeq(s, m, Len(s))) = IF m <= Len(s) THEN Len(s) - m + 1 ELSE 0
      /\ \A i \in 1 .. Len(s) - m + 1 : SubSeq(s, m, Len(s))[i] = s[m + i - 1]
  <2>1. m \in Int /\ Len(s) \in Int
    BY <1>1, <1>2
  <2> QED
    BY <1>3, <2>1, SubSeqProperties
<1>5. Trim(s) = SubSeq(s, m, Len(s))
  BY DEF Trim, m
<1>6. /\ m - 1 \in 0 .. Len(s) /\ Len(Trim(s)) = Len(s) - (m - 1)
      /\ m - 1 > 0 => Len(s) - (m - 1) = MaxQueue
  BY <1>1, <1>2, <1>4, <1>5
<1>7. \A i \in 1 .. Len(s) - (m - 1) : Trim(s)[i] = s[i + (m - 1)]
  BY <1>1, <1>2, <1>4, <1>5
<1>8. Trim(s) \in Seq(S) /\ Len(Trim(s)) <= MaxQueue
  BY <1>1, <1>2, <1>4, <1>5
<1> QED
  BY <1>6, <1>7, <1>8

\* takeChunk splits the queue in a nonempty prefix that fits and the rest.
LEMMA ChunkFacts ==
  ASSUME NEW S, NEW s \in Seq(S), NEW n \in 1 .. Len(s), NEW maxBytes,
         TakesChunk(s, n, maxBytes)
  PROVE  /\ SubSeq(s, 1, n) \in Seq(S) /\ Len(SubSeq(s, 1, n)) = n
         /\ \A i \in 1 .. n : SubSeq(s, 1, n)[i] = s[i]
         /\ SubSeq(s, n + 1, Len(s)) \in Seq(S)
         /\ Len(SubSeq(s, n + 1, Len(s))) = Len(s) - n
         /\ \A i \in 1 .. Len(s) - n : SubSeq(s, n + 1, Len(s))[i] = s[n + i]
         /\ FitsRequest(SubSeq(s, 1, n), maxBytes)
<1>1. Len(s) \in Nat /\ MaxBatch \in Nat \ {0}
  BY LenProperties, ClientAssumption
<1>2. \A i \in 1 .. Len(s) : s[i] \in S
  BY ElementOfSeq
<1>3. /\ SubSeq(s, 1, n) \in Seq(S) /\ Len(SubSeq(s, 1, n)) = n
      /\ \A i \in 1 .. n : SubSeq(s, 1, n)[i] = s[i]
  <2>1. /\ SubSeq(s, 1, n) \in Seq(S)
        /\ Len(SubSeq(s, 1, n)) = IF 1 <= n THEN n - 1 + 1 ELSE 0
        /\ \A i \in 1 .. n - 1 + 1 : SubSeq(s, 1, n)[i] = s[1 + i - 1]
    BY <1>1, <1>2, SubSeqProperties, 1 \in Int, n \in Int
  <2> QED
    BY <1>1, <2>1
<1>4. /\ SubSeq(s, n + 1, Len(s)) \in Seq(S)
      /\ Len(SubSeq(s, n + 1, Len(s))) = Len(s) - n
      /\ \A i \in 1 .. Len(s) - n : SubSeq(s, n + 1, Len(s))[i] = s[n + i]
  <2>1. /\ SubSeq(s, n + 1, Len(s)) \in Seq(S)
        /\ Len(SubSeq(s, n + 1, Len(s))) = IF n + 1 <= Len(s) THEN Len(s) - (n + 1) + 1 ELSE 0
        /\ \A i \in 1 .. Len(s) - (n + 1) + 1 : SubSeq(s, n + 1, Len(s))[i] = s[n + 1 + i - 1]
    <3>1. n + 1 \in Int /\ Len(s) \in Int /\ \A i \in n + 1 .. Len(s) : s[i] \in S
      BY <1>1, <1>2
    <3> QED
      BY <3>1, SubSeqProperties
  <2> QED
    BY <1>1, <2>1
<1>5. FitsRequest(SubSeq(s, 1, n), maxBytes)
  BY <1>1, <1>3 DEF TakesChunk, FitsRequest, Smaller
<1> QED
  BY <1>3, <1>4, <1>5

\* requeue() and enqueue() leave a well-formed queue within its bound.
LEMMA RequeueFacts ==
  ASSUME NEW s \in Seq(Event), queue \in Seq(Event)
  PROVE  Trim(s \o queue) \in Seq(Event) /\ Len(Trim(s \o queue)) <= MaxQueue
BY ConcatProperties, TrimFacts

-----------------------------------------------------------------------------
\* The signatures remembered.

Remembered == DOMAIN recent \subseteq Sigs /\ recent \in [DOMAIN recent -> [at : Int, place : Nat]]

\* pruneRecent leaves at most DEDUPE_MAX_ENTRIES: all that stay are among the
\* entries not older than the oldest that stays.
LEMMA UnprunedBound ==
  ASSUME NEW r, IsFiniteSet(DOMAIN r), \A s \in DOMAIN r : r[s].place \in Nat
  PROVE  /\ Unpruned(r) \subseteq DOMAIN r /\ IsFiniteSet(Unpruned(r))
         /\ Cardinality(Unpruned(r)) <= DedupeMaxEntries
<1> DEFINE live == {s \in DOMAIN r : now - r[s].at < DedupeWindow}
           notOlder(s) == {t \in live : r[t].place >= r[s].place}
           U == {s \in live : Cardinality(notOlder(s)) <= DedupeMaxEntries}
<1>1. Unpruned(r) = U
  BY DEF Unpruned
<1>2. U \subseteq DOMAIN r
  OBVIOUS
<1>3. IsFiniteSet(U)
  BY <1>2, FS_Subset
<1>4. Cardinality(U) <= DedupeMaxEntries
  <2>1. CASE U = {}
    <3> HIDE DEF U
    <3>1. Cardinality(U) = 0
      BY <2>1, FS_EmptySet
    <3> QED
      BY <3>1, ClientAssumption
  <2>2. CASE U # {}
    <3> DEFINE P == {r[s].place : s \in U}
    <3>1. P \in SUBSET Nat /\ P # {}
      BY <2>2
    <3>2. PICK p \in P : \A q \in P : p <= q
      BY <3>1, LeastElement
    <3>3. PICK s \in U : r[s].place = p
      BY <3>2
    <3>4. U \subseteq notOlder(s)
      BY <3>2, <3>3
    <3>5. IsFiniteSet(notOlder(s))
      BY FS_Subset
    <3>6. Cardinality(U) <= Cardinality(notOlder(s))
      BY <3>4, <3>5, FS_Subset
    <3>7. Cardinality(notOlder(s)) <= DedupeMaxEntries
      BY <3>3
    <3>8. Cardinality(U) \in Nat /\ Cardinality(notOlder(s)) \in Nat
      BY <1>3, <3>5, FS_CardinalityType
    <3> QED
      BY <3>6, <3>7, <3>8, ClientAssumption
  <2> QED
    BY <2>1, <2>2
<1> QED
  BY <1>1, <1>2, <1>3, <1>4

LEMMA RememberFacts ==
  ASSUME Remembered, IsFiniteSet(DOMAIN recent), now \in Int, Len(history) \in Nat,
         NEW sig \in Sigs, recent' = Remember(sig)
  PROVE  /\ Remembered' /\ IsFiniteSet(DOMAIN recent')
         /\ Cardinality(DOMAIN recent') <= DedupeMaxEntries
<1> DEFINE r == WithEntry(sig, Len(history) + 1)
<1>1. /\ DOMAIN r = DOMAIN recent \cup {sig}
      /\ \A s \in DOMAIN r : r[s] \in [at : Int, place : Nat]
      /\ r = [s \in DOMAIN r |-> r[s]]
  BY DEF WithEntry, Remembered
<1>2. IsFiniteSet(DOMAIN r) /\ DOMAIN r \subseteq Sigs
  BY <1>1, FS_AddElement DEF Remembered
<1>3. recent' = Pruned(r)
  BY DEF Remember
<1> HIDE DEF r
<1>4. CASE Cardinality(DOMAIN r) > DedupeMaxEntries
  <2>1. recent' = [s \in Unpruned(r) |-> r[s]]
    BY <1>3, <1>4 DEF Pruned, Restrict
  <2>2. /\ Unpruned(r) \subseteq DOMAIN r /\ IsFiniteSet(Unpruned(r))
        /\ Cardinality(Unpruned(r)) <= DedupeMaxEntries
    BY <1>1, <1>2, UnprunedBound
  <2> QED
    BY <1>1, <1>2, <2>1, <2>2 DEF Remembered
<1>5. CASE ~(Cardinality(DOMAIN r) > DedupeMaxEntries)
  <2>1. recent' = r
    BY <1>3, <1>5 DEF Pruned
  <2>2. Cardinality(DOMAIN r) \in Nat
    BY <1>2, FS_CardinalityType
  <2> QED
    BY <1>1, <1>2, <1>5, <2>1, <2>2, ClientAssumption DEF Remembered
<1> QED
  BY <1>4, <1>5

-----------------------------------------------------------------------------
\* Type correctness and the limits.

LEMMA WithFateType ==
  ASSUME DOMAIN fate \subseteq Nat, \A id \in DOMAIN fate : fate[id] \in Fates,
         NEW ids \in SUBSET Nat, NEW f \in Fates, fate' = WithFate(ids, f)
  PROVE  DOMAIN fate' \subseteq Nat /\ \A id \in DOMAIN fate' : fate'[id] \in Fates
BY DEF WithFate

LEMMA IdsType ==
  ASSUME NEW s \in Seq(Event)
  PROVE  Ids(s) \in SUBSET Nat
<1>1. \A i \in DOMAIN s : s[i] \in Event
  BY LenProperties, ElementOfSeq
<1> QED
  BY <1>1 DEF Ids, Event

LimitsInv == TypeOK /\ IsFiniteSet(DOMAIN recent) /\ WithinLimits

LEMMA LimitsInit == Init => LimitsInv
<1> SUFFICES ASSUME Init PROVE LimitsInv
  OBVIOUS
<1>1. TypeOK
  <2>1. queue \in Seq(Event) /\ history \in Seq([sig : Sigs, at : Int])
    BY EmptySeq DEF Init
  <2>2. drain \in DrainStates
    BY EmptySeq DEF Init, DrainStates
  <2>3. DOMAIN recent \subseteq Sigs /\ recent \in [DOMAIN recent -> [at : Int, place : Nat]]
    BY DEF Init
  <2>4. DOMAIN fate \subseteq Nat /\ \A id \in DOMAIN fate : fate[id] \in Fates
    BY DEF Init
  <2>5. /\ timerOn \in BOOLEAN /\ backingOff \in BOOLEAN /\ unloads \in SUBSET Seq(Event)
        /\ now \in Int /\ pageHides \in Nat
    <3>1. timerOn = FALSE /\ backingOff = FALSE /\ unloads = {} /\ now = 0 /\ pageHides = 0
      BY DEF Init
    <3>2. {} \in SUBSET Seq(Event)
      OBVIOUS
    <3>3. now \in Int /\ pageHides \in Nat
      BY <3>1
    <3>4. timerOn \in BOOLEAN /\ backingOff \in BOOLEAN
      BY <3>1
    <3> QED
      BY <3>1, <3>2, <3>3, <3>4
  <2> QED
    BY <2>1, <2>2, <2>3, <2>4, <2>5 DEF TypeOK
<1>2. IsFiniteSet(DOMAIN recent) /\ Cardinality(DOMAIN recent) = 0
  BY FS_EmptySet DEF Init
<1>3. Len(queue) = 0 /\ Len(drain.chunk) = 0 /\ unloads = {}
  BY DEF Init
<1> QED
  BY <1>1, <1>2, <1>3, ClientAssumption DEF LimitsInv, WithinLimits, FitsRequest

\* The loop head of drain() keeps the types and the limits.
LEMMA NextChunkLimits ==
  ASSUME LimitsInv, NextChunk(queue)
  PROVE  /\ queue' \in Seq(Event) /\ drain' \in DrainStates /\ backingOff' \in BOOLEAN
         /\ Len(queue') <= MaxQueue /\ FitsRequest(drain'.chunk, MaxRequestBytes)
<1>1. /\ queue \in Seq(Event) /\ Len(queue) \in Nat /\ Len(queue) <= MaxQueue
      /\ backingOff \in BOOLEAN
  BY LenProperties DEF LimitsInv, TypeOK, WithinLimits
<1>2. CASE queue = <<>> /\ queue' = queue /\ backingOff' = FALSE
           /\ drain' = [pc |-> "settling", chunk |-> <<>>]
  <2>1. <<>> \in Seq(Event) /\ Len(<<>>) = 0
    BY EmptySeq
  <2>2. drain' \in DrainStates /\ drain'.chunk = <<>>
    BY <1>2, <2>1 DEF DrainStates
  <2>3. FitsRequest(drain'.chunk, MaxRequestBytes)
    BY <2>1, <2>2, ClientAssumption DEF FitsRequest
  <2> QED
    BY <1>1, <1>2, <2>2, <2>3
<1>3. ASSUME NEW n \in 1 .. Len(queue), TakesChunk(queue, n, MaxRequestBytes),
             drain' = [pc |-> "sending", chunk |-> SubSeq(queue, 1, n)],
             queue' = SubSeq(queue, n + 1, Len(queue)), UNCHANGED backingOff
      PROVE  /\ queue' \in Seq(Event) /\ drain' \in DrainStates /\ backingOff' \in BOOLEAN
             /\ Len(queue') <= MaxQueue /\ FitsRequest(drain'.chunk, MaxRequestBytes)
  <2>1. /\ SubSeq(queue, 1, n) \in Seq(Event) /\ queue' \in Seq(Event)
        /\ Len(queue') = Len(queue) - n
        /\ FitsRequest(SubSeq(queue, 1, n), MaxRequestBytes)
    BY <1>1, <1>3, ChunkFacts
  <2> QED
    BY <1>1, <1>3, <2>1, ClientAssumption DEF DrainStates
<1> QED
  BY <1>2, <1>3 DEF NextChunk

\* A chunk of the loop of flushOnUnload is one that takeChunk takes.
LEMMA ChunkEnds ==
  ASSUME Len(queue) \in Nat, NEW cut \in SUBSET (1 .. Len(queue)), NEW p \in Chunks(cut)
  PROVE  p[1] \in 0 .. Len(queue) /\ p[2] \in 1 .. Len(queue) /\ p[1] < p[2]
<1>1. p[1] \in {0} \cup cut /\ p[2] \in cut /\ p[1] < p[2]
  BY DEF Chunks
<1>2. {0} \cup cut \subseteq 0 .. Len(queue)
  OBVIOUS
<1> QED
  BY <1>1, <1>2

LEMMA UnloadChunkFacts ==
  ASSUME queue \in Seq(Event), NEW a \in 0 .. Len(queue), NEW b \in 1 .. Len(queue), a < b,
         TakesChunk(SubSeq(queue, a + 1, Len(queue)), b - a, UnloadChunkBytes)
  PROVE  /\ SubSeq(queue, a + 1, b) \in Seq(Event)
         /\ Len(SubSeq(queue, a + 1, b)) = b - a
         /\ \A i \in 1 .. b - a : SubSeq(queue, a + 1, b)[i] = queue[a + i]
         /\ FitsRequest(SubSeq(queue, a + 1, b), UnloadChunkBytes)
<1> DEFINE rest == SubSeq(queue, a + 1, Len(queue))
<1>1. Len(queue) \in Nat
  BY LenProperties
<1>2. TakesChunk(rest, b - a, UnloadChunkBytes)
  OBVIOUS
<1>3. /\ rest \in Seq(Event) /\ Len(rest) = Len(queue) - a
      /\ \A i \in 1 .. Len(queue) - a : rest[i] = queue[a + i]
  <2>1. a + 1 \in Int /\ Len(queue) \in Int /\ \A i \in a + 1 .. Len(queue) : queue[i] \in Event
    BY <1>1, ElementOfSeq
  <2>2. /\ rest \in Seq(Event)
        /\ Len(rest) = IF a + 1 <= Len(queue) THEN Len(queue) - (a + 1) + 1 ELSE 0
        /\ \A i \in 1 .. Len(queue) - (a + 1) + 1 : rest[i] = queue[a + 1 + i - 1]
    BY <2>1, SubSeqProperties
  <2> QED
    BY <1>1, <2>2
<1> HIDE DEF rest
<1>4. b - a \in 1 .. Len(rest)
  BY <1>1, <1>3
<1>5. /\ SubSeq(rest, 1, b - a) \in Seq(Event) /\ Len(SubSeq(rest, 1, b - a)) = b - a
      /\ \A i \in 1 .. b - a : SubSeq(rest, 1, b - a)[i] = rest[i]
      /\ FitsRequest(SubSeq(rest, 1, b - a), UnloadChunkBytes)
  BY <1>2, <1>3, <1>4, ChunkFacts
<1>6. SubSeq(rest, 1, b - a) = SubSeq(queue, a + 1, b)
  <2>1. \A i \in a + 1 .. b : queue[i] \in Event
    BY <1>1, ElementOfSeq
  <2>2. /\ SubSeq(queue, a + 1, b) \in Seq(Event)
        /\ Len(SubSeq(queue, a + 1, b)) = IF a + 1 <= b THEN b - (a + 1) + 1 ELSE 0
        /\ \A i \in 1 .. b - (a + 1) + 1 : SubSeq(queue, a + 1, b)[i] = queue[a + 1 + i - 1]
    <3>1. a + 1 \in Int /\ b \in Int
      BY <1>1
    <3> QED
      BY <2>1, <3>1, SubSeqProperties
  <2>3. /\ Len(SubSeq(queue, a + 1, b)) = b - a
        /\ \A i \in 1 .. b - a : SubSeq(queue, a + 1, b)[i] = queue[a + i]
    BY <1>1, <2>2
  <2>4. \A i \in 1 .. b - a : SubSeq(rest, 1, b - a)[i] = queue[a + i]
    BY <1>1, <1>3, <1>5
  <2> DEFINE s == SubSeq(rest, 1, b - a)
             t == SubSeq(queue, a + 1, b)
  <2>5. s \in Seq(Event) /\ t \in Seq(Event) /\ Len(s) = Len(t)
    BY <1>5, <2>2, <2>3
  <2>6. \A i \in 1 .. Len(s) : s[i] = t[i]
    BY <1>5, <2>3, <2>4
  <2> HIDE DEF s, t
  <2>7. s = t
    BY <2>5, <2>6, SeqEqual
  <2> QED
    BY <2>7 DEF s, t
<1>7. \A i \in 1 .. b - a : SubSeq(rest, 1, b - a)[i] = queue[a + i]
  BY <1>1, <1>3, <1>5
<1> QED
  BY <1>5, <1>6, <1>7

LEMMA LimitsStep == LimitsInv /\ [Next]_vars => LimitsInv'
<1> SUFFICES ASSUME LimitsInv, [Next]_vars
             PROVE  LimitsInv'
  OBVIOUS
<1>0. /\ queue \in Seq(Event) /\ Len(queue) \in Nat /\ Len(queue) <= MaxQueue
      /\ drain \in DrainStates /\ drain.chunk \in Seq(Event)
      /\ FitsRequest(drain.chunk, MaxRequestBytes)
      /\ unloads \in SUBSET Seq(Event)
      /\ \A chunk \in unloads : FitsRequest(chunk, UnloadChunkBytes)
      /\ Remembered /\ IsFiniteSet(DOMAIN recent)
      /\ Cardinality(DOMAIN recent) <= DedupeMaxEntries
      /\ timerOn \in BOOLEAN /\ backingOff \in BOOLEAN /\ now \in Int /\ pageHides \in Nat
      /\ history \in Seq([sig : Sigs, at : Int]) /\ Len(history) \in Nat
      /\ DOMAIN fate \subseteq Nat /\ \A id \in DOMAIN fate : fate[id] \in Fates
  BY LenProperties DEF LimitsInv, TypeOK, WithinLimits, DrainStates, Remembered
<1>e. <<>> \in Seq(Event) /\ Len(<<>>) = 0 /\ FitsRequest(<<>>, MaxRequestBytes)
  BY EmptySeq, ClientAssumption DEF FitsRequest
<1>f. /\ [pc |-> "idle", chunk |-> <<>>] \in DrainStates
      /\ [pc |-> "token", chunk |-> <<>>] \in DrainStates
      /\ [pc |-> "settling", chunk |-> <<>>] \in DrainStates
  BY <1>e DEF DrainStates
<1>g. ASSUME NEW q, Flush(q)
      PROVE  drain' \in DrainStates /\ FitsRequest(drain'.chunk, MaxRequestBytes)
  BY <1>0, <1>e, <1>f, <1>g DEF Flush
<1>h. ASSUME NEW s \in Seq(Event), Requeue(s)
      PROVE  /\ queue' \in Seq(Event) /\ Len(queue') <= MaxQueue
             /\ DOMAIN fate' \subseteq Nat /\ \A id \in DOMAIN fate' : fate'[id] \in Fates
  <2>1. queue' \in Seq(Event) /\ Len(queue') <= MaxQueue
    BY <1>0, <1>h, RequeueFacts DEF Requeue
  <2>2. s \o queue \in Seq(Event)
    BY <1>0, ConcatProperties
  <2>3. Trimmed(s \o queue) \in SUBSET Nat
    BY <2>2, IdsType DEF Trimmed
  <2> QED
    BY <1>0, <1>h, <2>1, <2>3, WithFateType DEF Requeue, Fates
<1>1. CASE Start \/ Dispose \/ ClockMoves \/ UNCHANGED vars
  <2>1. /\ UNCHANGED <<queue, recent, drain, backingOff, unloads, history, fate, pageHides>>
        /\ timerOn' \in BOOLEAN /\ now' \in Int
    <3>1. CASE Start \/ Dispose
      BY <1>0, <3>1 DEF Start, Dispose
    <3>2. CASE ClockMoves
      <4>1. now' \in 0 .. MaxNow
        BY <3>2 DEF ClockMoves
      <4> QED
        BY <1>0, <3>2, <4>1 DEF ClockMoves
    <3>3. CASE UNCHANGED vars
      BY <1>0, <3>3 DEF vars
    <3> QED
      BY <1>1, <3>1, <3>2, <3>3
  <2> QED
    BY <1>0, <2>1 DEF LimitsInv, TypeOK, WithinLimits, Remembered
<1>2. ASSUME NEW sig \in Sigs, NEW bytes \in EventBytes, Enqueue(sig, bytes)
      PROVE  LimitsInv'
  <2> DEFINE e == [id |-> Len(history) + 1, bytes |-> bytes]
             q == Append(queue, e)
  <2>1. q \in Seq(Event)
    BY <1>0, AppendProperties DEF Event
  <2>2. queue' = Trim(q) /\ fate' = WithFate(Trimmed(q), "evicted")
    BY <1>2 DEF Enqueue
  <2>3. queue' \in Seq(Event) /\ Len(queue') <= MaxQueue
    BY <2>1, <2>2, TrimFacts
  <2>4. DOMAIN fate' \subseteq Nat /\ \A id \in DOMAIN fate' : fate'[id] \in Fates
    <3>1. Trimmed(q) \in SUBSET Nat
      BY <2>1, IdsType DEF Trimmed
    <3> QED
      BY <1>0, <2>2, <3>1, WithFateType DEF Fates
  <2>5. /\ Remembered' /\ IsFiniteSet(DOMAIN recent')
        /\ Cardinality(DOMAIN recent') <= DedupeMaxEntries
    BY <1>0, <1>2, RememberFacts DEF Enqueue
  <2>6. drain' \in DrainStates /\ FitsRequest(drain'.chunk, MaxRequestBytes)
    BY <1>0, <1>2, <1>g DEF Enqueue
  <2>7. history' \in Seq([sig : Sigs, at : Int])
    BY <1>0, <1>2, AppendProperties DEF Enqueue
  <2>8. UNCHANGED <<timerOn, backingOff, unloads, now, pageHides>>
    BY <1>2 DEF Enqueue
  <2> QED
    BY <1>0, <2>3, <2>4, <2>5, <2>6, <2>7, <2>8 DEF LimitsInv, TypeOK, WithinLimits, Remembered
<1>3. CASE FlushCall \/ Tick \/ InFlightCleared
  <2>1. drain' \in DrainStates /\ FitsRequest(drain'.chunk, MaxRequestBytes)
    BY <1>3, <1>e, <1>f, <1>g DEF FlushCall, Tick, InFlightCleared
  <2>2. /\ UNCHANGED <<queue, recent, timerOn, unloads, now, history, fate, pageHides>>
        /\ backingOff' \in BOOLEAN
    BY <1>0, <1>3 DEF FlushCall, Tick, InFlightCleared
  <2> QED
    BY <1>0, <2>1, <2>2 DEF LimitsInv, TypeOK, WithinLimits, Remembered
<1>4. CASE TokenResolved
  <2>1. NextChunk(queue) /\ UNCHANGED <<recent, timerOn, unloads, now, history, fate, pageHides>>
    BY <1>4 DEF TokenResolved
  <2> QED
    BY <1>0, <2>1, NextChunkLimits DEF LimitsInv, TypeOK, WithinLimits, Remembered
<1>5. ASSUME NEW outcome \in {"sent", "dropped"}, ChunkSettled(outcome)
      PROVE  LimitsInv'
  <2>1. /\ NextChunk(queue) /\ fate' = WithFate(Ids(drain.chunk), outcome)
        /\ UNCHANGED <<recent, timerOn, unloads, now, history, pageHides>>
    BY <1>5 DEF ChunkSettled
  <2>2. DOMAIN fate' \subseteq Nat /\ \A id \in DOMAIN fate' : fate'[id] \in Fates
    <3>1. Ids(drain.chunk) \in SUBSET Nat
      BY <1>0, IdsType
    <3>2. outcome \in Fates
      BY DEF Fates
    <3> QED
      BY <1>0, <2>1, <3>1, <3>2, WithFateType
  <2> QED
    BY <1>0, <2>1, <2>2, NextChunkLimits DEF LimitsInv, TypeOK, WithinLimits, Remembered
<1>6. CASE ChunkFailed
  <2>1. /\ Requeue(drain.chunk) /\ backingOff' = TRUE
        /\ drain' = [pc |-> "settling", chunk |-> <<>>]
        /\ UNCHANGED <<recent, timerOn, unloads, now, history, pageHides>>
    BY <1>6 DEF ChunkFailed
  <2> QED
    BY <1>0, <1>e, <1>f, <1>h, <2>1 DEF LimitsInv, TypeOK, WithinLimits, Remembered
<1>7. CASE FlushOnUnload
  <2>1. /\ queue' = <<>> /\ pageHides' \in Nat
        /\ UNCHANGED <<recent, timerOn, drain, backingOff, now, history>>
    BY <1>0, <1>7 DEF FlushOnUnload
  <2>2. DOMAIN fate' \subseteq Nat /\ \A id \in DOMAIN fate' : fate'[id] \in Fates
    <3>1. Ids(queue) \in SUBSET Nat
      BY <1>0, IdsType
    <3>2. fate' \in {fate, WithFate(Ids(queue), "beacon"), WithFate(Ids(queue), "dropped")}
      BY <1>7 DEF FlushOnUnload
    <3> QED
      BY <1>0, <3>1, <3>2, WithFateType DEF Fates
  <2>3. unloads' \in SUBSET Seq(Event) /\ \A chunk \in unloads' : FitsRequest(chunk, UnloadChunkBytes)
    <3>1. PICK cut \in SUBSET (1 .. Len(queue)) :
             /\ IsUnloadCut(cut)
             /\ unloads' = IF Transport = "fetch"
                           THEN unloads \cup {SubSeq(queue, p[1] + 1, p[2]) : p \in Chunks(cut)}
                           ELSE unloads
      BY <1>7 DEF FlushOnUnload
    <3>2. ASSUME NEW p \in Chunks(cut)
          PROVE  /\ SubSeq(queue, p[1] + 1, p[2]) \in Seq(Event)
                 /\ FitsRequest(SubSeq(queue, p[1] + 1, p[2]), UnloadChunkBytes)
      <4>1. p[1] \in 0 .. Len(queue) /\ p[2] \in 1 .. Len(queue) /\ p[1] < p[2]
        BY <1>0, ChunkEnds
      <4>2. TakesChunk(SubSeq(queue, p[1] + 1, Len(queue)), p[2] - p[1], UnloadChunkBytes)
        BY <3>1 DEF IsUnloadCut
      <4> QED
        BY <1>0, <4>1, <4>2, UnloadChunkFacts
    <3> QED
      BY <1>0, <3>1, <3>2
  <2>4. Len(queue') <= MaxQueue /\ queue' \in Seq(Event)
    BY <1>e, <2>1, ClientAssumption
  <2> QED
    BY <1>0, <2>1, <2>2, <2>3, <2>4 DEF LimitsInv, TypeOK, WithinLimits, Remembered
<1>8. ASSUME NEW chunk \in unloads, NEW outcome \in {"sent", "dropped"},
             UnloadSettled(chunk, outcome)
      PROVE  LimitsInv'
  <2>1. /\ unloads' \subseteq unloads /\ fate' = WithFate(Ids(chunk), outcome)
        /\ UNCHANGED <<queue, recent, timerOn, drain, backingOff, now, history, pageHides>>
    BY <1>8 DEF UnloadSettled
  <2>2. DOMAIN fate' \subseteq Nat /\ \A id \in DOMAIN fate' : fate'[id] \in Fates
    <3>1. Ids(chunk) \in SUBSET Nat
      BY <1>0, IdsType
    <3>2. outcome \in Fates
      BY DEF Fates
    <3> QED
      BY <1>0, <2>1, <3>1, <3>2, WithFateType
  <2> QED
    BY <1>0, <2>1, <2>2 DEF LimitsInv, TypeOK, WithinLimits, Remembered
<1>9. ASSUME NEW chunk \in unloads, UnloadFailed(chunk)
      PROVE  LimitsInv'
  <2>1. /\ unloads' \subseteq unloads /\ Requeue(chunk)
        /\ UNCHANGED <<recent, timerOn, drain, backingOff, now, history, pageHides>>
    BY <1>9 DEF UnloadFailed
  <2> QED
    BY <1>0, <1>h, <2>1 DEF LimitsInv, TypeOK, WithinLimits, Remembered
<1> QED
  BY <1>1, <1>2, <1>3, <1>4, <1>5, <1>6, <1>7, <1>8, <1>9 DEF Next

\* The client's variables always have their types: in particular everything
\* queued or in a request is an event enqueue() accepted.
THEOREM TypeCorrect == Spec => []TypeOK
<1>1. LimitsInv => TypeOK
  BY DEF LimitsInv
<1> QED
  BY LimitsInit, LimitsStep, <1>1, PTL DEF Spec

\* The queue, the signatures remembered and the requests stay within their
\* limits, whatever the order of failures, retries, timers and page hides.
THEOREM LimitsHold == Spec => []WithinLimits
<1>1. LimitsInv => WithinLimits
  BY DEF LimitsInv
<1> QED
  BY LimitsInit, LimitsStep, <1>1, PTL DEF Spec

-----------------------------------------------------------------------------
\* The ids of concatenated, split and trimmed sequences.

LEMMA IdsConcat ==
  ASSUME NEW s \in Seq(Event), NEW t \in Seq(Event)
  PROVE  /\ Ids(s \o t) = Ids(s) \cup Ids(t)
         /\ Distinct(s) /\ Distinct(t) /\ Ids(s) \cap Ids(t) = {} => Distinct(s \o t)
<1>1. /\ Len(s) \in Nat /\ DOMAIN s = 1 .. Len(s)
      /\ Len(t) \in Nat /\ DOMAIN t = 1 .. Len(t)
  BY LenProperties
<1>2. /\ s \o t \in Seq(Event) /\ Len(s \o t) = Len(s) + Len(t)
      /\ \A i \in 1 .. Len(s) + Len(t) : (s \o t)[i] = IF i <= Len(s) THEN s[i] ELSE t[i - Len(s)]
  BY ConcatProperties
<1> DEFINE u == s \o t
<1>3. DOMAIN u = 1 .. Len(s) + Len(t)
  BY <1>2, LenProperties
<1>4. /\ \A i \in DOMAIN s : i \in DOMAIN u /\ u[i] = s[i]
      /\ \A i \in DOMAIN t : i + Len(s) \in DOMAIN u /\ u[i + Len(s)] = t[i]
      /\ \A i \in DOMAIN u : \/ i \in DOMAIN s /\ u[i] = s[i]
                             \/ i - Len(s) \in DOMAIN t /\ i > Len(s) /\ u[i] = t[i - Len(s)]
  BY <1>1, <1>2, <1>3
<1> HIDE DEF u
<1>5. Ids(u) = Ids(s) \cup Ids(t)
  <2>1. Ids(u) \subseteq Ids(s) \cup Ids(t)
    BY <1>4 DEF Ids
  <2>2. Ids(s) \subseteq Ids(u) /\ Ids(t) \subseteq Ids(u)
    BY <1>4 DEF Ids
  <2> QED
    BY <2>1, <2>2
<1>6. ASSUME Distinct(s), Distinct(t), Ids(s) \cap Ids(t) = {}
      PROVE  Distinct(u)
  <2> SUFFICES ASSUME NEW i \in DOMAIN u, NEW j \in DOMAIN u, i # j
               PROVE  u[i].id # u[j].id
    BY DEF Distinct
  <2>1. CASE i \in DOMAIN s /\ u[i] = s[i] /\ j \in DOMAIN s /\ u[j] = s[j]
    BY <1>6, <2>1 DEF Distinct
  <2>2. CASE /\ i - Len(s) \in DOMAIN t /\ u[i] = t[i - Len(s)]
             /\ j - Len(s) \in DOMAIN t /\ u[j] = t[j - Len(s)]
    <3>1. i - Len(s) # j - Len(s)
      BY <1>1, <1>3
    <3> QED
      BY <1>6, <2>2, <3>1 DEF Distinct
  <2>3. CASE i \in DOMAIN s /\ u[i] = s[i] /\ j - Len(s) \in DOMAIN t /\ u[j] = t[j - Len(s)]
    <3>1. u[i].id \in Ids(s) /\ u[j].id \in Ids(t)
      BY <2>3 DEF Ids
    <3> QED
      BY <1>6, <3>1
  <2>4. CASE j \in DOMAIN s /\ u[j] = s[j] /\ i - Len(s) \in DOMAIN t /\ u[i] = t[i - Len(s)]
    <3>1. u[j].id \in Ids(s) /\ u[i].id \in Ids(t)
      BY <2>4 DEF Ids
    <3> QED
      BY <1>6, <3>1
  <2> QED
    BY <1>4, <2>1, <2>2, <2>3, <2>4
<1> QED
  BY <1>5, <1>6 DEF u

\* A part of s, taken from position d on, has no other ids and no new repeats.
LEMMA PartFacts ==
  ASSUME NEW s \in Seq(Event), NEW t \in Seq(Event), NEW d \in Nat,
         Len(t) + d <= Len(s), \A i \in 1 .. Len(t) : t[i] = s[d + i]
  PROVE  /\ Ids(t) = {s[i].id : i \in d + 1 .. d + Len(t)}
         /\ Ids(t) \subseteq Ids(s)
         /\ Distinct(s) => Distinct(t)
<1>1. /\ Len(s) \in Nat /\ DOMAIN s = 1 .. Len(s)
      /\ Len(t) \in Nat /\ DOMAIN t = 1 .. Len(t)
  BY LenProperties
<1>2. /\ \A i \in DOMAIN t : d + i \in d + 1 .. d + Len(t) /\ t[i] = s[d + i]
      /\ \A i \in d + 1 .. d + Len(t) : i - d \in DOMAIN t /\ t[i - d] = s[i]
      /\ d + 1 .. d + Len(t) \subseteq DOMAIN s
  <2>1. \A i \in d + 1 .. d + Len(t) : i - d \in 1 .. Len(t) /\ d + (i - d) = i
    BY <1>1
  <2>2. \A i \in d + 1 .. d + Len(t) : t[i - d] = s[i]
    BY <2>1
  <2> QED
    BY <1>1, <2>1, <2>2
<1>3. Ids(t) = {s[i].id : i \in d + 1 .. d + Len(t)}
  BY <1>2 DEF Ids
<1>4. Ids(t) \subseteq Ids(s)
  BY <1>2, <1>3 DEF Ids
<1>5. ASSUME Distinct(s)
      PROVE  Distinct(t)
  <2> SUFFICES ASSUME NEW i \in DOMAIN t, NEW j \in DOMAIN t, i # j
               PROVE  t[i].id # t[j].id
    BY DEF Distinct
  <2>1. /\ d + i \in DOMAIN s /\ t[i] = s[d + i]
        /\ d + j \in DOMAIN s /\ t[j] = s[d + j]
    BY <1>2
  <2>2. d + i # d + j
    BY <1>1
  <2>3. \A a, b \in DOMAIN s : a # b => s[a].id # s[b].id
    BY <1>5 DEF Distinct
  <2>4. s[d + i].id # s[d + j].id
    <3> HIDE <1>5
    <3> QED
      BY <2>1, <2>2, <2>3
  <2> QED
    BY <2>1, <2>4
<1> QED
  BY <1>3, <1>4, <1>5

LEMMA TrimIds ==
  ASSUME NEW s \in Seq(Event)
  PROVE  /\ Trim(s) \in Seq(Event)
         /\ Ids(Trim(s)) \subseteq Ids(s)
         /\ Distinct(s) => Distinct(Trim(s))
<1>1. PICK d \in 0 .. Len(s) : /\ Len(Trim(s)) = Len(s) - d
                               /\ \A i \in 1 .. Len(s) - d : Trim(s)[i] = s[i + d]
  BY TrimFacts
<1>2. Trim(s) \in Seq(Event) /\ Len(s) \in Nat
  BY TrimFacts, LenProperties
<1>3. /\ d \in Nat /\ Len(Trim(s)) + d <= Len(s)
      /\ \A i \in 1 .. Len(Trim(s)) : Trim(s)[i] = s[d + i]
  BY <1>1, <1>2
<1> QED
  BY <1>2, <1>3, PartFacts

LEMMA SplitIds ==
  ASSUME NEW s \in Seq(Event), NEW n \in 1 .. Len(s), NEW maxBytes, TakesChunk(s, n, maxBytes)
  PROVE  LET chunk == SubSeq(s, 1, n)
             rest == SubSeq(s, n + 1, Len(s))
         IN  /\ Ids(chunk) \cup Ids(rest) = Ids(s)
             /\ Distinct(s) => Distinct(chunk) /\ Distinct(rest) /\ Ids(chunk) \cap Ids(rest) = {}
<1> DEFINE chunk == SubSeq(s, 1, n)
           rest == SubSeq(s, n + 1, Len(s))
<1>1. Len(s) \in Nat /\ DOMAIN s = 1 .. Len(s)
  BY LenProperties
<1>2. /\ chunk \in Seq(Event) /\ Len(chunk) = n /\ \A i \in 1 .. n : chunk[i] = s[i]
      /\ rest \in Seq(Event) /\ Len(rest) = Len(s) - n
      /\ \A i \in 1 .. Len(s) - n : rest[i] = s[n + i]
  BY ChunkFacts
<1> HIDE DEF chunk, rest
<1>3. Ids(chunk) = {s[i].id : i \in 1 .. n} /\ (Distinct(s) => Distinct(chunk))
  <2>1. 0 \in Nat /\ Len(chunk) + 0 <= Len(s) /\ \A i \in 1 .. Len(chunk) : chunk[i] = s[0 + i]
    BY <1>1, <1>2
  <2>2. 0 + 1 .. 0 + Len(chunk) = 1 .. n
    BY <1>2
  <2> QED
    BY <1>2, <2>1, <2>2, PartFacts
<1>4. Ids(rest) = {s[i].id : i \in n + 1 .. Len(s)} /\ (Distinct(s) => Distinct(rest))
  <2>1. n \in Nat /\ Len(rest) + n <= Len(s) /\ \A i \in 1 .. Len(rest) : rest[i] = s[n + i]
    BY <1>1, <1>2
  <2>2. n + 1 .. n + Len(rest) = n + 1 .. Len(s)
    BY <1>1, <1>2
  <2> QED
    BY <1>2, <2>1, <2>2, PartFacts
<1>5. Ids(chunk) \cup Ids(rest) = Ids(s)
  <2>1. 1 .. Len(s) = (1 .. n) \cup (n + 1 .. Len(s))
    BY <1>1
  <2> QED
    BY <1>1, <1>3, <1>4, <2>1 DEF Ids
<1>6. Distinct(s) => Ids(chunk) \cap Ids(rest) = {}
  <2>1. \A i \in 1 .. n, j \in n + 1 .. Len(s) : i # j /\ i \in DOMAIN s /\ j \in DOMAIN s
    BY <1>1
  <2> QED
    BY <1>3, <1>4, <2>1 DEF Distinct
<1> QED
  BY <1>3, <1>4, <1>5, <1>6 DEF chunk, rest

-----------------------------------------------------------------------------
\* The chunks of flushOnUnload: together the whole queue, no two overlapping.

LEMMA ChunksCover ==
  ASSUME Len(queue) \in Nat, NEW cut \in SUBSET (1 .. Len(queue)), Len(queue) \in cut,
         NEW i \in 1 .. Len(queue)
  PROVE  \E p \in Chunks(cut) : p[1] < i /\ i <= p[2]
<1> DEFINE above == {c \in cut : i <= c}
           below == {c \in {0} \cup cut : c < i}
<1>1. above \in SUBSET Nat /\ above # {}
  <2>1. Len(queue) \in above
    OBVIOUS
  <2>2. above \subseteq 1 .. Len(queue)
    OBVIOUS
  <2> QED
    BY <2>1, <2>2
<1>2. PICK b \in above : \A c \in above : b <= c
  BY <1>1, LeastElement
<1>3. below \in SUBSET (0 .. Len(queue)) /\ below # {}
  <2>1. 0 \in below
    OBVIOUS
  <2>2. below \subseteq 0 .. Len(queue)
    <3>1. {0} \cup cut \subseteq 0 .. Len(queue)
      OBVIOUS
    <3> QED
      BY <3>1
  <2> QED
    BY <2>1, <2>2
<1>4. PICK a \in below : \A c \in below : c <= a
  BY <1>3, GreatestElement
<1>5. a \in {0} \cup cut /\ b \in cut /\ a < i /\ i <= b /\ a < b
  <2>1. a \in 0 .. Len(queue) /\ b \in 1 .. Len(queue) /\ a < i /\ i <= b
    BY <1>2, <1>4
  <2> QED
    BY <1>2, <1>4, <2>1
<1>6. \A c \in cut : ~(a < c /\ c < b)
  <2> SUFFICES ASSUME NEW c \in cut, a < c, c < b
               PROVE  FALSE
    OBVIOUS
  <2>1. c \in above \/ c \in below
    OBVIOUS
  <2> QED
    BY <1>2, <1>4, <1>5, <2>1
<1>7. <<a, b>> \in Chunks(cut)
  BY <1>5, <1>6 DEF Chunks
<1> QED
  BY <1>5, <1>7

LEMMA ChunksDisjoint ==
  ASSUME Len(queue) \in Nat, NEW cut \in SUBSET (1 .. Len(queue)),
         NEW p \in Chunks(cut), NEW q \in Chunks(cut), p # q
  PROVE  p[2] <= q[1] \/ q[2] <= p[1]
<1>1. /\ p[1] \in 0 .. Len(queue) /\ p[2] \in 1 .. Len(queue) /\ p[1] < p[2]
      /\ q[1] \in 0 .. Len(queue) /\ q[2] \in 1 .. Len(queue) /\ q[1] < q[2]
  BY ChunkEnds
<1>2. /\ p = <<p[1], p[2]>> /\ q = <<q[1], q[2]>>
      /\ p[1] \in {0} \cup cut /\ p[2] \in cut /\ q[1] \in {0} \cup cut /\ q[2] \in cut
      /\ \A c \in cut : ~(p[1] < c /\ c < p[2])
      /\ \A c \in cut : ~(q[1] < c /\ c < q[2])
  BY DEF Chunks
<1>3. CASE p[2] = q[2]
  <2>1. p[1] # q[1]
    BY <1>2, <1>3
  <2>2. CASE p[1] < q[1]
    <3>1. q[1] \in cut
      BY <1>1, <1>2, <2>2
    <3> QED
      BY <1>1, <1>2, <1>3, <2>2, <3>1
  <2>3. CASE q[1] < p[1]
    <3>1. p[1] \in cut
      BY <1>1, <1>2, <2>3
    <3> QED
      BY <1>1, <1>2, <1>3, <2>3, <3>1
  <2> QED
    BY <1>1, <2>1, <2>2, <2>3
<1>4. CASE p[2] # q[2]
  BY <1>1, <1>2, <1>4
<1> QED
  BY <1>3, <1>4

\* What the loop of flushOnUnload hands to fetch.
UnloadedChunks(cut) == {SubSeq(queue, p[1] + 1, p[2]) : p \in Chunks(cut)}

LEMMA UnloadIds ==
  ASSUME queue \in Seq(Event), Distinct(queue),
         NEW cut \in SUBSET (1 .. Len(queue)), IsUnloadCut(cut)
  PROVE  /\ AllIds(UnloadedChunks(cut)) = Ids(queue)
         /\ \A c \in UnloadedChunks(cut) : Distinct(c)
         /\ \A c, d \in UnloadedChunks(cut) : c # d => Ids(c) \cap Ids(d) = {}
<1>0. Len(queue) \in Nat /\ DOMAIN queue = 1 .. Len(queue) /\ Len(queue) \in cut
  BY LenProperties DEF IsUnloadCut
<1> DEFINE piece(p) == SubSeq(queue, p[1] + 1, p[2])
<1>1. ASSUME NEW p \in Chunks(cut)
      PROVE  /\ p[1] \in 0 .. Len(queue) /\ p[2] \in 1 .. Len(queue) /\ p[1] < p[2]
             /\ Ids(piece(p)) = {queue[i].id : i \in p[1] + 1 .. p[2]}
             /\ Distinct(piece(p))
  <2>1. p[1] \in 0 .. Len(queue) /\ p[2] \in 1 .. Len(queue) /\ p[1] < p[2]
    BY <1>0, ChunkEnds
  <2>2. TakesChunk(SubSeq(queue, p[1] + 1, Len(queue)), p[2] - p[1], UnloadChunkBytes)
    BY DEF IsUnloadCut
  <2>3. /\ piece(p) \in Seq(Event) /\ Len(piece(p)) = p[2] - p[1]
        /\ \A i \in 1 .. p[2] - p[1] : piece(p)[i] = queue[p[1] + i]
    BY <2>1, <2>2, UnloadChunkFacts
  <2> HIDE DEF piece
  <2>4. /\ p[1] \in Nat /\ Len(piece(p)) + p[1] <= Len(queue)
        /\ \A i \in 1 .. Len(piece(p)) : piece(p)[i] = queue[p[1] + i]
    BY <1>0, <2>1, <2>3
  <2>5. /\ Ids(piece(p)) = {queue[i].id : i \in p[1] + 1 .. p[1] + Len(piece(p))}
        /\ Distinct(piece(p))
    BY <2>3, <2>4, PartFacts
  <2>6. p[1] + Len(piece(p)) = p[2]
    BY <1>0, <2>1, <2>3
  <2> QED
    BY <2>1, <2>5, <2>6
<1>2. AllIds(UnloadedChunks(cut)) = Ids(queue)
  <2>1. ASSUME NEW i \in 1 .. Len(queue)
        PROVE  \E c \in UnloadedChunks(cut) : queue[i].id \in Ids(c)
    <3>1. PICK p \in Chunks(cut) : p[1] < i /\ i <= p[2]
      BY <1>0, ChunksCover
    <3>2. i \in p[1] + 1 .. p[2]
      BY <1>1, <3>1
    <3>3. queue[i].id \in Ids(piece(p))
      BY <1>1, <3>2
    <3> QED
      BY <3>3 DEF UnloadedChunks
  <2>2. ASSUME NEW c \in UnloadedChunks(cut)
        PROVE  Ids(c) \subseteq Ids(queue)
    <3>1. PICK p \in Chunks(cut) : c = piece(p)
      BY DEF UnloadedChunks
    <3>2. p[1] + 1 .. p[2] \subseteq DOMAIN queue
      BY <1>0, <1>1
    <3>3. Ids(c) = {queue[i].id : i \in p[1] + 1 .. p[2]}
      BY <1>1, <3>1
    <3> QED
      BY <3>2, <3>3 DEF Ids
  <2>3. Ids(queue) \subseteq AllIds(UnloadedChunks(cut))
    BY <1>0, <2>1 DEF Ids, AllIds
  <2>4. AllIds(UnloadedChunks(cut)) \subseteq Ids(queue)
    BY <2>2 DEF AllIds
  <2> QED
    BY <2>3, <2>4
<1>3. \A c \in UnloadedChunks(cut) : Distinct(c)
  BY <1>1 DEF UnloadedChunks
<1>4. ASSUME NEW c \in UnloadedChunks(cut), NEW d \in UnloadedChunks(cut), c # d
      PROVE  Ids(c) \cap Ids(d) = {}
  <2>1. PICK p \in Chunks(cut) : c = piece(p)
    BY DEF UnloadedChunks
  <2>2. PICK q \in Chunks(cut) : d = piece(q)
    BY DEF UnloadedChunks
  <2>3. p[2] <= q[1] \/ q[2] <= p[1]
    BY <1>0, <1>4, <2>1, <2>2, ChunksDisjoint
  <2>4. \A i \in p[1] + 1 .. p[2], j \in q[1] + 1 .. q[2] : i \in DOMAIN queue /\ j \in DOMAIN queue /\ i # j
    BY <1>0, <1>1, <2>3
  <2>5. /\ Ids(c) = {queue[i].id : i \in p[1] + 1 .. p[2]}
        /\ Ids(d) = {queue[j].id : j \in q[1] + 1 .. q[2]}
    BY <1>1, <2>1, <2>2
  <2> HIDE DEF piece
  <2> QED
    BY <2>4, <2>5 DEF Distinct
<1> QED
  BY <1>2, <1>3, <1>4

-----------------------------------------------------------------------------
\* The inductive invariant: besides the property, a drain that is not waiting
\* for an answer holds no events.

PlacesInv ==
    /\ LimitsInv
    /\ drain.pc # "sending" => drain.chunk = <<>>
    /\ EachEventInOnePlace

LEMMA EmptyIds == Ids(<<>>) = {} /\ Distinct(<<>>)
BY DEF Ids, Distinct

LEMMA AllIdsFacts ==
  /\ AllIds({}) = {}
  /\ \A S, T : AllIds(S \cup T) = AllIds(S) \cup AllIds(T)
  /\ \A S : \A c \in S : Ids(c) \subseteq AllIds(S)
  /\ \A S : \A c \in S : AllIds(S \ {c}) \cup Ids(c) = AllIds(S)
  /\ \A S, X : (\A c \in S : Ids(c) \cap X = {}) => AllIds(S) \cap X = {}
<1>1. AllIds({}) = {}
  BY DEF AllIds
<1>2. \A S, T : AllIds(S \cup T) = AllIds(S) \cup AllIds(T)
  BY DEF AllIds
<1>3. \A S : \A c \in S : Ids(c) \subseteq AllIds(S)
  BY DEF AllIds
<1>4. ASSUME NEW S, NEW c \in S
      PROVE  AllIds(S \ {c}) \cup Ids(c) = AllIds(S)
  <2>1. S = (S \ {c}) \cup {c} /\ AllIds({c}) = Ids(c)
    BY DEF AllIds
  <2> QED
    BY <1>2, <2>1
<1>5. \A S, X : (\A c \in S : Ids(c) \cap X = {}) => AllIds(S) \cap X = {}
  BY DEF AllIds
<1> QED
  BY <1>1, <1>2, <1>3, <1>4, <1>5

LEMMA PlacesInit == Init => PlacesInv
<1> SUFFICES ASSUME Init PROVE PlacesInv
  OBVIOUS
<1>1. LimitsInv
  BY LimitsInit
<1>2. queue = <<>> /\ drain.chunk = <<>> /\ unloads = {} /\ Len(history) = 0 /\ DOMAIN fate = {}
  BY DEF Init
<1>3. EachEventInOnePlace
  <2>1. Pending = {}
    BY <1>2, EmptyIds, AllIdsFacts DEF Pending
  <2>2. 1 .. Len(history) = {}
    BY <1>2
  <2>3. \A s \in {queue, drain.chunk} \cup unloads : Distinct(s)
    BY <1>2, EmptyIds
  <2> QED
    BY <1>2, <2>1, <2>2, <2>3, EmptyIds DEF EachEventInOnePlace
<1> QED
  BY <1>1, <1>2, <1>3 DEF PlacesInv

\* What trimQueue drops gets its fate, what it keeps stays.
LEMMA TrimPlaces ==
  ASSUME NEW s \in Seq(Event), Distinct(s), Ids(s) \cap DOMAIN fate = {},
         queue' = Trim(s), fate' = WithFate(Trimmed(s), "evicted")
  PROVE  /\ Ids(queue') \cup DOMAIN fate' = Ids(s) \cup DOMAIN fate
         /\ Ids(queue') \cap DOMAIN fate' = {}
         /\ Ids(queue') \subseteq Ids(s)
         /\ DOMAIN fate' \subseteq DOMAIN fate \cup Ids(s)
         /\ Distinct(queue')
<1>1. Ids(queue') \subseteq Ids(s) /\ Distinct(queue')
  BY TrimIds
<1>2. DOMAIN fate' = DOMAIN fate \cup (Ids(s) \ Ids(queue'))
  BY DEF WithFate, Trimmed
<1> QED
  BY <1>1, <1>2

\* The loop head of drain() moves events from the queue to its chunk.
LEMMA NextChunkPlaces ==
  ASSUME queue \in Seq(Event), Distinct(queue), NextChunk(queue)
  PROVE  /\ Ids(queue') \cup Ids(drain'.chunk) = Ids(queue)
         /\ Ids(queue') \cap Ids(drain'.chunk) = {}
         /\ Distinct(queue') /\ Distinct(drain'.chunk)
         /\ drain'.pc # "sending" => drain'.chunk = <<>>
<1>1. CASE queue = <<>> /\ queue' = queue /\ drain' = [pc |-> "settling", chunk |-> <<>>]
  BY <1>1, EmptyIds
<1>2. ASSUME NEW n \in 1 .. Len(queue), TakesChunk(queue, n, MaxRequestBytes),
             drain' = [pc |-> "sending", chunk |-> SubSeq(queue, 1, n)],
             queue' = SubSeq(queue, n + 1, Len(queue))
      PROVE  /\ Ids(queue') \cup Ids(drain'.chunk) = Ids(queue)
             /\ Ids(queue') \cap Ids(drain'.chunk) = {}
             /\ Distinct(queue') /\ Distinct(drain'.chunk)
             /\ drain'.pc # "sending" => drain'.chunk = <<>>
  <2>1. drain'.chunk = SubSeq(queue, 1, n) /\ drain'.pc = "sending"
    BY <1>2
  <2> QED
    BY <1>2, <2>1, SplitIds
<1> QED
  BY <1>1, <1>2 DEF NextChunk

LEMMA PlacesStep == PlacesInv /\ [Next]_vars => PlacesInv'
<1> SUFFICES ASSUME PlacesInv, [Next]_vars
             PROVE  (drain.pc # "sending" => drain.chunk = <<>>)' /\ EachEventInOnePlace'
  BY LimitsStep DEF PlacesInv
<1> DEFINE Q == Ids(queue)
           C == Ids(drain.chunk)
           U == AllIds(unloads)
           V == AllIds(unloads')
<1>0. /\ queue \in Seq(Event) /\ drain.chunk \in Seq(Event) /\ unloads \subseteq Seq(Event)
      /\ history \in Seq([sig : Sigs, at : Int]) /\ Len(history) \in Nat
      /\ drain.pc # "sending" => drain.chunk = <<>>
  BY LenProperties DEF PlacesInv, LimitsInv, TypeOK, DrainStates
<1>i. /\ Q \cup C \cup U \cup DOMAIN fate = 1 .. Len(history)
      /\ (Q \cup C \cup U) \cap DOMAIN fate = {}
      /\ Distinct(queue) /\ Distinct(drain.chunk) /\ \A c \in unloads : Distinct(c)
      /\ Q \cap C = {} /\ Q \cap U = {} /\ C \cap U = {}
      /\ \A c \in unloads : Ids(c) \subseteq U
      /\ \A c, d \in unloads : c # d => Ids(c) \cap Ids(d) = {}
  <2>1. \A c \in unloads : Ids(c) \cap Q = {} /\ Ids(c) \cap C = {}
    BY DEF PlacesInv, EachEventInOnePlace
  <2>2. Q \cap U = {} /\ C \cap U = {}
    BY <2>1, AllIdsFacts
  <2> QED
    BY <2>2, AllIdsFacts DEF PlacesInv, EachEventInOnePlace, Pending
\* It is enough to account for the sets of ids.
<1>s. ASSUME Ids(queue') \cup Ids(drain'.chunk) \cup V \cup DOMAIN fate' = 1 .. Len(history'),
             (Ids(queue') \cup Ids(drain'.chunk) \cup V) \cap DOMAIN fate' = {},
             Distinct(queue'), Distinct(drain'.chunk), \A c \in unloads' : Distinct(c),
             Ids(queue') \cap Ids(drain'.chunk) = {},
             Ids(queue') \cap V = {}, Ids(drain'.chunk) \cap V = {},
             \A c, d \in unloads' : c # d => Ids(c) \cap Ids(d) = {}
      PROVE  EachEventInOnePlace'
  <2>1. Pending' = Ids(queue') \cup Ids(drain'.chunk) \cup V
    BY DEF Pending
  <2>2. \A c \in unloads' : Ids(c) \subseteq V
    BY AllIdsFacts
  <2> HIDE DEF V
  <2>3. \A c \in unloads' : Ids(c) \cap (Ids(queue') \cup Ids(drain'.chunk)) = {}
    BY <1>s, <2>2
  <2>4. \A s \in {queue', drain'.chunk} \cup unloads' : Distinct(s)
    BY <1>s
  <2> QED
    BY <1>s, <2>1, <2>3, <2>4 DEF EachEventInOnePlace
<1> HIDE DEF Q, C, U, V
<1>1. CASE Start \/ Dispose \/ ClockMoves \/ UNCHANGED vars
  <2>1. UNCHANGED <<queue, drain, unloads, history, fate>>
    BY <1>1 DEF Start, Dispose, ClockMoves, vars
  <2> QED
    BY <1>0, <1>i, <1>s, <2>1 DEF Q, C, U, V
<1>2. CASE FlushCall \/ Tick \/ InFlightCleared
  <2>1. UNCHANGED <<queue, unloads, history, fate>>
    BY <1>2 DEF FlushCall, Tick, InFlightCleared
  <2>2. drain'.chunk = drain.chunk /\ (drain'.pc # "sending" => drain'.chunk = <<>>)
    BY <1>0, <1>2 DEF FlushCall, Tick, InFlightCleared, Flush
  <2> QED
    BY <1>i, <1>s, <2>1, <2>2 DEF Q, C, U, V
<1>3. ASSUME NEW sig \in Sigs, NEW bytes \in EventBytes, Enqueue(sig, bytes)
      PROVE  (drain.pc # "sending" => drain.chunk = <<>>)' /\ EachEventInOnePlace'
  <2> DEFINE e == [id |-> Len(history) + 1, bytes |-> bytes]
             q == queue \o <<e>>
  <2>1. e \in Event /\ <<e>> \in Seq(Event) /\ Append(queue, e) = q
    <3>1. e \in Event
      BY <1>0 DEF Event
    <3> HIDE DEF e
    <3> QED
      BY <1>0, <3>1, AppendIsConcat
  <2>2. Ids(<<e>>) = {Len(history) + 1} /\ Distinct(<<e>>)
    BY DEF Ids, Distinct
  <2>3. Len(history) + 1 \notin Q \cup C \cup U \cup DOMAIN fate
    BY <1>0, <1>i
  <2>4. q \in Seq(Event) /\ Ids(q) = Q \cup {Len(history) + 1} /\ Distinct(q)
    <3>1. Ids(queue) \cap Ids(<<e>>) = {} /\ Distinct(queue)
      BY <1>i, <2>2, <2>3 DEF Q
    <3> HIDE DEF e
    <3>2. q \in Seq(Event)
      BY <1>0, <2>1, ConcatProperties
    <3>3. Ids(q) = Ids(queue) \cup Ids(<<e>>) /\ Distinct(q)
      BY <1>0, <2>1, <2>2, <3>1, IdsConcat
    <3> QED
      BY <2>2, <3>2, <3>3 DEF Q
  <2>5. queue' = Trim(q) /\ fate' = WithFate(Trimmed(q), "evicted")
    BY <1>3, <2>1 DEF Enqueue
  <2>6. Ids(q) \cap DOMAIN fate = {}
    BY <1>i, <2>3, <2>4
  <2> HIDE DEF q
  <2>7. /\ Ids(queue') \cup DOMAIN fate' = Ids(q) \cup DOMAIN fate
        /\ Ids(queue') \cap DOMAIN fate' = {} /\ Ids(queue') \subseteq Ids(q)
        /\ DOMAIN fate' \subseteq DOMAIN fate \cup Ids(q) /\ Distinct(queue')
    BY <2>4, <2>5, <2>6, TrimPlaces
  <2>8. UNCHANGED unloads
    BY <1>3 DEF Enqueue
  <2>9. drain'.chunk = drain.chunk /\ (drain'.pc # "sending" => drain'.chunk = <<>>)
    BY <1>0, <1>3 DEF Enqueue, Flush
  <2>10. 1 .. Len(history') = (1 .. Len(history)) \cup {Len(history) + 1}
    <3>1. Len(history') = Len(history) + 1
      BY <1>0, <1>3, AppendProperties DEF Enqueue
    <3> QED
      BY <1>0, <3>1
  <2>11. Ids(drain'.chunk) = C /\ V = U
    BY <2>8, <2>9 DEF C, U, V
  <2>12. /\ Ids(queue') \cup C \cup U \cup DOMAIN fate' = 1 .. Len(history')
         /\ (Ids(queue') \cup C \cup U) \cap DOMAIN fate' = {}
         /\ Ids(queue') \cap C = {} /\ Ids(queue') \cap U = {}
    BY <1>i, <2>3, <2>4, <2>7, <2>10
  <2> QED
    BY <1>i, <1>s, <2>7, <2>8, <2>9, <2>11, <2>12
<1>4. CASE TokenResolved
  <2>1. NextChunk(queue) /\ UNCHANGED <<unloads, history, fate>> /\ drain.chunk = <<>>
    BY <1>0, <1>4 DEF TokenResolved
  <2>2. /\ Ids(queue') \cup Ids(drain'.chunk) = Q /\ Ids(queue') \cap Ids(drain'.chunk) = {}
        /\ Distinct(queue') /\ Distinct(drain'.chunk)
        /\ drain'.pc # "sending" => drain'.chunk = <<>>
    BY <1>0, <1>i, <2>1, NextChunkPlaces DEF Q
  <2>3. C = {} /\ V = U
    BY <2>1, EmptyIds DEF C, U, V
  <2>4. /\ Ids(queue') \cup Ids(drain'.chunk) \cup U \cup DOMAIN fate' = 1 .. Len(history')
        /\ (Ids(queue') \cup Ids(drain'.chunk) \cup U) \cap DOMAIN fate' = {}
        /\ Ids(queue') \cap U = {} /\ Ids(drain'.chunk) \cap U = {}
    BY <1>i, <2>1, <2>2, <2>3
  <2> QED
    BY <1>i, <1>s, <2>1, <2>2, <2>3, <2>4
<1>5. ASSUME NEW outcome \in {"sent", "dropped"}, ChunkSettled(outcome)
      PROVE  (drain.pc # "sending" => drain.chunk = <<>>)' /\ EachEventInOnePlace'
  <2>1. NextChunk(queue) /\ UNCHANGED <<unloads, history>> /\ DOMAIN fate' = DOMAIN fate \cup C
    BY <1>5 DEF ChunkSettled, WithFate, C
  <2>2. /\ Ids(queue') \cup Ids(drain'.chunk) = Q /\ Ids(queue') \cap Ids(drain'.chunk) = {}
        /\ Distinct(queue') /\ Distinct(drain'.chunk)
        /\ drain'.pc # "sending" => drain'.chunk = <<>>
    BY <1>0, <1>i, <2>1, NextChunkPlaces DEF Q
  <2>3. V = U
    BY <2>1 DEF U, V
  <2>4. /\ Ids(queue') \cup Ids(drain'.chunk) \cup U \cup DOMAIN fate' = 1 .. Len(history')
        /\ (Ids(queue') \cup Ids(drain'.chunk) \cup U) \cap DOMAIN fate' = {}
        /\ Ids(queue') \cap U = {} /\ Ids(drain'.chunk) \cap U = {}
    BY <1>i, <2>1, <2>2
  <2> QED
    BY <1>i, <1>s, <2>1, <2>2, <2>3, <2>4
<1>6. CASE ChunkFailed
  <2> DEFINE q == drain.chunk \o queue
  <2>1. /\ queue' = Trim(q) /\ fate' = WithFate(Trimmed(q), "evicted")
        /\ drain'.chunk = <<>> /\ UNCHANGED <<unloads, history>>
    BY <1>6 DEF ChunkFailed, Requeue
  <2>2. q \in Seq(Event) /\ Ids(q) = C \cup Q /\ Distinct(q)
    BY <1>0, <1>i, IdsConcat, ConcatProperties DEF C, Q
  <2> HIDE DEF q
  <2>3. /\ Ids(queue') \cup DOMAIN fate' = Ids(q) \cup DOMAIN fate
        /\ Ids(queue') \cap DOMAIN fate' = {} /\ Ids(queue') \subseteq Ids(q)
        /\ DOMAIN fate' \subseteq DOMAIN fate \cup Ids(q) /\ Distinct(queue')
    BY <1>i, <2>1, <2>2, TrimPlaces
  <2>4. Ids(drain'.chunk) = {} /\ Distinct(drain'.chunk) /\ V = U
    BY <2>1, EmptyIds DEF U, V
  <2>5. /\ Ids(queue') \cup Ids(drain'.chunk) \cup V \cup DOMAIN fate' = 1 .. Len(history')
        /\ (Ids(queue') \cup Ids(drain'.chunk) \cup V) \cap DOMAIN fate' = {}
        /\ Ids(queue') \cap V = {}
    BY <1>i, <2>1, <2>2, <2>3, <2>4
  <2> QED
    BY <1>i, <1>s, <2>1, <2>3, <2>4, <2>5
<1>7. CASE FlushOnUnload
  <2>1. queue' = <<>> /\ UNCHANGED <<drain, history>>
    BY <1>7 DEF FlushOnUnload
  <2>2. PICK cut \in SUBSET (1 .. Len(queue)) :
           /\ IsUnloadCut(cut)
           /\ unloads' = IF Transport = "fetch" THEN unloads \cup UnloadedChunks(cut) ELSE unloads
    BY <1>7 DEF FlushOnUnload, UnloadedChunks
  <2>3. Ids(queue') = {} /\ Distinct(queue') /\ Ids(drain'.chunk) = C
    BY <2>1, EmptyIds DEF C
  <2>4. CASE Transport = "fetch"
    <3>1. fate' = fate /\ unloads' = unloads \cup UnloadedChunks(cut)
      BY <1>7, <2>2, <2>4 DEF FlushOnUnload
    <3>2. /\ AllIds(UnloadedChunks(cut)) = Q
          /\ \A c \in UnloadedChunks(cut) : Distinct(c)
          /\ \A c, d \in UnloadedChunks(cut) : c # d => Ids(c) \cap Ids(d) = {}
      BY <1>0, <1>i, <2>2, UnloadIds DEF Q
    <3>3. V = U \cup Q
      BY <3>1, <3>2, AllIdsFacts DEF U, V
    <3>4. \A c \in UnloadedChunks(cut) : Ids(c) \subseteq Q
      BY <3>2, AllIdsFacts
    <3>5. \A c, d \in unloads' : c # d => Ids(c) \cap Ids(d) = {}
      BY <1>i, <3>1, <3>2, <3>4
    <3>6. /\ Ids(queue') \cup Ids(drain'.chunk) \cup V \cup DOMAIN fate' = 1 .. Len(history')
          /\ (Ids(queue') \cup Ids(drain'.chunk) \cup V) \cap DOMAIN fate' = {}
          /\ Ids(queue') \cap Ids(drain'.chunk) = {}
          /\ Ids(queue') \cap V = {} /\ Ids(drain'.chunk) \cap V = {}
      BY <1>i, <2>1, <2>3, <3>1, <3>3
    <3>7. \A c \in unloads' : Distinct(c)
      BY <1>i, <3>1, <3>2
    <3>8. EachEventInOnePlace'
      BY <1>i, <1>s, <2>1, <2>3, <3>5, <3>6, <3>7
    <3> QED
      BY <1>0, <2>1, <3>8
  <2>5. CASE Transport # "fetch"
    <3>1. unloads' = unloads /\ DOMAIN fate' = DOMAIN fate \cup Q
      BY <1>7, <2>2, <2>5 DEF FlushOnUnload, WithFate, Q
    <3>2. V = U
      BY <3>1 DEF U, V
    <3>3. /\ Ids(queue') \cup Ids(drain'.chunk) \cup V \cup DOMAIN fate' = 1 .. Len(history')
          /\ (Ids(queue') \cup Ids(drain'.chunk) \cup V) \cap DOMAIN fate' = {}
          /\ Ids(queue') \cap Ids(drain'.chunk) = {}
          /\ Ids(queue') \cap V = {} /\ Ids(drain'.chunk) \cap V = {}
      BY <1>i, <2>1, <2>3, <3>1, <3>2
    <3>4. EachEventInOnePlace'
      BY <1>i, <1>s, <2>1, <2>3, <3>1, <3>3
    <3> QED
      BY <1>0, <2>1, <3>4
  <2> QED
    BY <2>4, <2>5
\* The two answers to a keepalive request with the chunk c.
<1>u. ASSUME NEW c \in unloads, unloads' = unloads \ {c}
      PROVE  V \cup Ids(c) = U /\ V \cap Ids(c) = {} /\ c \in Seq(Event) /\ Distinct(c)
  <2>1. V = AllIds(unloads \ {c})
    BY <1>u DEF V
  <2>2. V \cup Ids(c) = U
    BY <2>1, AllIdsFacts DEF U
  <2>3. \A d \in unloads \ {c} : Ids(d) \cap Ids(c) = {}
    BY <1>i
  <2>4. V \cap Ids(c) = {}
    BY <2>1, <2>3, AllIdsFacts
  <2> QED
    BY <1>0, <1>i, <2>2, <2>4
<1>8. ASSUME NEW c \in unloads, NEW outcome \in {"sent", "dropped"}, UnloadSettled(c, outcome)
      PROVE  (drain.pc # "sending" => drain.chunk = <<>>)' /\ EachEventInOnePlace'
  <2>1. /\ unloads' = unloads \ {c} /\ DOMAIN fate' = DOMAIN fate \cup Ids(c)
        /\ UNCHANGED <<queue, drain, history>>
    BY <1>8 DEF UnloadSettled, WithFate
  <2>2. V \cup Ids(c) = U /\ V \cap Ids(c) = {}
    BY <1>u, <2>1
  <2>3. Ids(queue') = Q /\ Ids(drain'.chunk) = C
    BY <2>1 DEF Q, C
  <2>4. /\ Ids(queue') \cup Ids(drain'.chunk) \cup V \cup DOMAIN fate' = 1 .. Len(history')
        /\ (Ids(queue') \cup Ids(drain'.chunk) \cup V) \cap DOMAIN fate' = {}
        /\ Ids(queue') \cap Ids(drain'.chunk) = {}
        /\ Ids(queue') \cap V = {} /\ Ids(drain'.chunk) \cap V = {}
    BY <1>i, <2>1, <2>2, <2>3
  <2>5. \A d \in unloads' : d \in unloads
    BY <2>1
  <2>6. EachEventInOnePlace'
    BY <1>i, <1>s, <2>1, <2>4, <2>5
  <2> QED
    BY <1>0, <2>1, <2>6
<1>9. ASSUME NEW c \in unloads, UnloadFailed(c)
      PROVE  (drain.pc # "sending" => drain.chunk = <<>>)' /\ EachEventInOnePlace'
  <2> DEFINE q == c \o queue
  <2>1. /\ queue' = Trim(q) /\ fate' = WithFate(Trimmed(q), "evicted")
        /\ unloads' = unloads \ {c} /\ UNCHANGED <<drain, history>>
    BY <1>9 DEF UnloadFailed, Requeue
  <2>2. V \cup Ids(c) = U /\ V \cap Ids(c) = {} /\ c \in Seq(Event) /\ Distinct(c)
    BY <1>u, <2>1
  <2>3. q \in Seq(Event) /\ Ids(q) = Ids(c) \cup Q /\ Distinct(q)
    <3>1. Ids(c) \cap Ids(queue) = {}
      BY <1>i, <2>2 DEF Q
    <3> QED
      BY <1>0, <1>i, <2>2, <3>1, IdsConcat, ConcatProperties DEF Q
  <2> HIDE DEF q
  <2>4. Ids(q) \cap DOMAIN fate = {}
    BY <1>i, <2>2, <2>3
  <2>5. /\ Ids(queue') \cup DOMAIN fate' = Ids(q) \cup DOMAIN fate
        /\ Ids(queue') \cap DOMAIN fate' = {} /\ Ids(queue') \subseteq Ids(q)
        /\ DOMAIN fate' \subseteq DOMAIN fate \cup Ids(q) /\ Distinct(queue')
    BY <2>1, <2>3, <2>4, TrimPlaces
  <2>6. Ids(drain'.chunk) = C
    BY <2>1 DEF C
  <2>7. /\ Ids(queue') \cup Ids(drain'.chunk) \cup V \cup DOMAIN fate' = 1 .. Len(history')
        /\ (Ids(queue') \cup Ids(drain'.chunk) \cup V) \cap DOMAIN fate' = {}
        /\ Ids(queue') \cap Ids(drain'.chunk) = {}
        /\ Ids(queue') \cap V = {} /\ Ids(drain'.chunk) \cap V = {}
    BY <1>i, <2>1, <2>2, <2>3, <2>5, <2>6
  <2>8. \A d \in unloads' : d \in unloads
    BY <2>1
  <2>9. EachEventInOnePlace'
    BY <1>i, <1>s, <2>1, <2>5, <2>7, <2>8
  <2> QED
    BY <1>0, <2>1, <2>9
<1> QED
  BY <1>1, <1>2, <1>3, <1>4, <1>5, <1>6, <1>7, <1>8, <1>9 DEF Next

\* No accepted event is lost and none is held, or sent, twice at a time: every
\* one is queued, in the drain's request, in one keepalive request, or settled.
THEOREM NothingLostOrDuplicated == Spec => []EachEventInOnePlace
<1>1. PlacesInv => EachEventInOnePlace
  BY DEF PlacesInv
<1> QED
  BY PlacesInit, PlacesStep, <1>1, PTL DEF Spec

-----------------------------------------------------------------------------
\* The mailbox.

\* fate is always a function on the settled events.
FateInv == fate = [id \in DOMAIN fate |-> fate[id]]

LEMMA FateFacts ==
  /\ Init => FateInv
  /\ FateInv /\ [Next]_vars => FateInv'
<1>1. Init => FateInv
  BY DEF Init, FateInv
<1>2. ASSUME FateInv, [Next]_vars
      PROVE  FateInv'
  <2>1. ASSUME NEW ids, NEW f, fate' = WithFate(ids, f)
        PROVE  FateInv'
    BY <2>1 DEF WithFate, FateInv
  <2>2. CASE fate' = fate
    BY <1>2, <2>2 DEF FateInv
  <2>3. fate' = fate \/ \E ids, f : fate' = WithFate(ids, f)
    <3>1. CASE \E sig \in Sigs, bytes \in EventBytes : Enqueue(sig, bytes)
      BY <3>1 DEF Enqueue
    <3>2. CASE \E outcome \in {"sent", "dropped"} : ChunkSettled(outcome)
      BY <3>2 DEF ChunkSettled
    <3>3. CASE ChunkFailed \/ \E chunk \in unloads : UnloadFailed(chunk)
      BY <3>3 DEF ChunkFailed, UnloadFailed, Requeue
    <3>4. CASE FlushOnUnload
      BY <3>4 DEF FlushOnUnload
    <3>5. CASE \E chunk \in unloads : \E outcome \in {"sent", "dropped"} : UnloadSettled(chunk, outcome)
      BY <3>5 DEF UnloadSettled
    <3>6. CASE \/ Start \/ Dispose \/ FlushCall \/ Tick \/ TokenResolved \/ InFlightCleared
               \/ ClockMoves \/ UNCHANGED vars
      BY <3>6 DEF Start, Dispose, FlushCall, Tick, TokenResolved, InFlightCleared, ClockMoves, vars
    <3> QED
      BY <1>2, <3>1, <3>2, <3>3, <3>4, <3>5, <3>6 DEF Next
  <2> QED
    BY <2>1, <2>2, <2>3
<1> QED
  BY <1>1, <1>2

\* What is pending is what has been accepted and has no fate yet.
LEMMA PendingFacts ==
  ASSUME EachEventInOnePlace
  PROVE  /\ Pending = (1 .. Len(history)) \ DOMAIN fate
         /\ DOMAIN fate \subseteq 1 .. Len(history)
BY DEF EachEventInOnePlace

\* A sequence without repeats has as many ids as it is long.
LEMMA DistinctCardinality ==
  ASSUME NEW s \in Seq(Event), Distinct(s)
  PROVE  IsFiniteSet(Ids(s)) /\ Cardinality(Ids(s)) = Len(s)
<1> DEFINE f == [i \in 1 .. Len(s) |-> s[i].id]
<1>1. Len(s) \in Nat /\ DOMAIN s = 1 .. Len(s)
  BY LenProperties
<1>2. Ids(s) = {s[i].id : i \in 1 .. Len(s)}
  BY <1>1 DEF Ids
<1>3. \A i, j \in 1 .. Len(s) : i # j => s[i].id # s[j].id
  BY <1>1 DEF Distinct
<1>4. f \in Bijection(1 .. Len(s), Ids(s))
  BY <1>2, <1>3 DEF Bijection, Injection, Surjection, IsInjective
<1>5. ExistsBijection(1 .. Len(s), Ids(s))
  BY <1>4 DEF ExistsBijection
<1> QED
  BY <1>1, <1>5, FS_CountingElements, FS_NatBijection

LEMMA MailboxCardinality == \A S : Mailbox!Cardinality(S) = Cardinality(S)
BY DEF Mailbox!Cardinality, Cardinality

LEMMA MailboxInit == Init => Mailbox!Init
<1> SUFFICES ASSUME Init PROVE Mailbox!Init
  OBVIOUS
<1>1. queue = <<>> /\ drain.chunk = <<>> /\ unloads = {} /\ fate = [id \in {} |-> "sent"]
  BY DEF Init
<1>2. Pending = {}
  BY <1>1, EmptyIds, AllIdsFacts DEF Pending
<1> QED
  BY <1>1, <1>2 DEF Mailbox!Init

LEMMA MailboxStep ==
  PlacesInv /\ PlacesInv' /\ FateInv /\ [Next]_vars => [Mailbox!Next]_(Mailbox!vars)
<1> SUFFICES ASSUME PlacesInv, PlacesInv', FateInv, [Next]_vars
             PROVE  Mailbox!Next \/ (Pending' = Pending /\ fate' = fate)
  BY DEF Mailbox!vars
<1>0. /\ queue \in Seq(Event) /\ drain.chunk \in Seq(Event) /\ unloads \subseteq Seq(Event)
      /\ history \in Seq([sig : Sigs, at : Int]) /\ Len(history) \in Nat /\ MaxEvents \in Nat
      /\ Ids(queue) \subseteq Pending /\ Ids(drain.chunk) \subseteq Pending
      /\ \A c \in unloads : Ids(c) \subseteq Pending
      /\ Distinct(queue) /\ Distinct(drain.chunk) /\ \A c \in unloads : Distinct(c)
      /\ Ids(drain.chunk) \cap Ids(queue) = {} /\ \A c \in unloads : Ids(c) \cap Ids(queue) = {}
  BY LenProperties, ClientAssumption, AllIdsFacts
     DEF PlacesInv, LimitsInv, TypeOK, DrainStates, EachEventInOnePlace, Pending
<1>p. /\ Pending = (1 .. Len(history)) \ DOMAIN fate
      /\ DOMAIN fate \subseteq 1 .. Len(history)
  BY PendingFacts DEF PlacesInv
<1>q. Pending' = (1 .. Len(history')) \ DOMAIN fate'
  <2>1. EachEventInOnePlace => Pending = (1 .. Len(history)) \ DOMAIN fate
    BY PendingFacts
  <2>2. EachEventInOnePlace'
    BY DEF PlacesInv
  <2>3. EachEventInOnePlace' => Pending' = (1 .. Len(history')) \ DOMAIN fate'
    BY DEF EachEventInOnePlace
  <2> QED
    BY <2>2, <2>3
<1>w. \A ids, f : Mailbox!WithFate(ids, f) = WithFate(ids, f)
  BY DEF Mailbox!WithFate, WithFate
<1>v. \A ids, f : DOMAIN WithFate(ids, f) = DOMAIN fate \cup ids
  BY DEF WithFate
<1>n. \A f : WithFate({}, f) = fate
  BY DEF WithFate, FateInv
\* Nothing accepted, nothing settled.
<1>u. ASSUME UNCHANGED <<history, fate>>
      PROVE  Pending' = Pending /\ fate' = fate
  BY <1>p, <1>q, <1>u
\* Pending events are settled for good.
<1>s. ASSUME NEW ids \in SUBSET Pending, NEW f \in {"sent", "dropped", "beacon"},
             fate' = WithFate(ids, f), history' = history
      PROVE  Mailbox!Next \/ (Pending' = Pending /\ fate' = fate)
  <2>1. Pending' = Pending \ ids
    <3>1. DOMAIN fate' = DOMAIN fate \cup ids
      BY <1>s, <1>v
    <3> QED
      BY <1>p, <1>q, <1>s, <3>1
  <2>2. CASE ids = {}
    BY <1>n, <1>s, <2>1, <2>2
  <2>3. CASE ids # {}
    <3>1. fate' = Mailbox!WithFate(ids, f) /\ f \in Mailbox!FinalFates
      BY <1>s, <1>w DEF Mailbox!FinalFates
    <3>2. Mailbox!Settle(ids, f)
      BY <2>1, <3>1 DEF Mailbox!Settle
    <3>3. ids \in (SUBSET Pending) \ {{}}
      BY <2>3
    <3> QED
      BY <3>1, <3>2, <3>3 DEF Mailbox!Next
  <2> QED
    BY <2>2, <2>3
\* What trimQueue drops leaves a full queue behind.
<1>t. ASSUME NEW s \in Seq(Event), Distinct(s), queue' = Trim(s), Trimmed(s) # {}
      PROVE  Mailbox!Cardinality(Pending') >= MaxQueue
  <2>1. PICK d \in 0 .. Len(s) : /\ Len(Trim(s)) = Len(s) - d
                                 /\ \A i \in 1 .. Len(s) - d : Trim(s)[i] = s[i + d]
                                 /\ d > 0 => Len(s) - d = MaxQueue
    BY TrimFacts
  <2>2. Trim(s) \in Seq(Event) /\ Len(s) \in Nat /\ Distinct(Trim(s))
    BY <1>t, TrimFacts, TrimIds, LenProperties
  <2>3. d > 0
    <3> SUFFICES ASSUME d = 0 PROVE FALSE
      BY <2>2
    <3>1. Len(Trim(s)) = Len(s) /\ \A i \in 1 .. Len(Trim(s)) : Trim(s)[i] = s[i]
      BY <2>1, <2>2
    <3>2. Trim(s) = s
      BY <2>2, <3>1, SeqEqual
    <3> QED
      BY <1>t, <3>2 DEF Trimmed
  <2>4. Len(Trim(s)) = MaxQueue /\ MaxQueue \in Nat
    BY <2>1, <2>3, ClientAssumption
  <2>5. IsFiniteSet(Ids(queue')) /\ Cardinality(Ids(queue')) = MaxQueue
    BY <1>t, <2>2, <2>4, DistinctCardinality
  <2>6. Ids(queue') \subseteq Pending'
    BY DEF Pending
  <2>7. IsFiniteSet(Pending')
    <3>1. Len(history') \in Nat
      BY LenProperties DEF PlacesInv, LimitsInv, TypeOK
    <3>2. IsFiniteSet(1 .. Len(history'))
      BY <3>1, FS_Interval
    <3>3. Pending' \subseteq 1 .. Len(history')
      BY <1>q
    <3> QED
      BY <3>2, <3>3, FS_Subset
  <2>8. Cardinality(Ids(queue')) <= Cardinality(Pending') /\ Cardinality(Pending') \in Nat
    BY <2>6, <2>7, FS_Subset, FS_CardinalityType
  <2> QED
    BY <2>4, <2>5, <2>8, MailboxCardinality
\* Events that come back may push others out.
<1>r. ASSUME NEW c \in Seq(Event), Ids(c) \subseteq Pending, Distinct(c),
             Ids(c) \cap Ids(queue) = {}, Requeue(c), history' = history
      PROVE  Mailbox!Next \/ (Pending' = Pending /\ fate' = fate)
  <2> DEFINE s == c \o queue
             lost == Trimmed(s)
  <2>1. s \in Seq(Event) /\ Distinct(s) /\ Ids(s) \subseteq Pending
    BY <1>0, <1>r, IdsConcat, ConcatProperties
  <2>2. queue' = Trim(s) /\ fate' = WithFate(lost, "evicted")
    BY <1>r DEF Requeue
  <2> HIDE DEF s
  <2>3. lost \in SUBSET Pending
    BY <2>1 DEF Trimmed
  <2>4. lost # {} => Mailbox!Cardinality(Pending') >= MaxQueue
    BY <1>t, <2>1, <2>2
  <2> HIDE DEF lost
  <2>5. Pending' = Pending \ lost
    <3>1. DOMAIN fate' = DOMAIN fate \cup lost
      BY <1>v, <2>2
    <3> QED
      BY <1>p, <1>q, <1>r, <3>1
  <2>6. CASE lost = {}
    BY <1>n, <2>2, <2>5, <2>6
  <2>7. CASE lost # {}
    <3>1. fate' = Mailbox!WithFate(lost, "evicted")
      BY <1>w, <2>2
    <3>2. Mailbox!EvictFrom(Pending, lost)
      BY <2>4, <2>5, <3>1 DEF Mailbox!EvictFrom
    <3>3. lost \in (SUBSET Pending) \ {{}}
      BY <2>3, <2>7
    <3> QED
      BY <3>2, <3>3 DEF Mailbox!Next, Mailbox!Evict
  <2> QED
    BY <2>6, <2>7
<1>1. CASE \/ Start \/ Dispose \/ FlushCall \/ Tick \/ TokenResolved \/ InFlightCleared
           \/ ClockMoves \/ UNCHANGED vars
  <2>1. UNCHANGED <<history, fate>>
    BY <1>1 DEF Start, Dispose, FlushCall, Tick, TokenResolved, InFlightCleared, ClockMoves, vars
  <2> QED
    BY <1>u, <2>1
<1>2. ASSUME NEW sig \in Sigs, NEW bytes \in EventBytes, Enqueue(sig, bytes)
      PROVE  Mailbox!Next
  <2> DEFINE id == Len(history) + 1
             e == [id |-> id, bytes |-> bytes]
             s == Append(queue, e)
             lost == Trimmed(s)
  <2>1. e \in Event /\ e.id = id
    BY <1>0 DEF Event
  <2>2. id \notin Pending \cup DOMAIN fate
    BY <1>0, <1>p
  <2>3. queue' = Trim(s) /\ fate' = WithFate(lost, "evicted")
    BY <1>2 DEF Enqueue
  <2>4. /\ id \in 1 .. MaxEvents
        /\ 1 .. Len(history') = (1 .. Len(history)) \cup {id}
    <3>1. Len(history') = id /\ Len(history) < MaxEvents
      BY <1>0, <1>2, AppendProperties DEF Enqueue
    <3> QED
      BY <1>0, <3>1
  <2> HIDE DEF id, e
  <2>5. s \in Seq(Event) /\ Distinct(s) /\ Ids(s) = Ids(queue) \cup {id}
    <3>1. <<e>> \in Seq(Event) /\ s = queue \o <<e>>
      BY <1>0, <2>1, AppendIsConcat
    <3>2. Ids(<<e>>) = {id} /\ Distinct(<<e>>)
      BY <2>1 DEF Ids, Distinct
    <3>3. Ids(queue) \cap Ids(<<e>>) = {}
      BY <1>0, <2>2, <3>2
    <3> HIDE DEF s
    <3> QED
      BY <1>0, <3>1, <3>2, <3>3, IdsConcat, ConcatProperties
  <2> HIDE DEF s
  <2>6. lost # {} => Mailbox!Cardinality(Pending') >= MaxQueue
    BY <1>t, <2>3, <2>5
  <2>7. lost \in SUBSET (Pending \cup {id})
    BY <1>0, <2>5 DEF Trimmed
  <2> HIDE DEF lost
  <2>8. Pending' = (Pending \cup {id}) \ lost
    <3>1. DOMAIN fate' = DOMAIN fate \cup lost
      BY <1>v, <2>3
    <3> QED
      BY <1>p, <1>q, <2>2, <2>4, <3>1
  <2>9. fate' = Mailbox!WithFate(lost, "evicted")
    BY <1>w, <2>3
  <2>10. Mailbox!EvictFrom(Pending \cup {id}, lost)
    BY <2>6, <2>8, <2>9 DEF Mailbox!EvictFrom
  <2>11. Mailbox!Accept(id)
    BY <2>2, <2>7, <2>10 DEF Mailbox!Accept
  <2> QED
    BY <2>4, <2>11 DEF Mailbox!Next
<1>3. ASSUME NEW outcome \in {"sent", "dropped"}, ChunkSettled(outcome)
      PROVE  Mailbox!Next \/ (Pending' = Pending /\ fate' = fate)
  <2>1. fate' = WithFate(Ids(drain.chunk), outcome) /\ history' = history
    BY <1>3 DEF ChunkSettled
  <2> QED
    BY <1>0, <1>s, <2>1
<1>4. CASE ChunkFailed
  <2>1. Requeue(drain.chunk) /\ history' = history
    BY <1>4 DEF ChunkFailed
  <2> QED
    BY <1>0, <1>r, <2>1
<1>5. CASE FlushOnUnload
  <2>1. /\ history' = history
        /\ fate' \in {fate, WithFate(Ids(queue), "beacon"), WithFate(Ids(queue), "dropped")}
    BY <1>5 DEF FlushOnUnload
  <2> QED
    BY <1>0, <1>s, <1>u, <2>1
<1>6. ASSUME NEW c \in unloads, NEW outcome \in {"sent", "dropped"}, UnloadSettled(c, outcome)
      PROVE  Mailbox!Next \/ (Pending' = Pending /\ fate' = fate)
  <2>1. fate' = WithFate(Ids(c), outcome) /\ history' = history
    BY <1>6 DEF UnloadSettled
  <2> QED
    BY <1>0, <1>s, <2>1
<1>7. ASSUME NEW c \in unloads, UnloadFailed(c)
      PROVE  Mailbox!Next \/ (Pending' = Pending /\ fate' = fate)
  <2>1. Requeue(c) /\ history' = history
    BY <1>7 DEF UnloadFailed
  <2> QED
    BY <1>0, <1>r, <2>1
<1> QED
  BY <1>1, <1>2, <1>3, <1>4, <1>5, <1>6, <1>7 DEF Next

LEMMA PlacesCorrect == Spec => [](PlacesInv /\ FateInv)
BY PlacesInit, PlacesStep, FateFacts, PTL DEF Spec

\* The React client is a lossy mailbox: whatever races, an event is pending until
\* it gets one final fate, and is evicted only while MaxQueue others are pending.
THEOREM ClientIsAMailbox == Spec => ImplementsMailbox
BY PlacesCorrect, MailboxInit, MailboxStep, PTL DEF Spec, ImplementsMailbox, Mailbox!Spec

-----------------------------------------------------------------------------
\* Order, when the page is never hidden: no keepalive request takes events out
\* of the queue and brings them back later.

Sorted(s) == \A i, j \in DOMAIN s : i < j => s[i].id < s[j].id

Older(s, t) == \A x \in Ids(s), y \in Ids(t) : x < y

OrderInv ==
    /\ pageHides = 0 /\ unloads = {}
    /\ Sorted(drain.chunk) /\ Sorted(queue) /\ Older(drain.chunk, queue)

LEMMA IdNumbers ==
  ASSUME NEW s \in Seq(Event)
  PROVE  \A i \in DOMAIN s : s[i].id \in Nat
<1>1. \A i \in DOMAIN s : s[i] \in Event
  BY LenProperties, ElementOfSeq
<1> QED
  BY <1>1 DEF Event

\* A part of a sorted sequence is sorted.
LEMMA PartSorted ==
  ASSUME NEW s \in Seq(Event), Sorted(s), NEW t \in Seq(Event), NEW d \in Nat,
         Len(t) + d <= Len(s), \A i \in 1 .. Len(t) : t[i] = s[d + i]
  PROVE  Sorted(t)
<1>1. /\ Len(s) \in Nat /\ DOMAIN s = 1 .. Len(s)
      /\ Len(t) \in Nat /\ DOMAIN t = 1 .. Len(t)
  BY LenProperties
<1> SUFFICES ASSUME NEW i \in DOMAIN t, NEW j \in DOMAIN t, i < j
             PROVE  t[i].id < t[j].id
  BY DEF Sorted
<1>2. d + i < d + j /\ d + i \in DOMAIN s /\ d + j \in DOMAIN s
  BY <1>1
<1>3. t[i] = s[d + i] /\ t[j] = s[d + j]
  BY <1>1
<1> QED
  BY <1>2, <1>3 DEF Sorted

\* What trimQueue drops is older than what it keeps.
LEMMA TrimOrder ==
  ASSUME NEW s \in Seq(Event), Sorted(s)
  PROVE  Sorted(Trim(s)) /\ \A lost \in Trimmed(s), kept \in Ids(Trim(s)) : lost < kept
<1> DEFINE t == Trim(s)
<1>1. PICK d \in 0 .. Len(s) : /\ Len(t) = Len(s) - d
                               /\ \A i \in 1 .. Len(s) - d : t[i] = s[i + d]
  BY TrimFacts
<1>2. /\ t \in Seq(Event) /\ Len(s) \in Nat /\ DOMAIN s = 1 .. Len(s) /\ d \in Nat
      /\ DOMAIN t = 1 .. Len(s) - d
  BY <1>1, TrimFacts, LenProperties
<1>3. Trimmed(s) = Ids(s) \ Ids(t)
  BY DEF Trimmed
<1> HIDE DEF t
<1>4. Sorted(t)
  <2>1. Len(t) + d <= Len(s) /\ \A i \in 1 .. Len(t) : t[i] = s[d + i]
    BY <1>1, <1>2
  <2> QED
    BY <1>2, <2>1, PartSorted
<1>5. \A i \in DOMAIN t : i + d \in DOMAIN s /\ t[i] = s[i + d] /\ d < i + d
  <2> DEFINE n == Len(s)
  <2>1. /\ n \in Nat /\ d \in Nat /\ d <= n /\ DOMAIN s = 1 .. n /\ DOMAIN t = 1 .. n - d
        /\ \A i \in 1 .. n - d : t[i] = s[i + d]
    BY <1>1, <1>2
  <2> HIDE DEF n
  <2> QED
    BY <2>1
<1>6. ASSUME NEW x \in Trimmed(s), NEW y \in Ids(t)
      PROVE  x < y
  <2>1. PICK i \in DOMAIN s : x = s[i].id
    BY DEF Trimmed, Ids
  <2>2. PICK j \in DOMAIN t : y = t[j].id
    BY DEF Ids
  <2>3. i <= d
    <3> SUFFICES ASSUME i > d PROVE FALSE
      BY <1>2
    <3>1. i - d \in DOMAIN t /\ (i - d) + d = i
      BY <1>2
    <3>2. t[i - d].id = x
      BY <1>5, <2>1, <3>1
    <3> QED
      BY <1>3, <3>1, <3>2 DEF Ids
  <2>4. i < j + d /\ j + d \in DOMAIN s /\ y = s[j + d].id
    <3>1. j + d \in DOMAIN s /\ t[j] = s[j + d] /\ d < j + d
      BY <1>5
    <3> QED
      BY <1>2, <2>2, <2>3, <3>1
  <2> QED
    BY <2>1, <2>4 DEF Sorted
<1> QED
  BY <1>4, <1>6 DEF t

LEMMA ConcatOrder ==
  ASSUME NEW s \in Seq(Event), NEW t \in Seq(Event), Sorted(s), Sorted(t), Older(s, t)
  PROVE  Sorted(s \o t)
<1> DEFINE u == s \o t
           a == Len(s)
           b == Len(t)
<1>1. /\ a \in Nat /\ DOMAIN s = 1 .. a /\ b \in Nat /\ DOMAIN t = 1 .. b
      /\ DOMAIN u = 1 .. a + b
      /\ \A i \in 1 .. a + b : u[i] = IF i <= a THEN s[i] ELSE t[i - a]
  <2>1. u \in Seq(Event) /\ Len(u) = a + b
    BY ConcatProperties
  <2> QED
    BY <2>1, ConcatProperties, LenProperties
<1> HIDE DEF u, a, b
<1>2. Sorted(u)
  <2> SUFFICES ASSUME NEW i \in 1 .. a + b, NEW j \in 1 .. a + b, i < j
               PROVE  u[i].id < u[j].id
    BY <1>1 DEF Sorted
  <2>1. CASE j <= a
    <3>1. i <= a /\ i \in DOMAIN s /\ j \in DOMAIN s
      BY <1>1, <2>1
    <3>2. u[i] = s[i] /\ u[j] = s[j]
      BY <1>1, <2>1, <3>1
    <3> QED
      BY <3>1, <3>2 DEF Sorted
  <2>2. CASE ~(i <= a)
    <3>1. ~(j <= a) /\ i - a \in DOMAIN t /\ j - a \in DOMAIN t /\ i - a < j - a
      BY <1>1, <2>2
    <3>2. u[i] = t[i - a] /\ u[j] = t[j - a]
      BY <1>1, <2>2, <3>1
    <3> QED
      BY <3>1, <3>2 DEF Sorted
  <2>3. CASE i <= a /\ ~(j <= a)
    <3>1. i \in DOMAIN s /\ j - a \in DOMAIN t
      BY <1>1, <2>3
    <3>2. u[i] = s[i] /\ u[j] = t[j - a]
      BY <1>1, <2>3
    <3>3. u[i].id \in Ids(s) /\ u[j].id \in Ids(t)
      BY <3>1, <3>2 DEF Ids
    <3> QED
      BY <3>3 DEF Older
  <2> QED
    BY <1>1, <2>1, <2>2, <2>3
<1> QED
  BY <1>2 DEF u

LEMMA EmptyOrder == Sorted(<<>>) /\ \A s : Older(<<>>, s) /\ Older(s, <<>>)
BY EmptyIds DEF Sorted, Older

\* takeChunk cuts a sorted queue in an older and a younger part.
LEMMA SplitOrder ==
  ASSUME NEW s \in Seq(Event), Sorted(s), NEW n \in 1 .. Len(s), NEW maxBytes,
         TakesChunk(s, n, maxBytes)
  PROVE  LET chunk == SubSeq(s, 1, n)
             rest == SubSeq(s, n + 1, Len(s))
         IN  Sorted(chunk) /\ Sorted(rest) /\ Older(chunk, rest)
<1> DEFINE chunk == SubSeq(s, 1, n)
           rest == SubSeq(s, n + 1, Len(s))
<1>1. Len(s) \in Nat /\ DOMAIN s = 1 .. Len(s)
  BY LenProperties
<1>2. /\ chunk \in Seq(Event) /\ Len(chunk) = n /\ \A i \in 1 .. n : chunk[i] = s[i]
      /\ rest \in Seq(Event) /\ Len(rest) = Len(s) - n
      /\ \A i \in 1 .. Len(s) - n : rest[i] = s[n + i]
  BY ChunkFacts
<1>3. DOMAIN chunk = 1 .. n /\ DOMAIN rest = 1 .. Len(s) - n
  BY <1>2, LenProperties
<1> HIDE DEF chunk, rest
<1>4. Sorted(chunk)
  <2>1. 0 \in Nat /\ Len(chunk) + 0 <= Len(s) /\ \A i \in 1 .. Len(chunk) : chunk[i] = s[0 + i]
    BY <1>1, <1>2
  <2> QED
    BY <1>2, <2>1, PartSorted
<1>5. Sorted(rest)
  <2>1. n \in Nat /\ Len(rest) + n <= Len(s) /\ \A i \in 1 .. Len(rest) : rest[i] = s[n + i]
    BY <1>1, <1>2
  <2> QED
    BY <1>2, <2>1, PartSorted
<1>6. Older(chunk, rest)
  <2> SUFFICES ASSUME NEW i \in DOMAIN chunk, NEW j \in DOMAIN rest
               PROVE  chunk[i].id < rest[j].id
    BY DEF Older, Ids
  <2>1. chunk[i] = s[i] /\ rest[j] = s[n + j]
    BY <1>2, <1>3
  <2>2. i \in DOMAIN s /\ n + j \in DOMAIN s /\ i < n + j
    BY <1>1, <1>3
  <2> QED
    BY <2>1, <2>2 DEF Sorted
<1> QED
  BY <1>4, <1>5, <1>6 DEF chunk, rest

\* The loop head of drain(): the chunk is older than what stays.
LEMMA NextChunkOrder ==
  ASSUME queue \in Seq(Event), Sorted(queue), NextChunk(queue)
  PROVE  Sorted(drain'.chunk) /\ Sorted(queue') /\ Older(drain'.chunk, queue')
<1>1. CASE queue' = queue /\ drain' = [pc |-> "settling", chunk |-> <<>>]
  BY <1>1, EmptyOrder
<1>2. ASSUME NEW n \in 1 .. Len(queue), TakesChunk(queue, n, MaxRequestBytes),
             drain' = [pc |-> "sending", chunk |-> SubSeq(queue, 1, n)],
             queue' = SubSeq(queue, n + 1, Len(queue))
      PROVE  Sorted(drain'.chunk) /\ Sorted(queue') /\ Older(drain'.chunk, queue')
  <2>1. drain'.chunk = SubSeq(queue, 1, n)
    BY <1>2
  <2> QED
    BY <1>2, <2>1, SplitOrder
<1> QED
  BY <1>1, <1>2 DEF NextChunk

\* The new event is the youngest.
LEMMA AppendOrder ==
  ASSUME PlacesInv, OrderInv, NEW bytes \in EventBytes
  PROVE  LET q == Append(queue, [id |-> Len(history) + 1, bytes |-> bytes])
         IN  q \in Seq(Event) /\ Sorted(q) /\ Older(drain.chunk, q)
<1> DEFINE id == Len(history) + 1
           e == [id |-> id, bytes |-> bytes]
           q == Append(queue, e)
<1>1. /\ queue \in Seq(Event) /\ Len(history) \in Nat
      /\ Ids(queue) \subseteq 1 .. Len(history) /\ Ids(drain.chunk) \subseteq 1 .. Len(history)
  BY LenProperties DEF PlacesInv, LimitsInv, TypeOK, EachEventInOnePlace, Pending
<1>2. \A x \in 1 .. Len(history) : x < id
  BY <1>1
<1>3. e \in Event /\ e.id = id
  BY <1>1 DEF Event
<1> HIDE DEF id, e
<1>4. <<e>> \in Seq(Event) /\ q = queue \o <<e>>
  BY <1>1, <1>3, AppendIsConcat
<1>5. Ids(<<e>>) = {id} /\ Sorted(<<e>>)
  BY <1>3 DEF Ids, Sorted
<1> HIDE DEF q
<1>6. Older(queue, <<e>>)
  BY <1>1, <1>2, <1>5 DEF Older
<1>7. Sorted(q) /\ q \in Seq(Event) /\ Ids(q) = Ids(queue) \cup {id}
  <2>1. Sorted(queue)
    BY DEF OrderInv
  <2>2. Sorted(q)
    BY <1>1, <1>4, <1>5, <1>6, <2>1, ConcatOrder
  <2>3. Ids(q) = Ids(queue) \cup {id}
    BY <1>1, <1>4, <1>5, IdsConcat
  <2> QED
    BY <1>1, <1>4, <2>2, <2>3, ConcatProperties
<1>8. Older(drain.chunk, q)
  BY <1>1, <1>2, <1>7 DEF Older, OrderInv
<1> QED
  BY <1>7, <1>8 DEF q, e, id

LEMMA OrderStep ==
  ASSUME MaxPageHides = 0
  PROVE  PlacesInv /\ OrderInv /\ [Next]_vars => OrderInv'
<1> SUFFICES ASSUME PlacesInv, OrderInv, [Next]_vars
             PROVE  OrderInv'
  OBVIOUS
<1>0. /\ queue \in Seq(Event) /\ drain.chunk \in Seq(Event)
      /\ pageHides = 0 /\ unloads = {}
      /\ Sorted(drain.chunk) /\ Sorted(queue) /\ Older(drain.chunk, queue)
  BY DEF PlacesInv, LimitsInv, TypeOK, DrainStates, OrderInv
<1>1. CASE Start \/ Dispose \/ ClockMoves \/ UNCHANGED vars
  <2>1. UNCHANGED <<queue, drain, unloads, pageHides>>
    BY <1>1 DEF Start, Dispose, ClockMoves, vars
  <2> QED
    BY <2>1 DEF OrderInv, Older
<1>2. CASE FlushCall \/ Tick \/ InFlightCleared
  <2>1. UNCHANGED <<queue, unloads, pageHides>>
    BY <1>2 DEF FlushCall, Tick, InFlightCleared
  <2>2. drain'.chunk = drain.chunk
    BY <1>2 DEF FlushCall, Tick, InFlightCleared, Flush, PlacesInv
  <2> QED
    BY <1>0, <2>1, <2>2 DEF OrderInv
<1>3. ASSUME NEW sig \in Sigs, NEW bytes \in EventBytes, Enqueue(sig, bytes)
      PROVE  OrderInv'
  <2> DEFINE q == Append(queue, [id |-> Len(history) + 1, bytes |-> bytes])
  <2>1. q \in Seq(Event) /\ Sorted(q) /\ Older(drain.chunk, q)
    BY AppendOrder
  <2>2. queue' = Trim(q) /\ UNCHANGED <<unloads, pageHides>>
    BY <1>3 DEF Enqueue
  <2>3. drain'.chunk = drain.chunk
    BY <1>3 DEF Enqueue, Flush, PlacesInv
  <2> HIDE DEF q
  <2>4. Sorted(queue') /\ Ids(queue') \subseteq Ids(q)
    BY <2>1, <2>2, TrimOrder, TrimIds
  <2>5. Older(drain'.chunk, queue')
    BY <2>1, <2>3, <2>4 DEF Older
  <2> QED
    BY <1>0, <2>2, <2>3, <2>4, <2>5 DEF OrderInv
<1>4. ASSUME NextChunk(queue), UNCHANGED <<unloads, pageHides>>
      PROVE  OrderInv'
  BY <1>0, <1>4, NextChunkOrder DEF OrderInv
<1>5. CASE TokenResolved \/ \E outcome \in {"sent", "dropped"} : ChunkSettled(outcome)
  BY <1>4, <1>5 DEF TokenResolved, ChunkSettled
<1>6. CASE ChunkFailed
  <2> DEFINE q == drain.chunk \o queue
  <2>1. queue' = Trim(q) /\ drain'.chunk = <<>> /\ UNCHANGED <<unloads, pageHides>>
    BY <1>6 DEF ChunkFailed, Requeue
  <2>2. q \in Seq(Event) /\ Sorted(q)
    BY <1>0, ConcatOrder, ConcatProperties
  <2> HIDE DEF q
  <2> QED
    BY <1>0, <2>1, <2>2, TrimOrder, EmptyOrder DEF OrderInv
<1>7. CASE FlushOnUnload
  BY <1>0, <1>7 DEF FlushOnUnload
<1> QED
  BY <1>0, <1>1, <1>2, <1>3, <1>5, <1>6, <1>7 DEF Next

LEMMA OrderInit == Init => OrderInv
<1> SUFFICES ASSUME Init PROVE OrderInv
  OBVIOUS
<1>1. queue = <<>> /\ drain.chunk = <<>> /\ unloads = {} /\ pageHides = 0
  BY DEF Init
<1> QED
  BY <1>1, EmptyOrder DEF OrderInv

LEMMA EvictionStep ==
  ASSUME MaxPageHides = 0
  PROVE  PlacesInv /\ OrderInv /\ [Next]_vars =>
           \A lost \in DOMAIN fate' \ DOMAIN fate, kept \in Ids(queue') :
              fate'[lost] = "evicted" => lost < kept
<1> SUFFICES ASSUME PlacesInv, OrderInv, [Next]_vars,
                    NEW lost \in DOMAIN fate' \ DOMAIN fate, NEW kept \in Ids(queue'),
                    fate'[lost] = "evicted"
             PROVE  lost < kept
  OBVIOUS
<1>0. /\ queue \in Seq(Event) /\ drain.chunk \in Seq(Event) /\ pageHides = 0 /\ unloads = {}
      /\ Sorted(drain.chunk) /\ Sorted(queue) /\ Older(drain.chunk, queue)
  BY DEF PlacesInv, LimitsInv, TypeOK, DrainStates, OrderInv
<1>1. ASSUME NEW s \in Seq(Event), Sorted(s), queue' = Trim(s),
             fate' = WithFate(Trimmed(s), "evicted")
      PROVE  lost < kept
  <2>1. lost \in Trimmed(s)
    BY <1>1 DEF WithFate
  <2> QED
    BY <1>1, <2>1, TrimOrder
<1>2. ASSUME NEW sig \in Sigs, NEW bytes \in EventBytes, Enqueue(sig, bytes)
      PROVE  lost < kept
  <2> DEFINE q == Append(queue, [id |-> Len(history) + 1, bytes |-> bytes])
  <2>1. q \in Seq(Event) /\ Sorted(q)
    BY AppendOrder
  <2>2. queue' = Trim(q) /\ fate' = WithFate(Trimmed(q), "evicted")
    BY <1>2 DEF Enqueue
  <2> HIDE DEF q
  <2> QED
    BY <1>1, <2>1, <2>2
<1>3. ASSUME NEW outcome \in {"sent", "dropped"}, ChunkSettled(outcome)
      PROVE  lost < kept
  <2>1. fate' = WithFate(Ids(drain.chunk), outcome)
    BY <1>3 DEF ChunkSettled
  <2>2. fate'[lost] = outcome
    BY <2>1 DEF WithFate
  <2> QED
    BY <2>2
<1>4. CASE ChunkFailed
  <2> DEFINE q == drain.chunk \o queue
  <2>1. queue' = Trim(q) /\ fate' = WithFate(Trimmed(q), "evicted")
    BY <1>4 DEF ChunkFailed, Requeue
  <2>2. q \in Seq(Event) /\ Sorted(q)
    BY <1>0, ConcatOrder, ConcatProperties
  <2> HIDE DEF q
  <2> QED
    BY <1>1, <2>1, <2>2
<1>5. CASE FlushOnUnload
  BY <1>0, <1>5 DEF FlushOnUnload
<1>6. CASE \/ Start \/ Dispose \/ FlushCall \/ Tick \/ TokenResolved \/ InFlightCleared
           \/ ClockMoves \/ UNCHANGED vars
  BY <1>6 DEF Start, Dispose, FlushCall, Tick, TokenResolved, InFlightCleared, ClockMoves, vars
<1> QED
  BY <1>0, <1>2, <1>3, <1>4, <1>5, <1>6 DEF Next

LEMMA OrderCorrect ==
  ASSUME MaxPageHides = 0
  PROVE  Spec => [](PlacesInv /\ OrderInv)
<1>1. PlacesInv /\ OrderInv /\ [Next]_vars => OrderInv'
  BY OrderStep
<1> QED
  BY PlacesInit, PlacesStep, OrderInit, <1>1, PTL DEF Spec

\* Without keepalive requests, what the drain holds and what waits behind it are
\* in the order of acceptance, whatever fails and is retried.
THEOREM DeliveryIsInOrder ==
  ASSUME MaxPageHides = 0
  PROVE  Spec => []InOrder
<1>1. PlacesInv /\ OrderInv => InOrder
  <2> SUFFICES ASSUME PlacesInv, OrderInv PROVE InOrder
    OBVIOUS
  <2>1. Sorted(drain.chunk \o queue)
    BY ConcatOrder DEF PlacesInv, LimitsInv, TypeOK, DrainStates, OrderInv
  <2> QED
    BY <2>1 DEF Sorted, InOrder
<1> QED
  BY OrderCorrect, <1>1, PTL

\* Without keepalive requests, trimQueue never drops an event younger than one it
\* keeps.
THEOREM ClientEvictsOldest ==
  ASSUME MaxPageHides = 0
  PROVE  Spec => EvictsOldest
<1>1. PlacesInv /\ OrderInv /\ [Next]_vars =>
        [\A lost \in DOMAIN fate' \ DOMAIN fate, kept \in Ids(queue') :
           fate'[lost] = "evicted" => lost < kept]_vars
  BY EvictionStep
<1> QED
  BY OrderCorrect, <1>1, PTL DEF Spec, EvictsOldest

-----------------------------------------------------------------------------
\* Backing off: a failure that no tick or drained queue has followed is known.

BackoffInv == pageHides = 0 /\ unloads = {} /\ (failed => backingOff)

LEMMA BackoffStep ==
  ASSUME MaxPageHides = 0
  PROVE  BackoffInv /\ [ContractNext]_contractVars => BackoffInv'
<1> SUFFICES ASSUME BackoffInv, [ContractNext]_contractVars
             PROVE  BackoffInv'
  OBVIOUS
<1>1. CASE UNCHANGED contractVars
  BY <1>1 DEF contractVars, BackoffInv
<1>2. CASE ContractNext
  <2>0. /\ Next /\ failed' = (Requeued \/ (failed /\ ~Tick /\ ~Drained))
        /\ pageHides = 0 /\ unloads = {} /\ (failed => backingOff)
    BY <1>2 DEF ContractNext, BackoffInv
  <2>1. ~FlushOnUnload
    BY <2>0 DEF FlushOnUnload
  <2>2. pageHides' = 0 /\ unloads' = {}
    BY <2>0, <2>1 DEF Next, Start, Dispose, Enqueue, FlushCall, Tick, TokenResolved, ChunkSettled,
       ChunkFailed, InFlightCleared, ClockMoves
  <2>3. Requeued => backingOff'
    BY <2>0 DEF Requeued, ChunkFailed
  <2>4. ASSUME backingOff, ~Tick, ~Drained
        PROVE  backingOff'
    <3>1. CASE TokenResolved \/ \E outcome \in {"sent", "dropped"} : ChunkSettled(outcome)
      <4>1. NextChunk(queue) /\ drain.pc \in {"token", "sending"}
        BY <3>1 DEF TokenResolved, ChunkSettled
      <4>2. CASE backingOff' = FALSE /\ drain' = [pc |-> "settling", chunk |-> <<>>]
        <5>1. drain'.pc = "settling"
          BY <4>2
        <5>2. Drained
          BY <4>1, <4>2, <5>1 DEF Drained
        <5> QED
          BY <2>4, <5>2
      <4>3. CASE UNCHANGED backingOff
        BY <2>4, <4>3
      <4> QED
        BY <4>1, <4>2, <4>3 DEF NextChunk
    <3>2. CASE \/ Start \/ Dispose \/ FlushCall \/ ChunkFailed \/ InFlightCleared \/ ClockMoves
               \/ \E sig \in Sigs, bytes \in EventBytes : Enqueue(sig, bytes)
      BY <2>4, <3>2 DEF Start, Dispose, FlushCall, ChunkFailed, InFlightCleared, ClockMoves, Enqueue
    <3> QED
      BY <2>0, <2>1, <2>4, <3>1, <3>2 DEF Next
  <2> QED
    BY <2>0, <2>2, <2>3, <2>4 DEF BackoffInv
<1> QED
  BY <1>1, <1>2

\* After a retryable failure no enqueue() starts a drain before the next tick or
\* a drained queue (page never hidden: an unanswered keepalive request that fails
\* requeues its events without backing off).
THEOREM NoEagerFlush ==
  ASSUME MaxPageHides = 0
  PROVE  ContractSpec => NoEagerFlushAfterFailure
<1>1. ContractInit => BackoffInv
  BY DEF ContractInit, Init, BackoffInv
<1>2. BackoffInv /\ [ContractNext]_contractVars => BackoffInv'
  BY BackoffStep
<1>3. BackoffInv /\ [ContractNext]_contractVars =>
        [failed /\ history' # history => drain' = drain]_contractVars
  <2> SUFFICES ASSUME BackoffInv, ContractNext, failed, history' # history
               PROVE  drain' = drain
    OBVIOUS
  <2>1. Next /\ backingOff /\ unloads = {} /\ pageHides = 0
    BY DEF ContractNext, BackoffInv
  <2>2. PICK sig \in Sigs, bytes \in EventBytes : Enqueue(sig, bytes)
    BY <2>1 DEF Next, Start, Dispose, FlushCall, Tick, TokenResolved, ChunkSettled, ChunkFailed,
       InFlightCleared, FlushOnUnload, UnloadSettled, UnloadFailed, ClockMoves
  <2> QED
    BY <2>1, <2>2 DEF Enqueue
<1> QED
  BY <1>1, <1>2, <1>3, PTL DEF ContractSpec, NoEagerFlushAfterFailure

-----------------------------------------------------------------------------
\* Deduplication.

\* The signatures of the events of h accepted after the i-th.
SigsAfter(h, i) == {h[k].sig : k \in i + 1 .. Len(h)}

LEMMA SigsAfterFacts ==
  ASSUME NEW h, Len(h) \in Nat, NEW i \in Nat
  PROVE  /\ IsFiniteSet(SigsAfter(h, i)) /\ Cardinality(SigsAfter(h, i)) \in Nat
         /\ \A T \in SUBSET SigsAfter(h, i) :
               IsFiniteSet(T) /\ Cardinality(T) \in Nat /\ Cardinality(T) <= Cardinality(SigsAfter(h, i))
<1> DEFINE I == i + 1 .. Len(h)
           S == SigsAfter(h, i)
           f == [k \in I |-> h[k].sig]
<1>1. IsFiniteSet(I)
  BY FS_Interval
<1>2. f \in Surjection(I, S)
  BY DEF Surjection, SigsAfter
<1>3. IsFiniteSet(S)
  <2> HIDE DEF I, S, f
  <2> QED
    BY <1>1, <1>2, FS_Surjection
<1>4. \A T \in SUBSET S : IsFiniteSet(T) /\ Cardinality(T) <= Cardinality(S)
  <2> HIDE DEF S
  <2> QED
    BY <1>3, FS_Subset
<1> QED
  BY <1>3, <1>4, FS_CardinalityType

\* Each signature in r stands for the event of h at its place.
Stands(r, h) == \A s \in DOMAIN r : r[s].place \in 1 .. Len(h) /\ h[r[s].place].sig = s

\* pruneRecent forgets a signature that is not expired only after
\* DEDUPE_MAX_ENTRIES others were accepted.
LEMMA PrunedFacts ==
  ASSUME NEW r, NEW h, Len(h) \in Nat, IsFiniteSet(DOMAIN r), Stands(r, h),
         NEW s \in DOMAIN r, s \notin Unpruned(r), now - r[s].at < DedupeWindow
  PROVE  Cardinality(SigsAfter(h, r[s].place)) >= DedupeMaxEntries
<1> DEFINE live == {t \in DOMAIN r : now - r[t].at < DedupeWindow}
           T == {t \in live : r[t].place >= r[s].place}
           A == SigsAfter(h, r[s].place)
<1>1. s \in T /\ r[s].place \in 1 .. Len(h)
  BY DEF Stands
<1>2. IsFiniteSet(T) /\ Cardinality(T) \in Nat
  BY FS_Subset, FS_CardinalityType
<1>3. Cardinality(T) > DedupeMaxEntries
  <2>1. ~(Cardinality(T) <= DedupeMaxEntries)
    BY DEF Unpruned
  <2> QED
    BY <1>2, <2>1, ClientAssumption
<1>4. T \ {s} \subseteq A
  <2> SUFFICES ASSUME NEW t \in T, t # s
               PROVE  t \in A
    OBVIOUS
  <2>1. /\ r[t].place \in 1 .. Len(h) /\ h[r[t].place].sig = t
        /\ h[r[s].place].sig = s /\ r[t].place >= r[s].place
    BY DEF Stands
  <2>2. r[t].place \in r[s].place + 1 .. Len(h)
    BY <1>1, <2>1
  <2> QED
    BY <2>1, <2>2 DEF SigsAfter
<1>5. Cardinality(T \ {s}) <= Cardinality(A) /\ Cardinality(A) \in Nat
  <2> HIDE DEF T, A
  <2>1. r[s].place \in Nat
    BY <1>1
  <2> QED
    BY <1>4, <2>1, SigsAfterFacts DEF A
<1>6. Cardinality(T \ {s}) = Cardinality(T) - 1
  <2> HIDE DEF T
  <2> QED
    BY <1>1, <1>2, FS_RemoveElement
<1> QED
  <2> HIDE DEF T, A
  <2>1. Cardinality(A) >= DedupeMaxEntries
    BY <1>2, <1>3, <1>5, <1>6, ClientAssumption
  <2> QED
    BY <2>1 DEF A

\* The i-th event is expired, or its signature is remembered at least as late,
\* or DEDUPE_MAX_ENTRIES signatures were accepted since.
Accounted(i) ==
    \/ now - history[i].at >= DedupeWindow
    \/ /\ history[i].sig \in DOMAIN recent
       /\ recent[history[i].sig].place >= i
       /\ recent[history[i].sig].at >= history[i].at
    \/ Cardinality(SigsAfter(history, i)) >= DedupeMaxEntries

FloodInv ==
    /\ \A i \in DOMAIN history : history[i].at <= now
    /\ Stands(recent, history)
    /\ \A i \in DOMAIN history : Accounted(i)
    /\ ForgetsOnlyUnderFlood

LEMMA HistoryType ==
  ASSUME TypeOK
  PROVE  /\ Len(history) \in Nat /\ DOMAIN history = 1 .. Len(history)
         /\ \A i \in DOMAIN history : history[i].sig \in Sigs /\ history[i].at \in Int
         /\ \A s \in DOMAIN recent : recent[s].place \in Nat /\ recent[s].at \in Int
<1>1. history \in Seq([sig : Sigs, at : Int])
  BY DEF TypeOK
<1>2. Len(history) \in Nat /\ DOMAIN history = 1 .. Len(history)
  BY <1>1, LenProperties
<1>3. \A i \in DOMAIN history : history[i] \in [sig : Sigs, at : Int]
  BY <1>1, <1>2, ElementOfSeq
<1>4. \A s \in DOMAIN recent : recent[s] \in [at : Int, place : Nat]
  BY DEF TypeOK
<1> QED
  BY <1>2, <1>3, <1>4

LEMMA FloodEnqueue ==
  ASSUME LimitsInv, FloodInv, NEW sig \in Sigs, ~Suppressed(sig), recent' = Remember(sig),
         history' = Append(history, [sig |-> sig, at |-> now]), now' = now
  PROVE  FloodInv'
<1>1. /\ Len(history) \in Nat /\ DOMAIN history = 1 .. Len(history)
      /\ \A i \in DOMAIN history : history[i].sig \in Sigs /\ history[i].at \in Int
      /\ \A s \in DOMAIN recent : recent[s].place \in Nat /\ recent[s].at \in Int
      /\ IsFiniteSet(DOMAIN recent) /\ now \in Int
  BY HistoryType DEF LimitsInv, TypeOK
<1>2. PICK n \in Nat : n = Len(history) + 1
  BY <1>1
<1>3. /\ Len(history') = n /\ DOMAIN history' = 1 .. n
      /\ \A i \in 1 .. n - 1 : history'[i] = history[i]
      /\ history'[n].sig = sig /\ history'[n].at = now
  <2>1. history \in Seq([sig : Sigs, at : Int]) /\ [sig |-> sig, at |-> now] \in [sig : Sigs, at : Int]
    BY <1>1 DEF LimitsInv, TypeOK
  <2>2. /\ history' \in Seq([sig : Sigs, at : Int]) /\ Len(history') = Len(history) + 1
        /\ \A i \in 1 .. Len(history) : history'[i] = history[i]
        /\ history'[Len(history) + 1] = [sig |-> sig, at |-> now]
    BY <2>1, AppendProperties
  <2> QED
    BY <1>1, <1>2, <2>2, LenProperties
<1>4. PICK r : r = WithEntry(sig, n)
  OBVIOUS
<1>5. /\ DOMAIN r = DOMAIN recent \cup {sig} /\ r[sig].at = now /\ r[sig].place = n
      /\ \A s \in DOMAIN recent : s # sig => r[s] = recent[s]
  BY <1>4 DEF WithEntry
<1>6. IsFiniteSet(DOMAIN r)
  BY <1>1, <1>5, FS_AddElement
<1>7. Stands(r, history')
  <2> SUFFICES ASSUME NEW s \in DOMAIN r
               PROVE  r[s].place \in 1 .. Len(history') /\ history'[r[s].place].sig = s
    BY DEF Stands
  <2>1. CASE s = sig
    BY <1>2, <1>3, <1>5, <2>1
  <2>2. CASE s # sig
    <3>1. s \in DOMAIN recent /\ r[s] = recent[s]
      BY <1>5, <2>2
    <3>2. recent[s].place \in 1 .. n - 1 /\ history[recent[s].place].sig = s
      BY <1>1, <1>2, <3>1 DEF FloodInv, Stands
    <3> QED
      BY <1>3, <3>1, <3>2
  <2> QED
    BY <2>1, <2>2
<1>8. recent' = Pruned(r)
  BY <1>2, <1>4 DEF Remember
<1>9. /\ DOMAIN recent' \subseteq DOMAIN r
      /\ \A s \in DOMAIN recent' : recent'[s] = r[s]
      /\ \A s \in DOMAIN r : s \notin DOMAIN recent' => s \notin Unpruned(r)
  BY <1>8 DEF Pruned, Restrict, Unpruned
<1>10. Stands(recent', history')
  BY <1>7, <1>9 DEF Stands
<1>11. \A i \in DOMAIN history' : history'[i].at <= now'
  BY <1>1, <1>2, <1>3 DEF FloodInv
<1>12. ASSUME NEW i \in DOMAIN history', history'[i].sig \in DOMAIN r,
              r[history'[i].sig].place >= i, r[history'[i].sig].at >= history'[i].at
       PROVE  Accounted(i)'
  <2>1. PICK s \in DOMAIN r : s = history'[i].sig
    BY <1>12
  <2>2. /\ i \in Nat /\ r[s].place \in Nat /\ r[s].place >= i /\ r[s].at >= history'[i].at
        /\ r[s].at \in Int /\ history'[i].at \in Int
    BY <1>1, <1>2, <1>3, <1>5, <1>12, <2>1
  <2>3. CASE s \in DOMAIN recent'
    BY <1>9, <1>12, <2>1, <2>3 DEF Accounted
  <2>4. CASE s \notin DOMAIN recent' /\ now - r[s].at >= DedupeWindow
    BY <1>1, <2>2, <2>4, ClientAssumption DEF Accounted
  <2>5. CASE s \notin DOMAIN recent' /\ now - r[s].at < DedupeWindow
    <3>1. Len(history') \in Nat
      BY <1>3
    <3>2. Cardinality(SigsAfter(history', r[s].place)) >= DedupeMaxEntries
      BY <1>6, <1>7, <1>9, <2>5, <3>1, PrunedFacts
    <3>3. SigsAfter(history', r[s].place) \subseteq SigsAfter(history', i)
      BY <2>2, <3>1 DEF SigsAfter
    <3>4. /\ Cardinality(SigsAfter(history', r[s].place)) <= Cardinality(SigsAfter(history', i))
          /\ Cardinality(SigsAfter(history', r[s].place)) \in Nat
          /\ Cardinality(SigsAfter(history', i)) \in Nat
      BY <2>2, <3>1, <3>3, SigsAfterFacts
    <3>5. Cardinality(SigsAfter(history', i)) >= DedupeMaxEntries
      BY <3>2, <3>4, ClientAssumption
    <3> QED
      BY <3>5 DEF Accounted
  <2> QED
    BY <1>1, <2>2, <2>3, <2>4, <2>5, ClientAssumption
<1>13. \A i \in DOMAIN history' : Accounted(i)'
  <2> SUFFICES ASSUME NEW i \in DOMAIN history'
               PROVE  Accounted(i)'
    OBVIOUS
  <2>1. CASE history'[i].sig = sig
    <3>1. /\ sig \in DOMAIN r /\ r[sig].place >= i
      BY <1>2, <1>3, <1>5
    <3> QED
      BY <1>5, <1>11, <1>12, <2>1, <3>1
  <2>2. CASE history'[i].sig # sig
    <3>1. i \in 1 .. n - 1 /\ i \in DOMAIN history /\ history'[i] = history[i]
      BY <1>1, <1>2, <1>3, <2>2
    <3>2. Accounted(i)
      BY <3>1 DEF FloodInv
    <3>3. CASE now - history[i].at >= DedupeWindow
      BY <3>1, <3>3 DEF Accounted
    <3>4. CASE /\ history[i].sig \in DOMAIN recent
               /\ recent[history[i].sig].place >= i
               /\ recent[history[i].sig].at >= history[i].at
      BY <1>5, <1>12, <2>2, <3>1, <3>4
    <3>5. CASE Cardinality(SigsAfter(history, i)) >= DedupeMaxEntries
      <4>1. SigsAfter(history, i) \subseteq SigsAfter(history', i)
        BY <1>2, <1>3, <3>1 DEF SigsAfter
      <4>2. /\ Cardinality(SigsAfter(history, i)) <= Cardinality(SigsAfter(history', i))
            /\ Cardinality(SigsAfter(history, i)) \in Nat
            /\ Cardinality(SigsAfter(history', i)) \in Nat
        <5>1. Len(history') \in Nat /\ Len(history) \in Nat /\ i \in Nat
          BY <1>1, <1>2, <1>3, <3>1
        <5> QED
          BY <4>1, <5>1, SigsAfterFacts
      <4>3. Cardinality(SigsAfter(history', i)) >= DedupeMaxEntries
        BY <3>5, <4>2, ClientAssumption
      <4> QED
        BY <4>3 DEF Accounted
    <3> QED
      BY <3>2, <3>3, <3>4, <3>5 DEF Accounted
  <2> QED
    BY <2>1, <2>2
<1>14. ForgetsOnlyUnderFlood'
  <2> SUFFICES ASSUME NEW i \in DOMAIN history', NEW j \in DOMAIN history', i < j,
                      history'[i].sig = history'[j].sig,
                      history'[j].at - history'[i].at < DedupeWindow
               PROVE  Cardinality({history'[k].sig : k \in i + 1 .. j - 1}) >= DedupeMaxEntries
    BY DEF ForgetsOnlyUnderFlood
  <2>1. i \in 1 .. n - 1 /\ i \in DOMAIN history /\ history'[i] = history[i]
    BY <1>1, <1>2, <1>3
  <2>2. {history'[k].sig : k \in i + 1 .. j - 1} = {history[k].sig : k \in i + 1 .. j - 1}
    <3>1. \A k \in i + 1 .. j - 1 : history'[k] = history[k]
      BY <1>3, <2>1
    <3> QED
      BY <3>1
  <2>3. CASE j \in DOMAIN history
    <3>1. history'[j] = history[j]
      BY <1>1, <1>2, <1>3, <2>3
    <3> QED
      BY <2>1, <2>2, <2>3, <3>1 DEF FloodInv, ForgetsOnlyUnderFlood
  <2>4. CASE j = n
    <3>1. history[i].sig = sig /\ now - history[i].at < DedupeWindow
      BY <1>3, <2>1, <2>4
    <3>2. Accounted(i)
      BY <2>1 DEF FloodInv
    <3>3. ~(sig \in DOMAIN recent /\ recent[sig].at >= history[i].at)
      <4> SUFFICES ASSUME sig \in DOMAIN recent, recent[sig].at >= history[i].at
                   PROVE  FALSE
        OBVIOUS
      <4>1. recent[sig].at \in Int /\ history[i].at \in Int /\ DedupeWindow \in Nat
        BY <1>1, <2>1, ClientAssumption
      <4>2. now - recent[sig].at < DedupeWindow
        BY <1>1, <3>1, <4>1
      <4> QED
        BY <4>2 DEF Suppressed
    <3>4. Cardinality(SigsAfter(history, i)) >= DedupeMaxEntries
      BY <1>1, <2>1, <3>1, <3>2, <3>3, ClientAssumption DEF Accounted
    <3>5. SigsAfter(history, i) = {history[k].sig : k \in i + 1 .. j - 1}
      BY <1>1, <1>2, <2>4 DEF SigsAfter
    <3> QED
      BY <2>2, <3>4, <3>5
  <2>5. j \in DOMAIN history \/ j = n
    <3>1. j \in 1 .. n
      BY <1>3
    <3> QED
      BY <1>1, <1>2, <3>1
  <2> QED
    BY <2>3, <2>4, <2>5
<1> QED
  BY <1>10, <1>11, <1>13, <1>14 DEF FloodInv

LEMMA FloodStep ==
  ASSUME ClockSteps \subseteq Nat, LimitsInv, FloodInv, [Next]_vars
  PROVE  FloodInv'
<1>1. CASE \E sig \in Sigs, bytes \in EventBytes : Enqueue(sig, bytes)
  BY <1>1, FloodEnqueue DEF Enqueue
<1>2. CASE ClockMoves
  <2>1. /\ now' \in Int /\ now \in Int /\ now' >= now
        /\ history' = history /\ recent' = recent
    BY <1>2 DEF ClockMoves, LimitsInv, TypeOK
  <2>2. \A i \in DOMAIN history : history[i].at \in Int
    BY HistoryType DEF LimitsInv
  <2>3. \A i \in DOMAIN history' : history'[i].at <= now' /\ Accounted(i)'
    <3> SUFFICES ASSUME NEW i \in DOMAIN history
                 PROVE  history[i].at <= now' /\ Accounted(i)'
      BY <2>1
    <3>1. history[i].at \in Int /\ history[i].at <= now /\ Accounted(i) /\ DedupeWindow \in Nat
      BY <2>2, ClientAssumption DEF FloodInv
    <3>2. SigsAfter(history', i) = SigsAfter(history, i)
      BY <2>1
    <3>3. now - history[i].at >= DedupeWindow => now' - history[i].at >= DedupeWindow
      BY <2>1, <3>1
    <3> QED
      BY <2>1, <3>1, <3>2, <3>3 DEF Accounted
  <2> QED
    BY <2>1, <2>3 DEF FloodInv, Stands, ForgetsOnlyUnderFlood
<1>3. CASE UNCHANGED <<recent, now, history>>
  BY <1>3 DEF FloodInv, Accounted, Stands, ForgetsOnlyUnderFlood, SigsAfter
<1>4. \/ \E sig \in Sigs, bytes \in EventBytes : Enqueue(sig, bytes)
      \/ ClockMoves
      \/ UNCHANGED <<recent, now, history>>
  BY DEF Next, Start, Dispose, FlushCall, Tick, TokenResolved, ChunkSettled,
     ChunkFailed, InFlightCleared, FlushOnUnload, UnloadSettled, UnloadFailed, vars
<1> QED
  BY <1>1, <1>2, <1>3, <1>4

\* While the clock does not step back, a signature seen less than a window ago is
\* accepted again only after DEDUPE_MAX_ENTRIES others: pruneRecent forgets no more.
THEOREM DedupeForgetsOnlyUnderFlood ==
  ASSUME ClockSteps \subseteq Nat
  PROVE  Spec => []ForgetsOnlyUnderFlood
<1>1. Init => FloodInv
  BY DEF Init, FloodInv, Stands, ForgetsOnlyUnderFlood
<1>2. LimitsInv /\ FloodInv /\ [Next]_vars => FloodInv'
  BY FloodStep
<1>3. FloodInv => ForgetsOnlyUnderFlood
  BY DEF FloodInv
<1> QED
  BY LimitsInit, LimitsStep, <1>1, <1>2, <1>3, PTL DEF Spec
=============================================================================
