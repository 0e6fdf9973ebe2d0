------------------------ MODULE FlutterClient_proofs ------------------------
(***************************************************************************)
(* Proofs about FlutterClient, for every queue bound, batch size, window   *)
(* and clock: events stay in order, the oldest are the ones evicted,       *)
(* nothing is lost, and equal events are accepted a window apart unless    *)
(* the clock was set back after the first was pruned.                      *)
(***************************************************************************)
EXTENDS FlutterClient, SequenceTheorems, FiniteSetTheorems, TLAPS

Sorted(s) == \A i, j \in DOMAIN s : i < j => s[i] < s[j]

\* The places of the events: what the drain holds is older than the queue, and
\* every accepted event is pending or settled, not both.
PlacesInv ==
    /\ queue \in Seq(Nat)
    /\ drain \in DrainStates
    /\ drain.pc \in {"idle", "token"} => drain.chunk = <<>>
    /\ history \in Seq([sig : Sigs, at : Int]) /\ now \in Int
    /\ Sorted(drain.chunk) /\ Sorted(queue)
    /\ \A x \in Range(drain.chunk), y \in Range(queue) : x < y
    /\ Pending \cup DOMAIN fate = 1 .. Len(history)
    /\ Pending \cap DOMAIN fate = {}
    /\ fate = [id \in DOMAIN fate |-> fate[id]]
    /\ \A id \in DOMAIN fate : fate[id] \in {"sent", "dropped", "evicted"}

\* Event k made event i expired, and had more than PruneAbove signatures to prune.
Forgotten(i, k) ==
    /\ history[k].at - history[i].at > DedupeWindow
    /\ Cardinality({history[m].sig : m \in 1 .. k}) > PruneAbove

\* An accepted signature is remembered, as accepted then or later, until it is
\* expired and pruned.
Accounted(i) ==
    \/ \E k \in i + 1 .. Len(history) : Forgotten(i, k)
    \/ history[i].sig \in DOMAIN recent /\ recent[history[i].sig] >= history[i].at

DedupeInv ==
    /\ now \in Int
    /\ recent \in [DOMAIN recent -> Int]
    /\ DOMAIN recent \subseteq {history[m].sig : m \in 1 .. Len(history)}
    /\ history \in Seq([sig : Sigs, at : Int])
    /\ \A i \in DOMAIN history : Accounted(i)

FlutterInv ==
    /\ timerOn \in BOOLEAN /\ closed \in BOOLEAN
    /\ PlacesInv /\ DedupeInv /\ ForgetsOnlyIfSetBack

-----------------------------------------------------------------------------
\* Sequences of ids.

\* _trimQueue keeps a suffix: all of it, or exactly MaxQueue entries.
LEMMA TrimFacts ==
  ASSUME NEW s \in Seq(Nat)
  PROVE  /\ Trim(s) \in Seq(Nat)
         /\ \E d \in 0 .. Len(s) : /\ Len(Trim(s)) = Len(s) - d
                                   /\ \A i \in 1 .. Len(s) - d : Trim(s)[i] = s[i + d]
                                   /\ d > 0 => Len(s) - d = MaxQueue
<1> DEFINE m == Larger(1, Len(s) - MaxQueue + 1)
<1>1. Len(s) \in Nat /\ MaxQueue \in Nat
  BY LenProperties, FlutterAssumption
<1>2. /\ m \in Int /\ 1 <= m /\ m <= Len(s) + 1
      /\ m > 1 => m = Len(s) - MaxQueue + 1
  BY <1>1 DEF Larger
<1>3. \A i \in m .. Len(s) : s[i] \in Nat
  BY <1>2, ElementOfSeq
<1> HIDE DEF m
<1>4. /\ SubSeq(s, m, Len(s)) \in Seq(Nat)
      /\ Len(SubSeq(s, m, Len(s))) = IF m <= Len(s) THEN Len(s) - m + 1 ELSE 0
      /\ \A i \in 1 .. Len(s) - m + 1 : SubSeq(s, m, Len(s))[i] = s[m + i - 1]
  <2>1. m \in Int /\ Len(s) \in Int
    BY <1>1, <1>2
  <2> QED
    BY <1>3, <2>1, SubSeqProperties
<1>5. Trim(s) = SubSeq(s, m, Len(s))
  BY DEF Trim, m
<1>6. /\ m - 1 \in 0 .. Len(s) /\ Len(Trim(s)) = Len(s) - (m - 1)
      /\ m - 1 > 0 => Len(s) - (m - 1) = MaxQueue
  BY <1>1, <1>2, <1>4, <1>5
<1>7. \A i \in 1 .. Len(s) - (m - 1) : Trim(s)[i] = s[i + (m - 1)]
  BY <1>1, <1>2, <1>4, <1>5
<1> QED
  BY <1>4, <1>5, <1>6, <1>7

\* A sorted sequence has as many elements as it is long.
LEMMA SortedCardinality ==
  ASSUME NEW s \in Seq(Nat), Sorted(s)
  PROVE  IsFiniteSet(Range(s)) /\ Cardinality(Range(s)) = Len(s)
<1>1. Len(s) \in Nat /\ DOMAIN s = 1 .. Len(s) /\ s \in [1 .. Len(s) -> Nat]
  BY LenProperties
<1>2. \A i, j \in 1 .. Len(s) : i # j => s[i] # s[j]
  <2> SUFFICES ASSUME NEW i \in 1 .. Len(s), NEW j \in 1 .. Len(s), i < j
               PROVE  s[i] # s[j]
    BY <1>1
  <2>1. s[i] < s[j] /\ s[i] \in Nat /\ s[j] \in Nat
    BY <1>1 DEF Sorted
  <2> QED
    BY <2>1
<1>3. Range(s) = {s[i] : i \in 1 .. Len(s)}
  BY <1>1 DEF Range
<1>4. ExistsBijection(1 .. Len(s), Range(s))
  <2>1. s \in Bijection(1 .. Len(s), Range(s))
    BY <1>1, <1>2, <1>3 DEF Bijection, Injection, Surjection, IsInjective
  <2> QED
    BY <2>1 DEF ExistsBijection
<1> QED
  BY <1>1, <1>4, FS_CountingElements, FS_NatBijection

\* What trimming a sorted sequence loses is older than what it keeps, and
\* nothing is lost unless MaxQueue entries stay.
LEMMA TrimSorted ==
  ASSUME NEW s \in Seq(Nat), Sorted(s)
  PROVE  /\ Trim(s) \in Seq(Nat) /\ Sorted(Trim(s))
         /\ Range(Trim(s)) \subseteq Range(s)
         /\ \A lost \in Range(s) \ Range(Trim(s)), kept \in Range(Trim(s)) : lost < kept
         /\ IsFiniteSet(Range(Trim(s)))
         /\ Range(s) \ Range(Trim(s)) # {} => Cardinality(Range(Trim(s))) = MaxQueue
<1> DEFINE t == Trim(s)
<1>1. PICK d \in 0 .. Len(s) : /\ Len(t) = Len(s) - d
                               /\ \A i \in 1 .. Len(s) - d : t[i] = s[i + d]
                               /\ d > 0 => Len(s) - d = MaxQueue
  BY TrimFacts
<1>2. /\ t \in Seq(Nat) /\ Len(s) \in Nat /\ DOMAIN s = 1 .. Len(s)
      /\ DOMAIN t = 1 .. Len(s) - d /\ d \in Nat
  BY <1>1, TrimFacts, LenProperties
<1> HIDE DEF t
<1>3. \A i \in DOMAIN t : i + d \in DOMAIN s /\ t[i] = s[i + d]
  <2> DEFINE n == Len(s)
  <2>1. n \in Nat /\ DOMAIN s = 1 .. n /\ DOMAIN t = 1 .. n - d /\ \A i \in 1 .. n - d : t[i] = s[i + d]
    BY <1>1, <1>2
  <2> HIDE DEF n
  <2> QED
    BY <1>2, <2>1
<1>4. Sorted(t)
  <2> SUFFICES ASSUME NEW i \in DOMAIN t, NEW j \in DOMAIN t, i < j
               PROVE  t[i] < t[j]
    BY DEF Sorted
  <2>1. i + d < j + d
    BY <1>2
  <2>2. s[i + d] < s[j + d]
    BY <1>3, <2>1 DEF Sorted
  <2> QED
    BY <1>3, <2>2
<1>5. Range(t) \subseteq Range(s)
  BY <1>3 DEF Range
<1>6. ASSUME NEW x \in Range(s) \ Range(t)
      PROVE  d > 0 /\ \A y \in Range(t) : x < y
  <2>1. PICK i \in DOMAIN s : x = s[i]
    BY DEF Range
  <2>2. i <= d
    <3> SUFFICES ASSUME i > d PROVE FALSE
      BY <1>2
    <3>1. i - d \in DOMAIN t /\ (i - d) + d = i
      BY <1>2
    <3>2. t[i - d] = x
      BY <1>3, <2>1, <3>1
    <3> QED
      BY <1>6, <3>1, <3>2 DEF Range
  <2>3. ASSUME NEW y \in Range(t) PROVE x < y
    <3>1. PICK j \in DOMAIN t : y = t[j]
      BY DEF Range
    <3>2. i < j + d /\ j + d \in DOMAIN s /\ y = s[j + d]
      BY <1>2, <1>3, <2>2, <3>1
    <3> QED
      BY <2>1, <3>2 DEF Sorted
  <2> QED
    BY <1>2, <2>2, <2>3
<1>7. IsFiniteSet(Range(t)) /\ Cardinality(Range(t)) = Len(s) - d
  BY <1>1, <1>2, <1>4, SortedCardinality
<1>8. Range(s) \ Range(t) # {} => Cardinality(Range(t)) = MaxQueue
  BY <1>1, <1>6, <1>7
<1> QED
  BY <1>2, <1>4, <1>5, <1>6, <1>7, <1>8 DEF t

\* Concatenation: sorted when both parts are and the first is older.
LEMMA ConcatSorted ==
  ASSUME NEW s \in Seq(Nat), NEW t \in Seq(Nat)
  PROVE  /\ s \o t \in Seq(Nat) /\ Range(s \o t) = Range(s) \cup Range(t)
         /\ Sorted(s) /\ Sorted(t) /\ (\A x \in Range(s), y \in Range(t) : x < y)
               => Sorted(s \o t)
<1> DEFINE u == s \o t
<1>1. /\ Len(s) \in Nat /\ DOMAIN s = 1 .. Len(s)
      /\ Len(t) \in Nat /\ DOMAIN t = 1 .. Len(t)
  BY LenProperties
<1>2. /\ u \in Seq(Nat) /\ Len(u) = Len(s) + Len(t)
      /\ \A i \in 1 .. Len(s) + Len(t) : u[i] = IF i <= Len(s) THEN s[i] ELSE t[i - Len(s)]
  BY ConcatProperties
<1>3. DOMAIN u = 1 .. Len(s) + Len(t)
  BY <1>2, LenProperties
<1> HIDE DEF u
<1>4. /\ \A i \in DOMAIN s : i \in DOMAIN u /\ u[i] = s[i]
      /\ \A i \in DOMAIN t : i + Len(s) \in DOMAIN u /\ u[i + Len(s)] = t[i]
      /\ \A i \in DOMAIN u : \/ i \in DOMAIN s /\ u[i] = s[i]
                             \/ i - Len(s) \in DOMAIN t /\ i > Len(s) /\ u[i] = t[i - Len(s)]
  <2> DEFINE a == Len(s)
             b == Len(t)
  <2>1. /\ a \in Nat /\ b \in Nat /\ DOMAIN s = 1 .. a /\ DOMAIN t = 1 .. b
        /\ DOMAIN u = 1 .. a + b
        /\ \A i \in 1 .. a + b : u[i] = IF i <= a THEN s[i] ELSE t[i - a]
    BY <1>1, <1>2, <1>3
  <2> HIDE DEF a, b
  <2>2. /\ \A i \in 1 .. a : i \in 1 .. a + b /\ i <= a
        /\ \A i \in 1 .. b : i + a \in 1 .. a + b /\ ~(i + a <= a) /\ (i + a) - a = i
        /\ \A i \in 1 .. a + b : ~(i <= a) => i - a \in 1 .. b /\ i > a
        /\ \A i \in 1 .. a + b : i <= a => i \in 1 .. a
    BY <2>1
  <2>3. \A i \in DOMAIN s : i \in DOMAIN u /\ u[i] = s[i]
    BY <2>1, <2>2
  <2>4. \A i \in DOMAIN t : i + a \in DOMAIN u /\ u[i + a] = t[i]
    <3> SUFFICES ASSUME NEW i \in 1 .. b PROVE i + a \in 1 .. a + b /\ u[i + a] = t[i]
      BY <2>1
    <3>1. u[i + a] = t[(i + a) - a]
      BY <2>1, <2>2
    <3> QED
      BY <2>2, <3>1
  <2>5. \A i \in DOMAIN u :
           \/ i \in DOMAIN s /\ u[i] = s[i]
           \/ i - a \in DOMAIN t /\ i > a /\ u[i] = t[i - a]
    <3> SUFFICES ASSUME NEW i \in DOMAIN u
                 PROVE  \/ i \in DOMAIN s /\ u[i] = s[i]
                        \/ i - a \in DOMAIN t /\ i > a /\ u[i] = t[i - a]
      OBVIOUS
    <3>1. i \in 1 .. a + b
      BY <2>1
    <3>2. u[i] = IF i <= a THEN s[i] ELSE t[i - a]
      BY <2>1, <3>1
    <3>3. CASE i <= a
      BY <2>1, <2>2, <3>1, <3>2, <3>3
    <3>4. CASE ~(i <= a)
      BY <2>1, <2>2, <3>1, <3>2, <3>4
    <3> QED
      BY <3>3, <3>4
  <2> QED
    BY <2>3, <2>4, <2>5 DEF a, b
<1>5. Range(u) = Range(s) \cup Range(t)
  <2>1. Range(u) \subseteq Range(s) \cup Range(t)
    BY <1>4 DEF Range
  <2>2. Range(s) \subseteq Range(u) /\ Range(t) \subseteq Range(u)
    BY <1>4 DEF Range
  <2> QED
    BY <2>1, <2>2
<1>6. ASSUME Sorted(s), Sorted(t), \A x \in Range(s), y \in Range(t) : x < y
      PROVE  Sorted(u)
  <2> SUFFICES ASSUME NEW i \in DOMAIN u, NEW j \in DOMAIN u, i < j
               PROVE  u[i] < u[j]
    BY DEF Sorted
  <2>1. CASE j <= Len(s)
    <3>1. i \in DOMAIN s /\ j \in DOMAIN s /\ u[i] = s[i] /\ u[j] = s[j]
      BY <1>1, <1>2, <1>3, <2>1
    <3> QED
      BY <1>6, <3>1 DEF Sorted
  <2>2. CASE i > Len(s)
    <3>1. /\ i - Len(s) \in DOMAIN t /\ j - Len(s) \in DOMAIN t
          /\ u[i] = t[i - Len(s)] /\ u[j] = t[j - Len(s)] /\ i - Len(s) < j - Len(s)
      <4>1. /\ i \in Int /\ j \in Int /\ ~(i \in DOMAIN s) /\ ~(j \in DOMAIN s)
            /\ i - Len(s) < j - Len(s)
        BY <1>1, <1>3, <2>2
      <4> QED
        BY <1>4, <4>1
    <3> QED
      BY <1>6, <3>1 DEF Sorted
  <2>3. CASE i <= Len(s) /\ j > Len(s)
    <3>1. i \in DOMAIN s /\ j - Len(s) \in DOMAIN t /\ u[i] = s[i] /\ u[j] = t[j - Len(s)]
      BY <1>1, <1>2, <1>3, <2>3
    <3>2. u[i] \in Range(s) /\ u[j] \in Range(t)
      BY <3>1 DEF Range
    <3> QED
      BY <1>6, <3>2
  <2> QED
    BY <1>1, <1>3, <2>1, <2>2, <2>3
<1> QED
  BY <1>2, <1>5, <1>6 DEF u

\* Taking a prefix off a sorted sequence.
LEMMA SplitSorted ==
  ASSUME NEW s \in Seq(Nat), Sorted(s), NEW n \in 0 .. Len(s)
  PROVE  LET chunk == SubSeq(s, 1, n)
             rest == SubSeq(s, n + 1, Len(s))
         IN  /\ chunk \in Seq(Nat) /\ rest \in Seq(Nat)
             /\ Sorted(chunk) /\ Sorted(rest)
             /\ \A x \in Range(chunk), y \in Range(rest) : x < y
             /\ Range(chunk) \cup Range(rest) = Range(s)
<1> DEFINE chunk == SubSeq(s, 1, n)
           rest == SubSeq(s, n + 1, Len(s))
<1>1. Len(s) \in Nat /\ DOMAIN s = 1 .. Len(s) /\ n \in Nat /\ n <= Len(s)
  BY LenProperties
<1>2. \A i \in 1 .. Len(s) : s[i] \in Nat
  BY ElementOfSeq
<1>3. /\ chunk \in Seq(Nat) /\ DOMAIN chunk = 1 .. n
      /\ \A i \in 1 .. n : chunk[i] = s[i]
  <2>1. /\ chunk \in Seq(Nat)
        /\ Len(chunk) = IF 1 <= n THEN n - 1 + 1 ELSE 0
        /\ \A i \in 1 .. n - 1 + 1 : chunk[i] = s[1 + i - 1]
    <3>1. 1 \in Int /\ n \in Int /\ \A i \in 1 .. n : s[i] \in Nat
      BY <1>1, <1>2
    <3> QED
      BY <3>1, SubSeqProperties
  <2>2. DOMAIN chunk = 1 .. Len(chunk)
    BY <2>1, LenProperties
  <2>3. n - 1 + 1 = n /\ Len(chunk) = n
    BY <1>1, <2>1
  <2>4. \A i \in 1 .. n : 1 + i - 1 = i
    BY <1>1
  <2>5. \A i \in 1 .. n : chunk[i] = s[i]
    BY <2>1, <2>3, <2>4
  <2> QED
    BY <2>1, <2>2, <2>3, <2>5
<1>4. /\ rest \in Seq(Nat) /\ DOMAIN rest = 1 .. Len(s) - n
      /\ \A i \in 1 .. Len(s) - n : rest[i] = s[n + i]
  <2>1. /\ rest \in Seq(Nat)
        /\ Len(rest) = IF n + 1 <= Len(s) THEN Len(s) - (n + 1) + 1 ELSE 0
        /\ \A i \in 1 .. Len(s) - (n + 1) + 1 : rest[i] = s[n + 1 + i - 1]
    <3>1. n + 1 \in Int /\ Len(s) \in Int /\ \A i \in n + 1 .. Len(s) : s[i] \in Nat
      BY <1>1, <1>2
    <3> QED
      BY <3>1, SubSeqProperties
  <2>2. DOMAIN rest = 1 .. Len(rest)
    BY <2>1, LenProperties
  <2>3. Len(s) - (n + 1) + 1 = Len(s) - n /\ Len(rest) = Len(s) - n
    <3> DEFINE l == Len(s)
               k == Len(rest)
    <3>1. l \in Nat /\ n \in Nat /\ n <= l /\ k = IF n + 1 <= l THEN l - (n + 1) + 1 ELSE 0
      BY <1>1, <2>1
    <3> HIDE DEF l, k
    <3>2. l - (n + 1) + 1 = l - n /\ k = l - n
      BY <3>1
    <3> QED
      BY <3>2 DEF l, k
  <2>4. \A i \in 1 .. Len(s) - n : n + 1 + i - 1 = n + i
    BY <1>1
  <2>5. \A i \in 1 .. Len(s) - n : rest[i] = s[n + i]
    BY <2>1, <2>3, <2>4
  <2> QED
    BY <2>1, <2>2, <2>3, <2>5
<1> HIDE DEF chunk, rest
<1>a. /\ \A i \in DOMAIN chunk : i \in DOMAIN s /\ i <= n
      /\ \A i \in DOMAIN rest : n + i \in DOMAIN s /\ n < n + i
  <2> DEFINE l == Len(s)
  <2>1. l \in Nat /\ n \in Nat /\ n <= l /\ DOMAIN s = 1 .. l /\ DOMAIN chunk = 1 .. n /\ DOMAIN rest = 1 .. l - n
    BY <1>1, <1>3, <1>4
  <2> HIDE DEF l
  <2> QED
    BY <2>1
<1>5. Sorted(chunk)
  BY <1>1, <1>3 DEF Sorted
<1>6. Sorted(rest)
  <2> SUFFICES ASSUME NEW i \in DOMAIN rest, NEW j \in DOMAIN rest, i < j
               PROVE  rest[i] < rest[j]
    BY DEF Sorted
  <2>1. n + i < n + j /\ n + i \in DOMAIN s /\ n + j \in DOMAIN s
    BY <1>1, <1>4, <1>a
  <2> QED
    BY <1>4, <2>1 DEF Sorted
<1>7. ASSUME NEW x \in Range(chunk), NEW y \in Range(rest)
      PROVE  x < y
  <2>1. PICK i \in DOMAIN chunk : x = chunk[i]
    BY DEF Range
  <2>2. PICK j \in DOMAIN rest : y = rest[j]
    BY DEF Range
  <2>3. i < n + j /\ i \in DOMAIN s /\ n + j \in DOMAIN s
    <3>1. i <= n /\ n < n + j /\ i \in DOMAIN s /\ n + j \in DOMAIN s
      BY <1>a
    <3>2. i \in Int /\ n + j \in Int
      BY <1>1, <3>1
    <3> QED
      BY <1>1, <3>1, <3>2
  <2> QED
    BY <1>3, <1>4, <2>1, <2>2, <2>3 DEF Sorted
<1>8. Range(chunk) \cup Range(rest) = Range(s)
  <2>1. Range(chunk) \subseteq Range(s)
    BY <1>1, <1>3 DEF Range
  <2>2. Range(rest) \subseteq Range(s)
    BY <1>4, <1>a DEF Range
  <2>3. ASSUME NEW i \in DOMAIN s PROVE s[i] \in Range(chunk) \cup Range(rest)
    <3>1. CASE i <= n
      BY <1>1, <1>3, <3>1 DEF Range
    <3>2. CASE i > n
      <4>1. i - n \in DOMAIN rest /\ n + (i - n) = i
        BY <1>1, <1>4, <3>2
      <4>2. rest[i - n] = s[i]
        BY <1>4, <4>1
      <4> QED
        BY <4>1, <4>2 DEF Range
    <3> QED
      BY <1>1, <3>1, <3>2
  <2> QED
    BY <2>1, <2>2, <2>3 DEF Range
<1> QED
  BY <1>3, <1>4, <1>5, <1>6, <1>7, <1>8 DEF chunk, rest

LEMMA EmptySorted == Sorted(<<>>) /\ Range(<<>>) = {} /\ <<>> \in Seq(Nat)
BY EmptySeq DEF Sorted, Range

-----------------------------------------------------------------------------
\* The places of the events.

LEMMA PlacesInit == Init => PlacesInv
<1> SUFFICES ASSUME Init PROVE PlacesInv
  OBVIOUS
<1>1. queue = <<>> /\ drain = [pc |-> "idle", chunk |-> <<>>] /\ history = <<>> /\ DOMAIN fate = {}
  BY DEF Init, Idle
<1>2. /\ drain.chunk = <<>> /\ Len(history) = 0 /\ 1 .. Len(history) = {}
      /\ history \in Seq([sig : Sigs, at : Int]) /\ now \in Int
  BY <1>1, EmptySeq DEF Init
<1>3. drain \in DrainStates
  BY <1>1, EmptySorted DEF DrainStates
<1>4. fate = [id \in DOMAIN fate |-> fate[id]]
  BY DEF Init
<1>5. Pending = {}
  BY <1>1, <1>2, EmptySorted DEF Pending
<1> QED
  BY <1>1, <1>2, <1>3, <1>4, <1>5, EmptySorted DEF PlacesInv

\* WithFate gives the ids a fate and changes no fate already given.
LEMMA WithFateFacts ==
  ASSUME NEW ids, NEW f, fate' = WithFate(ids, f)
  PROVE  /\ DOMAIN fate' = DOMAIN fate \cup ids
         /\ \A id \in DOMAIN fate : fate'[id] = fate[id]
         /\ \A id \in ids \ DOMAIN fate : fate'[id] = f
         /\ fate' = [id \in DOMAIN fate' |-> fate'[id]]
BY DEF WithFate

\* flush() holds no events.
LEMMA FlushFacts ==
  ASSUME NEW q, Flush(q), drain \in DrainStates,
         drain.pc \in {"idle", "token"} => drain.chunk = <<>>
  PROVE  /\ drain' \in DrainStates /\ drain'.chunk = drain.chunk
         /\ drain'.pc \in {"idle", "token"} => drain'.chunk = <<>>
<1>1. CASE drain' = drain
  BY <1>1
<1>2. CASE drain.pc = "idle" /\ drain' = [pc |-> "token", chunk |-> <<>>]
  BY <1>2, EmptySorted DEF DrainStates
<1> QED
  BY <1>1, <1>2 DEF Flush

\* The loop head of _drain() moves the front of the queue to the chunk.
LEMMA NextChunkFacts ==
  ASSUME PlacesInv, NextChunk
  PROVE  /\ queue' \in Seq(Nat) /\ drain' \in DrainStates
         /\ drain'.pc \in {"idle", "token"} => drain'.chunk = <<>>
         /\ Sorted(queue') /\ Sorted(drain'.chunk)
         /\ \A x \in Range(drain'.chunk), y \in Range(queue') : x < y
         /\ Range(drain'.chunk) \cup Range(queue') = Range(queue)
<1> DEFINE n == Smaller(Len(queue), BatchSize)
           chunk == SubSeq(queue, 1, n)
<1>1. queue \in Seq(Nat) /\ Len(queue) \in Nat /\ Sorted(queue) /\ BatchSize \in Nat \ {0}
  BY LenProperties, FlutterAssumption DEF PlacesInv
<1>2. n \in 0 .. Len(queue)
  BY <1>1 DEF Smaller
<1>3. /\ drain' = IF n = 0 THEN Idle
                  ELSE [pc |-> IF closed THEN "refused" ELSE "sending", chunk |-> chunk]
      /\ queue' = SubSeq(queue, n + 1, Len(queue))
  BY DEF NextChunk
<1> HIDE DEF n
<1>4. /\ chunk \in Seq(Nat) /\ queue' \in Seq(Nat) /\ Sorted(chunk) /\ Sorted(queue')
      /\ \A x \in Range(chunk), y \in Range(queue') : x < y
      /\ Range(chunk) \cup Range(queue') = Range(queue)
  BY <1>1, <1>2, <1>3, SplitSorted
<1>5. CASE n = 0
  <2>1. drain' = [pc |-> "idle", chunk |-> <<>>] /\ drain'.chunk = <<>>
    BY <1>3, <1>5 DEF Idle
  <2>2. chunk = <<>>
    BY <1>1, <1>5, SubSeqEmpty
  <2>3. drain' \in DrainStates
    BY <2>1, EmptySorted DEF DrainStates
  <2> QED
    BY <1>4, <2>1, <2>2, <2>3, EmptySorted
<1>6. CASE n # 0
  <2>1. /\ drain'.chunk = chunk /\ drain'.pc \in {"refused", "sending"}
        /\ drain' = [pc |-> drain'.pc, chunk |-> chunk]
    BY <1>3, <1>6
  <2> HIDE DEF chunk
  <2>2. drain' \in DrainStates
    BY <1>4, <2>1 DEF DrainStates
  <2> QED
    BY <1>4, <2>1, <2>2
<1> QED
  BY <1>5, <1>6

\* The queue after _trimQueue, when s is what it was before.
LEMMA TrimmedFacts ==
  ASSUME NEW s \in Seq(Nat), Sorted(s), QueueTrimmed(s), Range(s) \cap DOMAIN fate = {},
         \A id \in DOMAIN fate : fate[id] \in {"sent", "dropped", "evicted"}
  PROVE  /\ queue' \in Seq(Nat) /\ Sorted(queue') /\ Range(queue') \subseteq Range(s)
         /\ Range(queue') \cup DOMAIN fate' = Range(s) \cup DOMAIN fate
         /\ Range(queue') \cap DOMAIN fate' = {}
         /\ DOMAIN fate' \ DOMAIN fate = Range(s) \ Range(queue')
         /\ fate' = [id \in DOMAIN fate' |-> fate'[id]]
         /\ \A id \in DOMAIN fate' : fate'[id] \in {"sent", "dropped", "evicted"}
         /\ \A lost \in DOMAIN fate' \ DOMAIN fate, kept \in Range(queue') : lost < kept
<1>1. queue' = Trim(s) /\ fate' = WithFate(Range(s) \ Range(queue'), "evicted")
  BY DEF QueueTrimmed
<1>2. /\ queue' \in Seq(Nat) /\ Sorted(queue') /\ Range(queue') \subseteq Range(s)
      /\ \A lost \in Range(s) \ Range(queue'), kept \in Range(queue') : lost < kept
  BY <1>1, TrimSorted
<1>3. /\ DOMAIN fate' = DOMAIN fate \cup (Range(s) \ Range(queue'))
      /\ \A id \in DOMAIN fate : fate'[id] = fate[id]
      /\ \A id \in (Range(s) \ Range(queue')) \ DOMAIN fate : fate'[id] = "evicted"
      /\ fate' = [id \in DOMAIN fate' |-> fate'[id]]
  <2> DEFINE lost == Range(s) \ Range(queue')
  <2>1. fate' = WithFate(lost, "evicted")
    BY <1>1
  <2> HIDE DEF lost
  <2>2. /\ DOMAIN fate' = DOMAIN fate \cup lost
        /\ \A id \in DOMAIN fate : fate'[id] = fate[id]
        /\ \A id \in lost \ DOMAIN fate : fate'[id] = "evicted"
        /\ fate' = [id \in DOMAIN fate' |-> fate'[id]]
    BY <2>1, WithFateFacts
  <2> QED
    BY <2>2 DEF lost
<1>4. DOMAIN fate' \ DOMAIN fate = Range(s) \ Range(queue')
  BY <1>3
<1>5. \A id \in DOMAIN fate' : fate'[id] \in {"sent", "dropped", "evicted"}
  BY <1>3
<1> QED
  BY <1>2, <1>3, <1>4, <1>5

\* The new event goes to the end of the queue: it is younger than all others.
LEMMA AppendFacts ==
  ASSUME PlacesInv
  PROVE  LET id == Len(history) + 1
             s == Append(queue, id)
         IN  /\ id \in Nat /\ id \notin Pending \cup DOMAIN fate
             /\ s \in Seq(Nat) /\ Sorted(s) /\ Range(s) = Range(queue) \cup {id}
             /\ Range(s) \cap DOMAIN fate = {}
             /\ \A x \in Range(drain.chunk), y \in Range(s) : x < y
             /\ 1 .. id = (1 .. Len(history)) \cup {id}
<1> DEFINE id == Len(history) + 1
           one == <<id>>
<1>1. /\ queue \in Seq(Nat) /\ Len(history) \in Nat /\ id \in Nat
      /\ Range(queue) \subseteq 1 .. Len(history) /\ Range(drain.chunk) \subseteq 1 .. Len(history)
      /\ Pending \cup DOMAIN fate = 1 .. Len(history)
  BY LenProperties DEF PlacesInv, Pending
<1>2. \A x \in 1 .. Len(history) : x < id
  BY <1>1
<1>3. id \notin Pending \cup DOMAIN fate /\ 1 .. id = (1 .. Len(history)) \cup {id}
  BY <1>1
<1> HIDE DEF id
<1>4. one \in Seq(Nat) /\ Sorted(one) /\ Range(one) = {id} /\ Append(queue, id) = queue \o one
  <2>1. one \in Seq(Nat) /\ Append(queue, id) = queue \o one
    BY <1>1, AppendIsConcat
  <2> QED
    BY <2>1 DEF Sorted, Range
<1> HIDE DEF one
<1>5. /\ Append(queue, id) \in Seq(Nat) /\ Sorted(Append(queue, id))
      /\ Range(Append(queue, id)) = Range(queue) \cup {id}
  BY <1>1, <1>2, <1>4, ConcatSorted DEF PlacesInv
<1>6. Range(Append(queue, id)) \cap DOMAIN fate = {}
  BY <1>3, <1>5 DEF PlacesInv, Pending
<1>7. \A x \in Range(drain.chunk), y \in Range(Append(queue, id)) : x < y
  BY <1>1, <1>2, <1>5 DEF PlacesInv
<1> QED
  BY <1>1, <1>3, <1>5, <1>6, <1>7 DEF id

\* The steps that leave the places of the events alone.
LEMMA IdlePlaces ==
  ASSUME PlacesInv, UNCHANGED <<queue, history, fate>>, now' \in Int,
         drain' = drain \/ \E q : Flush(q)
  PROVE  PlacesInv' /\ Pending' = Pending
<1>1. /\ drain' \in DrainStates /\ drain'.chunk = drain.chunk
      /\ drain'.pc \in {"idle", "token"} => drain'.chunk = <<>>
  BY FlushFacts DEF PlacesInv
<1> QED
  BY <1>1 DEF PlacesInv, Pending

LEMMA PlacesStep == PlacesInv /\ [Next]_vars => PlacesInv'
<1> SUFFICES ASSUME PlacesInv, [Next]_vars
             PROVE  PlacesInv'
  OBVIOUS
<1>0. /\ queue \in Seq(Nat) /\ drain \in DrainStates /\ drain.chunk \in Seq(Nat)
      /\ history \in Seq([sig : Sigs, at : Int]) /\ Len(history) \in Nat /\ now \in Int
      /\ Sorted(queue) /\ Sorted(drain.chunk)
      /\ \A x \in Range(drain.chunk), y \in Range(queue) : x < y
      /\ Range(queue) \cup Range(drain.chunk) \cup DOMAIN fate = 1 .. Len(history)
      /\ Range(queue) \cap DOMAIN fate = {} /\ Range(drain.chunk) \cap DOMAIN fate = {}
      /\ \A id \in DOMAIN fate : fate[id] \in {"sent", "dropped", "evicted"}
      /\ fate = [id \in DOMAIN fate |-> fate[id]]
  BY LenProperties DEF PlacesInv, DrainStates, Pending
<1>d. \A x \in Range(drain.chunk) : x \notin Range(queue)
  <2>1. Range(queue) \subseteq 1 .. Len(history) /\ Range(drain.chunk) \subseteq 1 .. Len(history)
    BY <1>0
  <2>2. \A x \in 1 .. Len(history) : ~(x < x)
    BY <1>0
  <2> QED
    BY <1>0, <2>1, <2>2
<1>1. CASE Start \/ Dispose \/ FlushCall \/ Tick \/ ClockMoves \/ UNCHANGED vars
  <2>1. UNCHANGED <<queue, history, fate>> /\ (drain' = drain \/ \E q : Flush(q))
    BY <1>1 DEF Start, Dispose, FlushCall, Tick, ClockMoves, vars
  <2>2. now' \in Int
    BY <1>0, <1>1 DEF Start, Dispose, FlushCall, Tick, ClockMoves, vars
  <2> QED
    BY <2>1, <2>2, IdlePlaces
<1>2. ASSUME NEW sig \in Sigs, Enqueue(sig)
      PROVE  PlacesInv'
  <2> DEFINE id == Len(history) + 1
             s == Append(queue, id)
  <2>1. /\ id \in Nat /\ id \notin Pending \cup DOMAIN fate
        /\ s \in Seq(Nat) /\ Sorted(s) /\ Range(s) = Range(queue) \cup {id}
        /\ Range(s) \cap DOMAIN fate = {}
        /\ \A x \in Range(drain.chunk), y \in Range(s) : x < y
        /\ 1 .. id = (1 .. Len(history)) \cup {id}
    BY AppendFacts
  <2>2. /\ QueueTrimmed(s) /\ (drain' = drain \/ \E q : Flush(q)) /\ now' = now
        /\ history' = Append(history, [sig |-> sig, at |-> now])
    BY <1>2 DEF Enqueue
  <2>3. history' \in Seq([sig : Sigs, at : Int]) /\ Len(history') = id
    BY <1>0, <2>2, AppendProperties
  <2> HIDE DEF s, id
  <2>4. /\ queue' \in Seq(Nat) /\ Sorted(queue') /\ Range(queue') \subseteq Range(s)
        /\ Range(queue') \cup DOMAIN fate' = Range(s) \cup DOMAIN fate
        /\ Range(queue') \cap DOMAIN fate' = {}
        /\ DOMAIN fate' \ DOMAIN fate = Range(s) \ Range(queue')
        /\ fate' = [i \in DOMAIN fate' |-> fate'[i]]
        /\ \A i \in DOMAIN fate' : fate'[i] \in {"sent", "dropped", "evicted"}
    BY <1>0, <2>1, <2>2, TrimmedFacts
  <2>5. /\ drain' \in DrainStates /\ drain'.chunk = drain.chunk
        /\ drain'.pc \in {"idle", "token"} => drain'.chunk = <<>>
    BY <2>2, FlushFacts DEF PlacesInv
  <2>6. Pending' = Range(queue') \cup Range(drain.chunk)
    BY <2>5 DEF Pending
  <2>7. id \notin Range(drain.chunk)
    BY <2>1 DEF Pending
  <2>8. Pending' \cup DOMAIN fate' = 1 .. Len(history')
    BY <1>0, <2>1, <2>3, <2>4, <2>6
  <2>9. Pending' \cap DOMAIN fate' = {}
    BY <1>0, <1>d, <2>1, <2>4, <2>6, <2>7
  <2> QED
    BY <1>0, <2>1, <2>2, <2>3, <2>4, <2>5, <2>8, <2>9 DEF PlacesInv
<1>3. CASE TokenResolved
  <2>1. NextChunk /\ UNCHANGED <<history, fate, now>> /\ drain.chunk = <<>>
    BY <1>3 DEF TokenResolved, PlacesInv
  <2>2. Pending' = Pending
    BY <2>1, NextChunkFacts, EmptySorted DEF Pending
  <2> QED
    BY <2>1, <2>2, NextChunkFacts DEF PlacesInv
<1>4. ASSUME NEW outcome \in {"sent", "dropped"}, ChunkDone(outcome)
      PROVE  PlacesInv'
  <2>1. /\ NextChunk /\ UNCHANGED <<history, now>>
        /\ fate' = WithFate(Range(drain.chunk), outcome)
    BY <1>4 DEF ChunkDone
  <2>2. /\ DOMAIN fate' = DOMAIN fate \cup Range(drain.chunk)
        /\ \A id \in DOMAIN fate : fate'[id] = fate[id]
        /\ \A id \in Range(drain.chunk) \ DOMAIN fate : fate'[id] = outcome
        /\ fate' = [id \in DOMAIN fate' |-> fate'[id]]
    BY <2>1, WithFateFacts
  <2>3. Pending' = Range(queue)
    BY <2>1, NextChunkFacts DEF Pending
  <2>4. /\ Pending' \cup DOMAIN fate' = 1 .. Len(history')
        /\ Pending' \cap DOMAIN fate' = {}
    BY <1>0, <1>d, <2>1, <2>2, <2>3
  <2>5. \A id \in DOMAIN fate' : fate'[id] \in {"sent", "dropped", "evicted"}
    BY <1>0, <2>2
  <2> QED
    BY <1>0, <2>1, <2>2, <2>4, <2>5, NextChunkFacts DEF PlacesInv
<1>5. CASE ChunkFailed
  <2> DEFINE s == drain.chunk \o queue
  <2>1. QueueTrimmed(s) /\ drain' = [pc |-> "idle", chunk |-> <<>>] /\ UNCHANGED <<history, now>>
    BY <1>5 DEF ChunkFailed, Idle
  <2>2. s \in Seq(Nat) /\ Range(s) = Range(drain.chunk) \cup Range(queue) /\ Sorted(s)
    BY <1>0, ConcatSorted
  <2> HIDE DEF s
  <2>3. /\ queue' \in Seq(Nat) /\ Sorted(queue')
        /\ Range(queue') \cup DOMAIN fate' = Range(s) \cup DOMAIN fate
        /\ Range(queue') \cap DOMAIN fate' = {}
        /\ fate' = [i \in DOMAIN fate' |-> fate'[i]]
        /\ \A i \in DOMAIN fate' : fate'[i] \in {"sent", "dropped", "evicted"}
    BY <1>0, <2>1, <2>2, TrimmedFacts
  <2>4. drain' \in DrainStates /\ drain'.chunk = <<>>
    BY <2>1, EmptySorted DEF DrainStates
  <2>5. Pending' = Range(queue')
    BY <2>4, EmptySorted DEF Pending
  <2> QED
    BY <1>0, <2>1, <2>2, <2>3, <2>4, <2>5, EmptySorted DEF PlacesInv
<1> QED
  BY <1>1, <1>2, <1>3, <1>4, <1>5 DEF Next, ChunkAnswered

\* What the drain holds and what is queued, in one sorted sequence.
LEMMA PlacesInOrder == PlacesInv => InOrder
<1> SUFFICES ASSUME PlacesInv PROVE InOrder
  OBVIOUS
<1>1. Sorted(drain.chunk \o queue)
  BY ConcatSorted DEF PlacesInv, DrainStates
<1> QED
  BY <1>1 DEF Sorted, InOrder

\* One step evicts only what is older than all that stays queued.
LEMMA EvictionStep ==
  PlacesInv /\ [Next]_vars =>
    \A lost \in DOMAIN fate' \ DOMAIN fate, kept \in Range(queue') :
       fate'[lost] = "evicted" => lost < kept
<1> SUFFICES ASSUME PlacesInv, [Next]_vars,
                    NEW lost \in DOMAIN fate' \ DOMAIN fate, NEW kept \in Range(queue'),
                    fate'[lost] = "evicted"
             PROVE  lost < kept
  OBVIOUS
<1>0. /\ drain.chunk \in Seq(Nat) /\ queue \in Seq(Nat) /\ Sorted(queue) /\ Sorted(drain.chunk)
      /\ \A x \in Range(drain.chunk), y \in Range(queue) : x < y
      /\ Range(queue) \cap DOMAIN fate = {} /\ Range(drain.chunk) \cap DOMAIN fate = {}
      /\ \A id \in DOMAIN fate : fate[id] \in {"sent", "dropped", "evicted"}
  BY DEF PlacesInv, DrainStates, Pending
<1>1. ASSUME NEW s \in Seq(Nat), Sorted(s), Range(s) \cap DOMAIN fate = {}, QueueTrimmed(s)
      PROVE  lost < kept
  BY <1>0, <1>1, TrimmedFacts
<1>2. ASSUME NEW sig \in Sigs, Enqueue(sig)
      PROVE  lost < kept
  <2> DEFINE s == Append(queue, Len(history) + 1)
  <2>1. s \in Seq(Nat) /\ Sorted(s) /\ Range(s) \cap DOMAIN fate = {}
    BY AppendFacts
  <2>2. QueueTrimmed(s)
    BY <1>2 DEF Enqueue
  <2> HIDE DEF s
  <2> QED
    BY <1>1, <2>1, <2>2
<1>3. ASSUME NEW outcome \in {"sent", "dropped"}, ChunkDone(outcome)
      PROVE  lost < kept
  <2>1. fate' = WithFate(Range(drain.chunk), outcome)
    BY <1>3 DEF ChunkDone
  <2>2. /\ DOMAIN fate' = DOMAIN fate \cup Range(drain.chunk)
        /\ \A id \in Range(drain.chunk) \ DOMAIN fate : fate'[id] = outcome
    BY <2>1, WithFateFacts
  <2> QED
    BY <2>2
<1>4. CASE ChunkFailed
  <2> DEFINE s == drain.chunk \o queue
  <2>1. QueueTrimmed(s)
    BY <1>4 DEF ChunkFailed
  <2>2. s \in Seq(Nat) /\ Range(s) = Range(drain.chunk) \cup Range(queue) /\ Sorted(s)
    BY <1>0, ConcatSorted
  <2> HIDE DEF s
  <2> QED
    BY <1>0, <1>1, <2>1, <2>2
<1>5. CASE Start \/ Dispose \/ FlushCall \/ Tick \/ ClockMoves \/ TokenResolved \/ UNCHANGED vars
  BY <1>5 DEF Start, Dispose, FlushCall, Tick, ClockMoves, TokenResolved, vars
<1> QED
  BY <1>2, <1>3, <1>4, <1>5 DEF Next, ChunkAnswered

-----------------------------------------------------------------------------
\* Deduplication.

LEMMA DedupeInit == Init => DedupeInv /\ ForgetsOnlyIfSetBack
<1> SUFFICES ASSUME Init PROVE DedupeInv /\ ForgetsOnlyIfSetBack
  OBVIOUS
<1>1. now = 0 /\ recent = [s \in {} |-> 0] /\ history = <<>>
  BY DEF Init
<1>2. history \in Seq([sig : Sigs, at : Int]) /\ DOMAIN history = {}
  BY <1>1, EmptySeq
<1> QED
  BY <1>1, <1>2 DEF DedupeInv, ForgetsOnlyIfSetBack

\* Pruning forgets only what is older than a window, and only above the limit.
LEMMA RememberFacts ==
  ASSUME NEW sig \in Sigs, now \in Int, recent' = Remember(sig),
         recent \in [DOMAIN recent -> Int]
  PROVE  /\ recent' \in [DOMAIN recent' -> Int]
         /\ DOMAIN recent' \subseteq DOMAIN recent \cup {sig}
         /\ \A s \in DOMAIN recent :
               \/ /\ now - recent[s] > DedupeWindow
                  /\ Cardinality(DOMAIN recent \cup {sig}) > PruneAbove
               \/ s \in DOMAIN recent' /\ recent'[s] = IF s = sig THEN now ELSE recent[s]
         /\ sig \in DOMAIN recent' /\ recent'[sig] = now
<1> DEFINE r == [s \in DOMAIN recent \cup {sig} |-> IF s = sig THEN now ELSE recent[s]]
           live == {s \in DOMAIN r : now - r[s] <= DedupeWindow}
           D == DOMAIN recent \cup {sig}
<1>1. /\ DOMAIN r = D /\ sig \in D /\ DOMAIN recent \subseteq D
      /\ \A s \in D : r[s] = (IF s = sig THEN now ELSE recent[s]) /\ r[s] \in Int
  OBVIOUS
<1>2. \/ recent' = r
      \/ Cardinality(DOMAIN r) > PruneAbove /\ recent' = Restrict(r, live)
  BY DEF Remember
<1>3. live \subseteq D /\ DedupeWindow \in Nat
  BY FlutterAssumption
<1>4. \A s \in D : s \in live <=> now - r[s] <= DedupeWindow
  OBVIOUS
<1>5. r = [s \in D |-> r[s]]
  OBVIOUS
<1> HIDE DEF r, live
<1>6. sig \in live
  BY <1>1, <1>3, <1>4
<1>7. CASE recent' = r
  BY <1>1, <1>5, <1>7
<1>8. CASE Cardinality(DOMAIN r) > PruneAbove /\ recent' = Restrict(r, live)
  <2>1. recent' = [s \in live |-> r[s]]
    BY <1>8 DEF Restrict
  <2>2. ASSUME NEW s \in DOMAIN recent, s \notin live
        PROVE  now - recent[s] > DedupeWindow
    <3>1. s # sig /\ s \in D /\ r[s] = recent[s] /\ r[s] \in Int
      BY <1>1, <1>6, <2>2
    <3> QED
      BY <1>3, <1>4, <2>2, <3>1
  <2>3. Cardinality(D) > PruneAbove
    BY <1>1, <1>8
  <2>4. \A s \in live : recent'[s] = (IF s = sig THEN now ELSE recent[s]) /\ recent'[s] \in Int
    BY <1>1, <1>3, <2>1
  <2> QED
    BY <1>1, <1>3, <1>6, <2>1, <2>2, <2>3, <2>4
<1> QED
  BY <1>2, <1>7, <1>8

LEMMA DedupeStep ==
  DedupeInv /\ ForgetsOnlyIfSetBack /\ [Next]_vars => (DedupeInv /\ ForgetsOnlyIfSetBack)'
<1> SUFFICES ASSUME DedupeInv, ForgetsOnlyIfSetBack, [Next]_vars
             PROVE  DedupeInv' /\ ForgetsOnlyIfSetBack'
  OBVIOUS
<1>0. /\ now \in Int /\ DedupeWindow \in Nat /\ PruneAbove \in Nat
      /\ recent \in [DOMAIN recent -> Int]
      /\ history \in Seq([sig : Sigs, at : Int])
      /\ Len(history) \in Nat /\ DOMAIN history = 1 .. Len(history)
      /\ \A i \in DOMAIN history : history[i].at \in Int /\ history[i].sig \in Sigs
  <2>1. \A i \in DOMAIN history : history[i] \in [sig : Sigs, at : Int]
    BY LenProperties, ElementOfSeq DEF DedupeInv
  <2> QED
    BY <2>1, LenProperties, FlutterAssumption DEF DedupeInv
<1>1. CASE UNCHANGED <<recent, history>> /\ now' \in Int
  <2>1. recent' = recent /\ history' = history
    BY <1>1
  <2>2. \A i, k : Forgotten(i, k)' <=> Forgotten(i, k)
    BY <2>1 DEF Forgotten
  <2>3. \A i : Accounted(i)' <=> Accounted(i)
    BY <2>1, <2>2 DEF Accounted
  <2>4. DedupeInv'
    BY <1>1, <2>1, <2>3 DEF DedupeInv
  <2>5. ForgetsOnlyIfSetBack'
    <3> SUFFICES ASSUME NEW i \in DOMAIN history', NEW j \in DOMAIN history',
                        i < j, history'[i].sig = history'[j].sig,
                        history'[j].at - history'[i].at < DedupeWindow
                 PROVE  \E k \in i + 1 .. j - 1 : Forgotten(i, k)'
      BY DEF ForgetsOnlyIfSetBack, Forgotten
    <3>1. \E k \in i + 1 .. j - 1 : Forgotten(i, k)
      BY <2>1 DEF ForgetsOnlyIfSetBack, Forgotten
    <3> QED
      BY <2>2, <3>1
  <2> QED
    BY <2>4, <2>5
<1>2. CASE ClockMoves
  <2>1. now' \in Int /\ UNCHANGED <<recent, history>>
    BY <1>0, <1>2, FlutterAssumption DEF ClockMoves
  <2> QED
    BY <1>1, <2>1
<1>3. ASSUME NEW sig \in Sigs, Enqueue(sig)
      PROVE  DedupeInv' /\ ForgetsOnlyIfSetBack'
  <2> DEFINE e == [sig |-> sig, at |-> now]
             D == DOMAIN recent \cup {sig}
  <2>n. PICK n \in Nat : n = Len(history) + 1
    BY <1>0
  <2>1. /\ recent' = Remember(sig) /\ now' = now /\ history' = Append(history, e)
        /\ ~Suppressed(sig)
    BY <1>3 DEF Enqueue
  <2>2. /\ recent' \in [DOMAIN recent' -> Int] /\ DOMAIN recent' \subseteq D
        /\ \A s \in DOMAIN recent :
              \/ now - recent[s] > DedupeWindow /\ Cardinality(D) > PruneAbove
              \/ s \in DOMAIN recent' /\ recent'[s] = IF s = sig THEN now ELSE recent[s]
        /\ sig \in DOMAIN recent' /\ recent'[sig] = now
    BY <1>0, <2>1, RememberFacts
  <2>3. /\ history' \in Seq([sig : Sigs, at : Int]) /\ Len(history') = n
        /\ DOMAIN history' = DOMAIN history \cup {n} /\ n \notin DOMAIN history
        /\ \A i \in DOMAIN history : history'[i] = history[i] /\ i < n /\ i \in Nat
        /\ history'[n].sig = sig /\ history'[n].at = now
    <3>1. e \in [sig : Sigs, at : Int]
      BY <1>0
    <3>2. /\ history' \in Seq([sig : Sigs, at : Int]) /\ Len(history') = n
          /\ \A i \in 1 .. Len(history) : history'[i] = history[i]
          /\ history'[n] = e
      BY <1>0, <2>1, <2>n, <3>1, AppendProperties
    <3>3. DOMAIN history' = 1 .. n
      BY <3>2, LenProperties
    <3>4. 1 .. n = (1 .. Len(history)) \cup {n} /\ \A i \in 1 .. Len(history) : i < n /\ i \in Nat
      BY <1>0, <2>n
    <3> QED
      BY <1>0, <3>2, <3>3, <3>4
  <2>h. DOMAIN history = 1 .. n - 1 /\ DOMAIN history' = 1 .. n
    BY <1>0, <2>n, <2>3
  \* What was forgotten stays so; what this event prunes, it forgets.
  <2>4. ASSUME NEW i \in DOMAIN history, NEW k \in DOMAIN history, Forgotten(i, k)
        PROVE  Forgotten(i, k)'
    <3>1. \A m \in 1 .. k : m \in DOMAIN history
      BY <2>h
    <3>2. {history'[m].sig : m \in 1 .. k} = {history[m].sig : m \in 1 .. k}
      BY <2>3, <3>1
    <3>3. history'[k] = history[k] /\ history'[i] = history[i]
      BY <2>3
    <3> QED
      BY <2>4, <3>2, <3>3 DEF Forgotten
  <2>5. Cardinality(D) > PruneAbove => Cardinality({history'[m].sig : m \in 1 .. n}) > PruneAbove
    <3> DEFINE S == {history'[m].sig : m \in 1 .. n}
    <3>1. IsFiniteSet(1 .. n)
      <4>1. 1 \in Int /\ n \in Int
        BY <2>n
      <4> QED
        BY <4>1, FS_Interval
    <3>2. IsFiniteSet(S)
      <4> DEFINE f == [m \in 1 .. n |-> history'[m].sig]
      <4>1. f \in Surjection(1 .. n, S)
        BY DEF Surjection
      <4> QED
        BY <3>1, <4>1, FS_Surjection
    <3>3. D \subseteq S
      <4>1. \A m \in 1 .. Len(history) : m \in DOMAIN history
        BY <1>0
      <4>2. \A m \in DOMAIN history : history[m].sig \in S
        BY <2>h, <2>3
      <4>3. n \in 1 .. n
        BY <2>n, <1>0
      <4>4. sig \in S
        BY <2>3, <4>3
      <4> QED
        BY <4>1, <4>2, <4>4 DEF DedupeInv
    <3> HIDE DEF S
    <3>4. Cardinality(D) <= Cardinality(S) /\ Cardinality(D) \in Nat /\ Cardinality(S) \in Nat
      BY <3>2, <3>3, FS_Subset, FS_CardinalityType
    <3>5. Cardinality(D) > PruneAbove => Cardinality(S) > PruneAbove
      BY <1>0, <3>4
    <3> QED
      BY <3>5 DEF S
  <2>6. ASSUME NEW i \in DOMAIN history
        PROVE  Accounted(i)'
    <3>1. /\ history[i].at \in Int /\ i < n /\ i \in Nat
          /\ history'[i] = history[i]
          /\ Accounted(i)
      BY <1>0, <2>3 DEF DedupeInv
    <3>2. CASE \E k \in i + 1 .. Len(history) : Forgotten(i, k)
      <4>1. PICK k \in i + 1 .. Len(history) : Forgotten(i, k)
        BY <3>2
      <4>2. k \in DOMAIN history /\ k \in i + 1 .. Len(history')
        BY <1>0, <2>n, <2>3, <3>1
      <4> QED
        BY <2>4, <4>1, <4>2 DEF Accounted
    <3>3. CASE history[i].sig \in DOMAIN recent /\ recent[history[i].sig] >= history[i].at
      <4>1. recent[history[i].sig] \in Int
        BY <1>0, <3>3
      <4>2. CASE now - recent[history[i].sig] > DedupeWindow /\ Cardinality(D) > PruneAbove
        <5>1. now - history[i].at > DedupeWindow
          BY <1>0, <3>1, <3>3, <4>1, <4>2
        <5>2. Forgotten(i, n)'
          BY <2>3, <2>5, <3>1, <4>2, <5>1 DEF Forgotten
        <5>3. n \in i + 1 .. Len(history')
          BY <2>3, <3>1
        <5> QED
          BY <5>2, <5>3 DEF Accounted
      <4>3. CASE /\ history[i].sig \in DOMAIN recent'
                 /\ recent'[history[i].sig] = IF history[i].sig = sig THEN now
                                              ELSE recent[history[i].sig]
        <5>1. history[i].sig = sig => now >= recent[history[i].sig]
          <6>1. sig \in DOMAIN recent => ~(now - recent[sig] < DedupeWindow)
            BY <2>1 DEF Suppressed
          <6> QED
            BY <1>0, <3>3, <4>1, <6>1
        <5>2. recent'[history[i].sig] >= history[i].at
          BY <1>0, <3>1, <3>3, <4>1, <4>3, <5>1
        <5> QED
          BY <3>1, <4>3, <5>2 DEF Accounted
      <4> QED
        BY <2>2, <3>3, <4>2, <4>3
    <3> QED
      BY <3>1, <3>2, <3>3 DEF Accounted
  <2>7. Accounted(n)'
    BY <1>0, <2>2, <2>3 DEF Accounted
  <2>8. ForgetsOnlyIfSetBack'
    <3> SUFFICES ASSUME NEW i \in DOMAIN history', NEW j \in DOMAIN history',
                        i < j, history'[i].sig = history'[j].sig,
                        history'[j].at - history'[i].at < DedupeWindow
                 PROVE  \E k \in i + 1 .. j - 1 : Forgotten(i, k)'
      BY DEF ForgetsOnlyIfSetBack, Forgotten
    <3>1. i \in DOMAIN history /\ i \in Nat /\ j \in Nat
      BY <2>h
    <3>2. CASE j \in DOMAIN history
      <4>1. history[i].sig = history[j].sig /\ history[j].at - history[i].at < DedupeWindow
        BY <2>3, <3>1, <3>2
      <4>2. PICK k \in i + 1 .. j - 1 : Forgotten(i, k)
        BY <3>1, <3>2, <4>1 DEF ForgetsOnlyIfSetBack, Forgotten
      <4>3. k \in DOMAIN history
        BY <2>h, <3>1, <3>2
      <4> QED
        BY <2>4, <3>1, <4>2, <4>3
    <3>3. CASE j = n
      <4>1. history[i].sig = sig /\ now - history[i].at < DedupeWindow
        BY <2>3, <3>1, <3>3
      <4>2. ~(sig \in DOMAIN recent /\ recent[sig] >= history[i].at)
        <5>1. sig \in DOMAIN recent => recent[sig] \in Int /\ ~(now - recent[sig] < DedupeWindow)
          BY <1>0, <2>1 DEF Suppressed
        <5>2. history[i].at \in Int
          BY <1>0, <3>1
        <5> QED
          BY <1>0, <4>1, <5>1, <5>2
      <4>3. PICK k \in i + 1 .. Len(history) : Forgotten(i, k)
        BY <3>1, <4>1, <4>2 DEF DedupeInv, Accounted
      <4>4. k \in DOMAIN history /\ k \in i + 1 .. j - 1
        BY <1>0, <2>n, <3>1, <3>3
      <4> QED
        BY <2>4, <3>1, <4>3, <4>4
    <3> QED
      BY <2>3, <3>2, <3>3
  <2>9. \A i \in DOMAIN history' : Accounted(i)'
    BY <2>3, <2>6, <2>7
  <2>10. DOMAIN recent' \subseteq {history'[m].sig : m \in 1 .. Len(history')}
    <3>1. \A s \in DOMAIN recent : \E m \in DOMAIN history : history[m].sig = s
      BY <1>0 DEF DedupeInv
    <3>2. \A s \in DOMAIN recent \cup {sig} : \E m \in 1 .. n : history'[m].sig = s
      BY <2>h, <2>3, <3>1
    <3> QED
      BY <2>2, <2>3, <3>2
  <2> QED
    BY <1>0, <2>1, <2>2, <2>3, <2>8, <2>9, <2>10 DEF DedupeInv
<1>4. CASE Start \/ Dispose \/ FlushCall \/ Tick \/ TokenResolved \/ ChunkFailed
  BY <1>0, <1>1, <1>4 DEF Start, Dispose, FlushCall, Tick, TokenResolved, ChunkFailed
<1>5. CASE ChunkAnswered
  BY <1>0, <1>1, <1>5 DEF ChunkAnswered, ChunkDone
<1>6. CASE UNCHANGED vars
  BY <1>0, <1>1, <1>6 DEF vars
<1> QED
  BY <1>2, <1>3, <1>4, <1>5, <1>6 DEF Next

-----------------------------------------------------------------------------
\* The mailbox.

LEMMA MailboxCardinality == \A S : Mailbox!Cardinality(S) = Cardinality(S)
BY DEF Mailbox!Cardinality, Cardinality

LEMMA MailboxInit == Init => Mailbox!Init
<1> SUFFICES ASSUME Init PROVE Mailbox!Init
  OBVIOUS
<1>1. queue = <<>> /\ drain.chunk = <<>> /\ fate = [id \in {} |-> "sent"]
  BY DEF Init, Idle
<1> QED
  BY <1>1, EmptySorted DEF Mailbox!Init, Pending

LEMMA MailboxStep ==
  PlacesInv /\ PlacesInv' /\ [Next]_vars => [Mailbox!Next]_(Mailbox!vars)
<1> SUFFICES ASSUME PlacesInv, PlacesInv', [Next]_vars
             PROVE  Mailbox!Next \/ (Pending' = Pending /\ fate' = fate)
  BY DEF Mailbox!vars
<1>0. /\ queue \in Seq(Nat) /\ drain \in DrainStates /\ drain.chunk \in Seq(Nat)
      /\ Len(history) \in Nat /\ MaxEvents \in Nat
      /\ Sorted(queue) /\ Sorted(drain.chunk)
      /\ \A x \in Range(drain.chunk), y \in Range(queue) : x < y
      /\ Pending = Range(queue) \cup Range(drain.chunk)
      /\ Range(queue) \cap DOMAIN fate = {} /\ Range(drain.chunk) \cap DOMAIN fate = {}
      /\ Pending \cap DOMAIN fate = {}
      /\ \A id \in DOMAIN fate : fate[id] \in {"sent", "dropped", "evicted"}
      /\ fate = [id \in DOMAIN fate |-> fate[id]]
  BY LenProperties, FlutterAssumption DEF PlacesInv, DrainStates, Pending
<1>w. \A ids, f : Mailbox!WithFate(ids, f) = WithFate(ids, f)
  BY DEF Mailbox!WithFate, WithFate
<1>n. WithFate({}, "evicted") = fate
  BY <1>0 DEF WithFate
\* As many events stay pending as stay in a trimmed queue.
<1>c. IsFiniteSet(Pending') /\ Range(queue') \subseteq Pending'
  <2>1. queue' \in Seq(Nat) /\ Sorted(queue') /\ drain'.chunk \in Seq(Nat) /\ Sorted(drain'.chunk)
    BY DEF PlacesInv, DrainStates
  <2>2. IsFiniteSet(Range(queue')) /\ IsFiniteSet(Range(drain'.chunk))
    BY <2>1, SortedCardinality
  <2> QED
    BY <2>2, FS_Union DEF Pending
<1>e. ASSUME NEW s \in Seq(Nat), Sorted(s), QueueTrimmed(s)
      PROVE  LET lost == Range(s) \ Range(queue')
             IN  /\ fate' = Mailbox!WithFate(lost, "evicted")
                 /\ lost # {} => Mailbox!Cardinality(Pending') >= MaxQueue
  <2> DEFINE lost == Range(s) \ Range(queue')
  <2>1. queue' = Trim(s) /\ fate' = WithFate(lost, "evicted")
    BY <1>e DEF QueueTrimmed
  <2> HIDE DEF lost
  <2>2. lost # {} => IsFiniteSet(Range(queue')) /\ Cardinality(Range(queue')) = MaxQueue
    BY <1>e, <2>1, TrimSorted DEF lost
  <2>3. IsFiniteSet(Range(queue')) /\ Cardinality(Range(queue')) <= Cardinality(Pending')
    BY <1>c, FS_Subset
  <2>4. Cardinality(Pending') \in Nat /\ Cardinality(Range(queue')) \in Nat
    BY <1>c, <2>3, FS_CardinalityType
  <2>5. lost # {} => Mailbox!Cardinality(Pending') >= MaxQueue
    BY <2>2, <2>3, <2>4, MailboxCardinality, FlutterAssumption
  <2>6. fate' = Mailbox!WithFate(lost, "evicted")
    BY <1>w, <2>1
  <2> QED
    BY <2>5, <2>6 DEF lost
<1>1. CASE Start \/ Dispose \/ FlushCall \/ Tick \/ ClockMoves \/ UNCHANGED vars
  <2>1. UNCHANGED <<queue, history, fate>> /\ (drain' = drain \/ \E q : Flush(q)) /\ now' \in Int
    BY <1>1 DEF Start, Dispose, FlushCall, Tick, ClockMoves, vars, PlacesInv
  <2> QED
    BY <2>1, IdlePlaces
<1>2. ASSUME NEW sig \in Sigs, Enqueue(sig)
      PROVE  Mailbox!Next
  <2> DEFINE id == Len(history) + 1
             s == Append(queue, id)
             lost == Range(s) \ Range(queue')
  <2>1. /\ id \in Nat /\ id \notin Pending \cup DOMAIN fate
        /\ s \in Seq(Nat) /\ Sorted(s) /\ Range(s) = Range(queue) \cup {id}
        /\ Range(s) \cap DOMAIN fate = {}
        /\ \A x \in Range(drain.chunk), y \in Range(s) : x < y
    BY AppendFacts
  <2>2. QueueTrimmed(s) /\ (drain' = drain \/ \E q : Flush(q)) /\ Len(history) < MaxEvents
    BY <1>2 DEF Enqueue
  <2>3. id \in 1 .. MaxEvents
    BY <1>0, <2>2
  <2> HIDE DEF s, id
  <2>4. fate' = Mailbox!WithFate(lost, "evicted") /\ (lost # {} => Mailbox!Cardinality(Pending') >= MaxQueue)
    BY <1>e, <2>1, <2>2
  <2>5. drain'.chunk = drain.chunk
    BY <2>2, FlushFacts DEF PlacesInv
  <2>6. Range(queue') \subseteq Range(s)
    BY <1>0, <2>1, <2>2, TrimmedFacts
  <2>7. \A x \in Range(drain.chunk) : x \notin Range(s)
    <3>1. \A x \in Range(drain.chunk) : x \in Int
      BY <1>0, LenProperties, ElementOfSeq DEF Range
    <3>2. \A x \in Range(drain.chunk) : ~(x < x)
      BY <3>1
    <3> QED
      BY <2>1, <3>2
  <2>8. Pending' = Range(queue') \cup Range(drain.chunk)
    BY <2>5 DEF Pending
  <2>9. Pending' = (Pending \cup {id}) \ lost
    BY <1>0, <2>1, <2>6, <2>7, <2>8
  <2>10. lost \in SUBSET (Pending \cup {id})
    BY <1>0, <2>1
  <2> HIDE DEF lost
  <2>11. Mailbox!EvictFrom(Pending \cup {id}, lost)
    BY <2>4, <2>9 DEF Mailbox!EvictFrom
  <2>12. Mailbox!Accept(id)
    BY <2>1, <2>10, <2>11 DEF Mailbox!Accept
  <2> QED
    BY <2>3, <2>12 DEF Mailbox!Next
<1>3. CASE TokenResolved
  <2>1. NextChunk /\ UNCHANGED fate /\ drain.chunk = <<>>
    BY <1>3 DEF TokenResolved, PlacesInv
  <2> QED
    BY <2>1, NextChunkFacts, EmptySorted DEF Pending
<1>4. ASSUME NEW outcome \in {"sent", "dropped"}, ChunkDone(outcome)
      PROVE  Mailbox!Next \/ (Pending' = Pending /\ fate' = fate)
  <2> DEFINE ids == Range(drain.chunk)
  <2>1. NextChunk /\ fate' = WithFate(ids, outcome)
    BY <1>4 DEF ChunkDone
  <2>2. Pending' = Range(queue)
    BY <2>1, NextChunkFacts DEF Pending
  <2>3. \A x \in ids : x \notin Range(queue)
    <3>1. \A x \in ids : x \in Int
      BY <1>0, LenProperties, ElementOfSeq DEF Range
    <3>2. \A x \in ids : ~(x < x)
      BY <3>1
    <3> QED
      BY <1>0, <3>2
  <2>4. Pending' = Pending \ ids /\ ids \subseteq Pending
    BY <1>0, <2>2, <2>3
  <2> HIDE DEF ids
  <2>5. CASE ids = {}
    <3>1. fate' = fate
      BY <1>0, <2>1, <2>5 DEF WithFate
    <3> QED
      BY <2>4, <2>5, <3>1
  <2>6. CASE ids # {}
    <3>1. fate' = Mailbox!WithFate(ids, outcome) /\ outcome \in Mailbox!FinalFates
      BY <1>w, <2>1 DEF Mailbox!FinalFates
    <3>2. Mailbox!Settle(ids, outcome)
      BY <2>4, <3>1 DEF Mailbox!Settle
    <3>3. ids \in (SUBSET Pending) \ {{}}
      BY <2>4, <2>6
    <3> QED
      BY <3>1, <3>2, <3>3 DEF Mailbox!Next
  <2> QED
    BY <2>5, <2>6
<1>5. CASE ChunkFailed
  <2> DEFINE s == drain.chunk \o queue
             lost == Range(s) \ Range(queue')
  <2>1. QueueTrimmed(s) /\ drain'.chunk = <<>>
    BY <1>5 DEF ChunkFailed, Idle
  <2>2. s \in Seq(Nat) /\ Range(s) = Pending /\ Sorted(s)
    BY <1>0, ConcatSorted
  <2> HIDE DEF s
  <2>3. fate' = Mailbox!WithFate(lost, "evicted") /\ (lost # {} => Mailbox!Cardinality(Pending') >= MaxQueue)
    BY <1>e, <2>1, <2>2
  <2>4. Range(queue') \subseteq Range(s)
    BY <1>0, <2>1, <2>2, TrimmedFacts
  <2>5. Pending' = Range(queue')
    BY <2>1, EmptySorted DEF Pending
  <2>6. Pending' = Pending \ lost /\ lost \subseteq Pending
    BY <2>2, <2>4, <2>5
  <2> HIDE DEF lost
  <2>7. CASE lost = {}
    BY <1>n, <1>w, <2>3, <2>6, <2>7
  <2>8. CASE lost # {}
    <3>1. Mailbox!EvictFrom(Pending, lost)
      BY <2>3, <2>6 DEF Mailbox!EvictFrom
    <3>2. lost \in (SUBSET Pending) \ {{}}
      BY <2>6, <2>8
    <3> QED
      BY <3>1, <3>2 DEF Mailbox!Next, Mailbox!Evict
  <2> QED
    BY <2>7, <2>8
<1> QED
  BY <1>1, <1>2, <1>3, <1>4, <1>5 DEF Next, ChunkAnswered

-----------------------------------------------------------------------------
\* The results.

LEMMA SwitchesStep ==
  timerOn \in BOOLEAN /\ closed \in BOOLEAN /\ [Next]_vars => (timerOn \in BOOLEAN /\ closed \in BOOLEAN)'
BY DEF Next, Start, Dispose, Enqueue, FlushCall, Tick, TokenResolved, ChunkAnswered, ChunkDone,
       ChunkFailed, ClockMoves, vars

LEMMA FlutterCorrect == Spec => []FlutterInv
<1>1. Init => FlutterInv
  BY PlacesInit, DedupeInit DEF FlutterInv, Init
<1>2. FlutterInv /\ [Next]_vars => FlutterInv'
  BY PlacesStep, DedupeStep, SwitchesStep DEF FlutterInv
<1> QED
  BY <1>1, <1>2, PTL DEF Spec

\* The Flutter client's variables always have their types.
THEOREM FlutterTypes == Spec => []TypeOK
<1>1. FlutterInv => TypeOK
  <2> SUFFICES ASSUME FlutterInv PROVE TypeOK
    OBVIOUS
  <2>1. 1 .. Len(history) \subseteq Nat
    OBVIOUS
  <2>2. DOMAIN fate \subseteq Nat
    BY <2>1 DEF FlutterInv, PlacesInv
  <2>3. DOMAIN recent \subseteq Sigs
    <3>1. \A m \in DOMAIN history : history[m] \in [sig : Sigs, at : Int]
      BY LenProperties, ElementOfSeq DEF FlutterInv, DedupeInv
    <3>2. \A m \in 1 .. Len(history) : history[m].sig \in Sigs
      BY <3>1, LenProperties DEF FlutterInv, DedupeInv
    <3> QED
      BY <3>2 DEF FlutterInv, DedupeInv
  <2> QED
    BY <2>2, <2>3 DEF FlutterInv, PlacesInv, DedupeInv, TypeOK
<1> QED
  BY FlutterCorrect, <1>1, PTL

\* Whatever fails and is retried, what the drain holds and what waits behind it
\* are in the order of acceptance, each event once.
THEOREM FlutterKeepsOrder == Spec => []InOrder
<1>1. FlutterInv => InOrder
  BY PlacesInOrder DEF FlutterInv
<1> QED
  BY FlutterCorrect, <1>1, PTL

\* _trimQueue never drops an event younger than one it keeps.
THEOREM FlutterEvictsOldest == Spec => EvictsOldest
<1>1. FlutterInv /\ [Next]_vars =>
        [\A lost \in DOMAIN fate' \ DOMAIN fate, kept \in Range(queue') :
           fate'[lost] = "evicted" => lost < kept]_vars
  BY EvictionStep DEF FlutterInv
<1> QED
  BY FlutterCorrect, <1>1, PTL DEF Spec, EvictsOldest

\* Whatever the clock does, an event comes through within a window of an equal
\* one only if the clock was set back after the first one was pruned.
THEOREM FlutterForgetsOnlyIfSetBack == Spec => []ForgetsOnlyIfSetBack
<1>1. FlutterInv => ForgetsOnlyIfSetBack
  BY DEF FlutterInv
<1> QED
  BY FlutterCorrect, <1>1, PTL

-----------------------------------------------------------------------------
\* A clock that is never set back.

\* Events with one signature are accepted at least DedupeWindow apart.
AcceptedAWindowApart ==
    \A i, j \in DOMAIN history :
       i < j /\ history[i].sig = history[j].sig => history[j].at - history[i].at >= DedupeWindow

ForwardInv ==
    /\ \A i \in DOMAIN history : history[i].at <= now
    /\ \A i, j \in DOMAIN history : i < j => history[i].at <= history[j].at

LEMMA ForwardStep ==
  ASSUME ClockSteps \subseteq Nat, DedupeInv, ForwardInv, [Next]_vars
  PROVE  ForwardInv'
<1>0. /\ now \in Int /\ Len(history) \in Nat /\ DOMAIN history = 1 .. Len(history)
      /\ \A i \in DOMAIN history : history[i].at \in Int
  <2>1. \A i \in DOMAIN history : history[i] \in [sig : Sigs, at : Int]
    BY LenProperties, ElementOfSeq DEF DedupeInv
  <2> QED
    BY <2>1, LenProperties DEF DedupeInv
<1>1. CASE history' = history /\ now' = now
  BY <1>1 DEF ForwardInv
<1>2. CASE ClockMoves
  <2>1. history' = history /\ now' \in Int /\ now <= now'
    BY <1>0, <1>2 DEF ClockMoves
  <2> QED
    BY <1>0, <2>1 DEF ForwardInv
<1>3. ASSUME NEW sig \in Sigs, Enqueue(sig)
      PROVE  ForwardInv'
  <2>n. PICK n \in Nat : n = Len(history) + 1
    BY <1>0
  <2>1. now' = now /\ history' = Append(history, [sig |-> sig, at |-> now])
    BY <1>3 DEF Enqueue
  <2>2. /\ \A i \in 1 .. n - 1 : history'[i] = history[i]
        /\ history'[n].at = now /\ DOMAIN history' = 1 .. n
    <3>1. history \in Seq([sig : Sigs, at : Int]) /\ [sig |-> sig, at |-> now] \in [sig : Sigs, at : Int]
      BY <1>0 DEF DedupeInv
    <3>2. /\ history' \in Seq([sig : Sigs, at : Int]) /\ Len(history') = n
          /\ \A i \in 1 .. Len(history) : history'[i] = history[i]
          /\ history'[n] = [sig |-> sig, at |-> now]
      BY <2>1, <2>n, <3>1, AppendProperties
    <3>3. 1 .. n - 1 = 1 .. Len(history)
      BY <1>0, <2>n
    <3> QED
      BY <3>2, <3>3, LenProperties
  <2>3. \A i \in 1 .. n : history'[i].at <= now /\ (i # n => i \in DOMAIN history)
    <3>1. \A i \in 1 .. n : i = n \/ i \in 1 .. n - 1
      BY <2>n
    <3>2. 1 .. n - 1 = DOMAIN history /\ now <= now
      BY <1>0, <2>n
    <3> QED
      BY <2>2, <3>1, <3>2 DEF ForwardInv
  <2>4. ASSUME NEW i \in 1 .. n, NEW j \in 1 .. n, i < j
        PROVE  history'[i].at <= history'[j].at
    <3>1. i # n /\ i \in 1 .. n - 1
      BY <2>n, <2>4
    <3>2. CASE j = n
      BY <2>2, <2>3, <3>2
    <3>3. CASE j # n
      <4>1. j \in 1 .. n - 1 /\ i \in DOMAIN history /\ j \in DOMAIN history
        BY <2>3, <2>4, <2>n, <3>1, <3>3
      <4> QED
        BY <2>2, <2>4, <3>1, <4>1 DEF ForwardInv
    <3> QED
      BY <3>2, <3>3
  <2> QED
    BY <2>1, <2>2, <2>3, <2>4 DEF ForwardInv
<1>4. CASE Start \/ Dispose \/ FlushCall \/ Tick \/ TokenResolved \/ ChunkFailed
  BY <1>1, <1>4 DEF Start, Dispose, FlushCall, Tick, TokenResolved, ChunkFailed
<1>5. CASE ChunkAnswered
  BY <1>1, <1>5 DEF ChunkAnswered, ChunkDone
<1>6. CASE UNCHANGED vars
  BY <1>1, <1>6 DEF vars
<1> QED
  BY <1>2, <1>3, <1>4, <1>5, <1>6 DEF Next

LEMMA ForwardApart ==
  ASSUME DedupeInv, ForwardInv, ForgetsOnlyIfSetBack
  PROVE  AcceptedAWindowApart
<1> SUFFICES ASSUME NEW i \in DOMAIN history, NEW j \in DOMAIN history,
                    i < j, history[i].sig = history[j].sig,
                    history[j].at - history[i].at < DedupeWindow
             PROVE  FALSE
  <2>0. \A h \in DOMAIN history : history[h] \in [sig : Sigs, at : Int]
    BY LenProperties, ElementOfSeq DEF DedupeInv
  <2>1. \A h \in DOMAIN history : history[h].at \in Int
    BY <2>0
  <2>2. DedupeWindow \in Nat
    BY FlutterAssumption
  <2> QED
    BY <2>1, <2>2 DEF AcceptedAWindowApart
<1>1. PICK k \in i + 1 .. j - 1 : history[k].at - history[i].at > DedupeWindow
  BY DEF ForgetsOnlyIfSetBack
<1>2. k \in DOMAIN history /\ k < j
  <2>1. Len(history) \in Nat /\ DOMAIN history = 1 .. Len(history)
    BY LenProperties DEF DedupeInv
  <2> QED
    BY <2>1
<1>3. history[i].at \in Int /\ history[j].at \in Int /\ history[k].at \in Int /\ DedupeWindow \in Nat
  <2>1. \A h \in DOMAIN history : history[h] \in [sig : Sigs, at : Int]
    BY LenProperties, ElementOfSeq DEF DedupeInv
  <2> QED
    BY <1>2, <2>1, FlutterAssumption
<1>4. history[k].at <= history[j].at
  BY <1>2 DEF ForwardInv
<1> QED
  BY <1>1, <1>3, <1>4

\* On a clock that is never set back, events with one signature are accepted
\* DedupeWindow apart, however many are remembered and whenever they are pruned.
THEOREM FlutterDedupes ==
  ASSUME ClockSteps \subseteq Nat
  PROVE  Spec => []AcceptedAWindowApart
<1>1. Init => ForwardInv
  <2> SUFFICES ASSUME Init PROVE ForwardInv
    OBVIOUS
  <2>1. history = <<>>
    BY DEF Init
  <2>2. DOMAIN history = {}
    BY <2>1
  <2> QED
    BY <2>2 DEF ForwardInv
<1>2. FlutterInv /\ ForwardInv /\ [Next]_vars => ForwardInv'
  BY ForwardStep DEF FlutterInv
<1>3. FlutterInv /\ ForwardInv => AcceptedAWindowApart
  BY ForwardApart DEF FlutterInv
<1> QED
  BY FlutterCorrect, <1>1, <1>2, <1>3, PTL DEF Spec

\* The Flutter client is a lossy mailbox: no event is lost, settled twice or
\* evicted before MaxQueue others are pending.
THEOREM FlutterIsAMailbox == Spec => ImplementsMailbox
<1>1. FlutterInv /\ FlutterInv' /\ [Next]_vars => [Mailbox!Next]_(Mailbox!vars)
  BY MailboxStep DEF FlutterInv
<1> QED
  BY FlutterCorrect, MailboxInit, <1>1, PTL DEF Spec, ImplementsMailbox, Mailbox!Spec
=============================================================================
