--------------------------- MODULE Gateway_proofs ---------------------------
(***************************************************************************)
(* Proofs about StackMonitor and Gateway, for every list of components,    *)
(* every number of senders, apps and events, and every limit.              *)
(***************************************************************************)
EXTENDS Gateway, SequenceTheorems, FiniteSetTheorems, TLAPS

-----------------------------------------------------------------------------
\* Sets of natural numbers.

LEMMA LeastElement ==
  ASSUME NEW S \in SUBSET Nat, S # {}
  PROVE  \E m \in S : \A k \in S : m <= k
<1>1. PICK n \in S : TRUE
  OBVIOUS
<1>2. IsWellFoundedOn(OpToRel(<, Nat), Nat)
  BY NatLessThanWellFounded
<1>3. PICK m \in S : \A k \in S : <<k, m>> \notin OpToRel(<, Nat)
  BY <1>1, <1>2, WFMin
<1>4. \A k \in S : ~(k < m)
  BY <1>3 DEF OpToRel
<1> QED
  BY <1>4

LEMMA GreatestElement ==
  ASSUME NEW n \in Nat, NEW S \in SUBSET (0 .. n), S # {}
  PROVE  \E m \in S : \A k \in S : k <= m
<1> DEFINE T == {n - k : k \in S}
<1>1. PICK s \in S : TRUE
  OBVIOUS
<1>2. n - s \in T
  BY <1>1
<1>3. T \subseteq Nat
  <2>1. \A k \in 0 .. n : n - k \in Nat
    OBVIOUS
  <2> QED
    BY <2>1
<1>4. PICK t \in T : \A k \in T : t <= k
  BY <1>2, <1>3, LeastElement
<1>5. PICK m \in S : t = n - m
  BY <1>4
<1>6. \A k \in S : n - m <= n - k
  BY <1>4, <1>5
<1>7. \A k \in S : k <= m
  BY <1>6
<1> QED
  BY <1>7

-----------------------------------------------------------------------------
\* Listing a finite set of numbers in ascending order.

\* A longer list: one more number, greater than all the others.
LEMMA AscendingAppend ==
  ASSUME NEW S \in SUBSET Nat, NEW s \in Seq(S), Ascending(s, S),
         NEW m \in Nat, \A k \in S : k < m
  PROVE  Ascending(Append(s, m), S \cup {m})
<1> DEFINE t == Append(s, m)
           n == Len(s)
<1>1. s \in Seq(Nat) /\ n \in Nat /\ DOMAIN s = 1 .. n
  <2>1. s \in [1 .. Len(s) -> S] /\ Len(s) \in Nat
    BY LenProperties
  <2>2. s \in [1 .. Len(s) -> Nat]
    BY <2>1
  <2> QED
    BY <2>1, <2>2, SeqDef
<1>2. /\ DOMAIN t = 1 .. n + 1
      /\ \A i \in 1 .. n : t[i] = s[i]
      /\ t[n + 1] = m
  <2>1. t \in Seq(Nat) /\ Len(t) = n + 1
    BY <1>1, AppendProperties
  <2> QED
    BY <1>1, <2>1, AppendProperties
<1> HIDE DEF t, n
<1>3. Range(s) = S /\ \A i, j \in 1 .. n : i < j => s[i] < s[j]
  BY <1>1 DEF Ascending
<1>4. Range(t) = S \cup {m}
  <2>1. \A i \in 1 .. n + 1 : i \in 1 .. n \/ i = n + 1
    BY <1>1
  <2>2. ASSUME NEW x \in Range(t) PROVE x \in S \cup {m}
    <3>1. PICK i \in 1 .. n + 1 : x = t[i]
      BY <1>2 DEF Range
    <3>2. CASE i \in 1 .. n
      BY <1>1, <1>2, <1>3, <3>1, <3>2 DEF Range
    <3> QED
      BY <1>2, <2>1, <3>1, <3>2
  <2>3. ASSUME NEW x \in S PROVE x \in Range(t)
    <3>1. PICK i \in 1 .. n : x = s[i]
      BY <1>1, <1>3 DEF Range
    <3>2. i \in 1 .. n + 1 /\ t[i] = x
      BY <1>1, <1>2, <3>1
    <3> QED
      BY <1>2, <3>2 DEF Range
  <2>4. m \in Range(t)
    <3>1. n + 1 \in 1 .. n + 1
      BY <1>1
    <3> QED
      BY <1>2, <3>1 DEF Range
  <2> QED
    BY <2>2, <2>3, <2>4
<1>5. ASSUME NEW i \in 1 .. n + 1, NEW j \in 1 .. n + 1, i < j PROVE t[i] < t[j]
  <2>1. i \in 1 .. n
    BY <1>1, <1>5
  <2>2. CASE j \in 1 .. n
    BY <1>2, <1>3, <1>5, <2>1, <2>2
  <2>3. CASE j = n + 1
    <3>1. s[i] \in S
      BY <1>1, <1>3, <2>1 DEF Range
    <3> QED
      BY <1>2, <2>1, <2>3, <3>1
  <2> QED
    BY <1>1, <2>2, <2>3
<1> QED
  BY <1>2, <1>4, <1>5 DEF Ascending, t

\* Every set of numbers up to n has such a list, as long as the set is large.
LEMMA AscendingExists ==
  ASSUME NEW n \in Nat, NEW F \in SUBSET (1 .. n)
  PROVE  \E s \in [1 .. Cardinality(F) -> F] : Ascending(s, F)
<1> DEFINE Listed(G) == /\ IsFiniteSet(G)
                        /\ \E s \in [1 .. Cardinality(G) -> G] : Ascending(s, G)
           bad == {k \in Nat : \E G \in SUBSET (1 .. k) : ~Listed(G)}
<1>1. SUFFICES bad = {}
  BY <1>1
<1>2. SUFFICES ASSUME bad # {} PROVE FALSE
  OBVIOUS
<1>3. PICK k \in bad : \A j \in bad : k <= j
  <2>1. bad \in SUBSET Nat
    OBVIOUS
  <2> HIDE DEF bad
  <2> QED
    BY <1>2, <2>1, LeastElement
<1>4. PICK G \in SUBSET (1 .. k) : k \in Nat /\ ~Listed(G)
  BY <1>3
<1>5. ASSUME k > 0, NEW H \in SUBSET (1 .. k - 1) PROVE Listed(H)
  <2>1. k - 1 \in Nat /\ ~(k <= k - 1)
    BY <1>4, <1>5
  <2>2. k - 1 \notin bad
    BY <1>3, <2>1
  <2> HIDE DEF Listed
  <2> QED
    BY <2>1, <2>2
<1> HIDE DEF bad
<1>6. CASE k = 0
  <2>1. G = {}
    BY <1>4, <1>6
  <2>2. IsFiniteSet(G) /\ Cardinality(G) = 0
    BY <2>1, FS_EmptySet
  <2>3. <<>> \in [1 .. 0 -> G] /\ Ascending(<<>>, G)
    BY <2>1 DEF Ascending, Range
  <2> QED
    BY <1>4, <2>2, <2>3
<1>7. CASE k > 0 /\ k \notin G
  <2>1. G \in SUBSET (1 .. k - 1)
    BY <1>4, <1>7
  <2> QED
    BY <1>4, <1>5, <1>7, <2>1
<1>8. CASE k > 0 /\ k \in G
  <2> DEFINE H == G \ {k}
  <2>1. H \in SUBSET (1 .. k - 1) /\ G = H \cup {k} /\ k \notin H
    BY <1>4, <1>8
  <2>2. Listed(H)
    BY <1>5, <1>8, <2>1
  <2>3. PICK s \in [1 .. Cardinality(H) -> H] : Ascending(s, H)
    BY <2>2
  <2> HIDE DEF H
  <2>4. IsFiniteSet(G) /\ Cardinality(G) = Cardinality(H) + 1 /\ Cardinality(H) \in Nat
    BY <2>1, <2>2, FS_AddElement, FS_CardinalityType
  <2>5. s \in Seq(H) /\ s \in Seq(G) /\ Len(s) = Cardinality(H)
    BY <2>1, <2>3, <2>4
  <2>6. H \in SUBSET Nat /\ \A h \in H : h < k
    BY <1>4, <2>1
  <2>7. Ascending(Append(s, k), G)
    BY <1>4, <2>1, <2>3, <2>5, <2>6, AscendingAppend
  <2>8. Append(s, k) \in [1 .. Cardinality(G) -> G]
    <3>1. Append(s, k) \in Seq(G) /\ Len(Append(s, k)) = Len(s) + 1
      BY <1>8, <2>5, AppendProperties
    <3>2. Append(s, k) \in [1 .. Len(Append(s, k)) -> G]
      BY <3>1, LenProperties
    <3> QED
      BY <2>4, <2>5, <3>1, <3>2
  <2> QED
    BY <1>4, <2>4, <2>7, <2>8
<1> QED
  BY <1>4, <1>6, <1>7, <1>8

-----------------------------------------------------------------------------
\* The fallback files: records are only ever added.

FilesInv(Record) ==
    /\ files = [file \in Files |-> files[file]]
    /\ \A file \in Files : files[file] \in Seq(Record[file])

\* What Write adds to a file, and that it leaves the other one alone.
LEMMA WriteFacts ==
  ASSUME NEW Record, FilesInv(Record), NEW file \in Files, NEW rs \in Seq(Record[file]),
         Write(file, rs)
  PROVE  /\ FilesInv(Record)'
         /\ \A other \in Files \ {file} : files'[other] = files[other]
         /\ files'[file] = IF Handler(file) THEN files[file] \o rs ELSE files[file]
<1>1. CASE Handler(file) /\ rs # <<>>
  <2>1. files' = [files EXCEPT ![file] = files[file] \o rs]
    BY <1>1 DEF Write
  <2>2. files[file] \in Seq(Record[file])
    BY DEF FilesInv
  <2>3. files[file] \o rs \in Seq(Record[file])
    BY <2>2, ConcatProperties
  <2> QED
    BY <1>1, <2>1, <2>3 DEF FilesInv
<1>2. CASE ~(Handler(file) /\ rs # <<>>)
  <2>1. files' = files
    BY <1>2 DEF Write
  <2>2. rs = <<>> => files[file] \o rs = files[file]
    BY ConcatEmptySeq DEF FilesInv
  <2> QED
    BY <1>2, <2>1, <2>2 DEF FilesInv
<1> QED
  BY <1>1, <1>2

-----------------------------------------------------------------------------
\* The stack monitor.

HealthRecord == [component : Targets, healthy : BOOLEAN, active : BOOLEAN]

\* What the two files hold, as far as the monitor is concerned.
Contents(Events) == [file \in Files |-> IF file = "health" THEN HealthRecord ELSE Events]

MonitorInv ==
    /\ MonitorTypeOK
    /\ monitor = [pc |-> monitor.pc, answers |-> monitor.answers]
    /\ restarts \in Nat

HealthLog == files["health"] \in Seq(HealthRecord)

\* What the health file says of a component is what is known of it, and what is
\* not known has no records yet.
KnownInv ==
    /\ restarts = 0 => \A c \in Targets \ DOMAIN components : RecordsOf(c) = {}
    /\ HealthLogExplainsState

LEMMA FlippedInOrderFacts ==
  /\ FlippedInOrder \in Seq(Targets)
  /\ \A i \in DOMAIN FlippedInOrder : Flipped(FlippedInOrder[i])
  /\ \A i, j \in DOMAIN FlippedInOrder : FlippedInOrder[i] = FlippedInOrder[j] => i = j
  /\ \A c \in Targets : Flipped(c) => \E i \in DOMAIN FlippedInOrder : FlippedInOrder[i] = c
<1> DEFINE flipped == {i \in DOMAIN TargetOrder : Flipped(TargetOrder[i])}
           at == CHOOSE s \in [1 .. Cardinality(flipped) -> flipped] : Ascending(s, flipped)
           flips == [i \in DOMAIN at |-> TargetOrder[at[i]]]
<1>1. /\ TargetOrder \in Seq(Targets)
      /\ \A i, j \in DOMAIN TargetOrder : TargetOrder[i] = TargetOrder[j] => i = j
  BY MonitorAssumption DEF IsInjective
<1>2. Len(TargetOrder) \in Nat /\ DOMAIN TargetOrder = 1 .. Len(TargetOrder)
  BY <1>1
<1>3. flipped \in SUBSET (1 .. Len(TargetOrder))
  BY <1>2
<1>4. IsFiniteSet(flipped) /\ Cardinality(flipped) \in Nat
  <2>1. IsFiniteSet(1 .. Len(TargetOrder))
    BY <1>2, FS_Interval
  <2> QED
    BY <1>3, <2>1, FS_Subset, FS_CardinalityType
<1>5. FlippedInOrder = flips
  BY DEF FlippedInOrder
<1>6. \A i \in flipped : i \in DOMAIN TargetOrder /\ Flipped(TargetOrder[i])
  OBVIOUS
<1>7. \A c \in Targets : Flipped(c) => \E i \in flipped : TargetOrder[i] = c
  BY DEF Targets, Range
<1> HIDE DEF flipped
<1>8. at \in [1 .. Cardinality(flipped) -> flipped] /\ Ascending(at, flipped)
  <2>1. \E s \in [1 .. Cardinality(flipped) -> flipped] : Ascending(s, flipped)
    BY <1>2, <1>3, AscendingExists
  <2> QED
    BY <2>1
<1> HIDE DEF at
<1>9. /\ DOMAIN at = 1 .. Cardinality(flipped)
      /\ \A i \in DOMAIN at : at[i] \in flipped
      /\ \A i, j \in DOMAIN at : i < j => at[i] < at[j]
      /\ \A k \in flipped : \E i \in DOMAIN at : at[i] = k
  BY <1>8 DEF Ascending, Range
<1>10. \A i, j \in DOMAIN at : at[i] = at[j] => i = j
  <2> SUFFICES ASSUME NEW i \in DOMAIN at, NEW j \in DOMAIN at, at[i] = at[j] PROVE i = j
    OBVIOUS
  <2>1. i \in 1 .. Cardinality(flipped) /\ j \in 1 .. Cardinality(flipped)
    BY <1>9
  <2>2. at[i] \in flipped /\ at[j] \in flipped
    BY <1>9
  <2>3. i \in Int /\ j \in Int /\ at[i] \in Int /\ at[j] \in Int
    <3>1. i \in Nat /\ j \in Nat
      BY <1>4, <2>1
    <3>2. at[i] \in 1 .. Len(TargetOrder) /\ at[j] \in 1 .. Len(TargetOrder)
      BY <1>3, <2>2
    <3> QED
      BY <3>1, <3>2
  <2>4. ~(i < j) /\ ~(j < i)
    BY <1>9, <2>3
  <2> QED
    BY <2>3, <2>4
<1>11. flips \in [1 .. Cardinality(flipped) -> Targets]
  BY <1>1, <1>6, <1>9
<1>12. flips \in Seq(Targets)
  BY <1>4, <1>11
<1>13. \A i \in DOMAIN flips : i \in DOMAIN at /\ flips[i] = TargetOrder[at[i]]
  OBVIOUS
<1>14. \A c \in Targets : Flipped(c) => \E i \in DOMAIN flips : flips[i] = c
  BY <1>7, <1>9
<1>15. \A i, j \in DOMAIN flips : flips[i] = flips[j] => i = j
  BY <1>1, <1>6, <1>9, <1>10, <1>13
<1>16. \A i \in DOMAIN flips : Flipped(flips[i])
  BY <1>6, <1>9, <1>13
<1> QED
  BY <1>5, <1>12, <1>14, <1>15, <1>16

\* The records of one check: one for every component that flipped.
LEMMA TransitionsFacts ==
  ASSUME MonitorInv, DOMAIN monitor.answers = Targets
  PROVE  /\ Transitions \in Seq(HealthRecord)
         /\ \A i \in DOMAIN Transitions :
               /\ Flipped(Transitions[i].component)
               /\ Transitions[i].healthy = monitor.answers[Transitions[i].component]
               /\ Transitions[i].active = Active(monitor.answers)
         /\ \A i, j \in DOMAIN Transitions :
               Transitions[i].component = Transitions[j].component => i = j
         /\ \A c \in Targets :
               Flipped(c) => \E i \in DOMAIN Transitions : Transitions[i].component = c
<1> DEFINE flips == FlippedInOrder
           active == Active(monitor.answers)
           r(i) == [component |-> flips[i], healthy |-> monitor.answers[flips[i]], active |-> active]
           t == [i \in DOMAIN flips |-> r(i)]
<1>1. Transitions = t
  BY DEF Transitions
<1>2. flips \in Seq(Targets) /\ DOMAIN flips = 1 .. Len(flips) /\ Len(flips) \in Nat
  BY FlippedInOrderFacts
<1>3. \A i \in DOMAIN flips : flips[i] \in Targets
  BY <1>2, ElementOfSeq
<1>4. active \in BOOLEAN
  BY DEF Active
<1> HIDE DEF flips, active
<1>5. \A i \in DOMAIN flips :
         /\ r(i) \in HealthRecord /\ r(i).component = flips[i]
         /\ r(i).healthy = monitor.answers[flips[i]] /\ r(i).active = active
  BY <1>3, <1>4 DEF HealthRecord, MonitorInv, MonitorTypeOK
<1> HIDE DEF r
<1>6. t \in Seq(HealthRecord)
  BY <1>2, <1>5
<1> QED
  BY <1>1, <1>5, <1>6, FlippedInOrderFacts DEF flips, active

\* A component with records has a last one, and there is only one.
LEMMA LastRecordFacts ==
  ASSUME HealthLog, NEW c
  PROVE  /\ RecordsOf(c) # {} => \E m \in RecordsOf(c) : \A j \in RecordsOf(c) : j <= m
         /\ \A m \in RecordsOf(c) :
               (\A j \in RecordsOf(c) : j <= m) => LastRecord(c) = files["health"][m]
<1> DEFINE h == files["health"]
<1>1. Len(h) \in Nat /\ DOMAIN h = 1 .. Len(h)
  BY DEF HealthLog
<1>2. RecordsOf(c) \subseteq 1 .. Len(h)
  BY <1>1 DEF RecordsOf
<1> HIDE DEF h
<1>3. RecordsOf(c) \in SUBSET (0 .. Len(h))
  BY <1>1, <1>2
<1>4. RecordsOf(c) # {} => \E m \in RecordsOf(c) : \A j \in RecordsOf(c) : j <= m
  BY <1>1, <1>3, GreatestElement
<1>5. ASSUME NEW m \in RecordsOf(c), \A j \in RecordsOf(c) : j <= m
      PROVE  LastRecord(c) = h[m]
  <2> DEFINE i == CHOOSE i \in RecordsOf(c) : \A j \in RecordsOf(c) : j <= i
  <2>1. i \in RecordsOf(c) /\ \A j \in RecordsOf(c) : j <= i
    BY <1>5
  <2>2. LastRecord(c) = h[i]
    BY DEF LastRecord, h
  <2> HIDE DEF i
  <2>3. i = m
    BY <1>2, <1>5, <2>1
  <2> QED
    BY <2>2, <2>3
<1> QED
  BY <1>4, <1>5 DEF h

\* The same, of the next state.
LastRecordIsLast ==
    \A c : \A m \in RecordsOf(c) :
        (\A j \in RecordsOf(c) : j <= m) => LastRecord(c) = files["health"][m]

LEMMA LastRecordNext == HealthLog' => LastRecordIsLast'
<1>1. HealthLog => LastRecordIsLast
  BY LastRecordFacts DEF LastRecordIsLast
<1> QED
  BY <1>1, PTL

\* A record of a component that flipped goes on its alternation.
LEMMA FlipAlternates ==
  ASSUME MonitorInv, HealthLog, KnownInv, restarts = 0, ~missed,
         NEW c \in Targets, Flipped(c), DOMAIN monitor.answers = Targets
  PROVE  monitor.answers[c] <=>
            \E j \in RecordsOf(c) : ~files["health"][j].healthy /\ \A k \in RecordsOf(c) : k <= j
<1> DEFINE R == RecordsOf(c)
           h == files["health"]
<1>1. monitor.answers[c] \in BOOLEAN
  BY DEF MonitorInv, MonitorTypeOK
<1>2. /\ c \notin DOMAIN components => R = {} /\ ~monitor.answers[c]
      /\ c \in DOMAIN components =>
            /\ components[c] = (R # {} => LastRecord(c).healthy)
            /\ components[c] # monitor.answers[c] /\ components[c] \in BOOLEAN
  BY DEF KnownInv, HealthLogExplainsState, Flipped, MonitorInv, MonitorTypeOK
<1>3. CASE R = {}
  BY <1>1, <1>2, <1>3
<1>4. CASE R # {}
  <2>1. PICK m \in R : \A j \in R : j <= m
    BY <1>4, LastRecordFacts
  <2>2. LastRecord(c) = h[m]
    BY <2>1, LastRecordFacts
  <2>3. R \subseteq Nat
    BY DEF RecordsOf, HealthLog
  <2>4. c \in DOMAIN components
    BY <1>2, <1>4
  <2>5. h[m].healthy \in BOOLEAN
    <3>1. m \in 1 .. Len(h) /\ h \in Seq(HealthRecord)
      BY <2>1 DEF HealthLog, RecordsOf
    <3>2. h[m] \in HealthRecord
      BY <3>1, ElementOfSeq
    <3> QED
      BY <3>2 DEF HealthRecord
  <2>6. monitor.answers[c] <=> ~h[m].healthy
    BY <1>1, <1>2, <1>4, <2>2, <2>4, <2>5
  <2> HIDE DEF R, h
  <2>7. ASSUME NEW j \in R, \A k \in R : k <= j PROVE j = m
    BY <2>1, <2>3, <2>7
  <2> QED
    BY <2>1, <2>6, <2>7 DEF R, h
<1> QED
  BY <1>3, <1>4

\* The health file after a check whose records could be written.
LEMMA AppendedRecords ==
  ASSUME HealthLog, NEW t \in Seq(HealthRecord), files'["health"] = files["health"] \o t
  PROVE  LET n == Len(files["health"]) IN
         /\ n \in Nat /\ HealthLog'
         /\ Len(files'["health"]) = n + Len(t)
         /\ \A i \in 1 .. n : i \in DOMAIN files["health"] /\ files'["health"][i] = files["health"][i]
         /\ \A k \in DOMAIN t : n + k \in DOMAIN files'["health"] /\ files'["health"][n + k] = t[k]
         /\ \A i \in DOMAIN files'["health"] :
               i \in 1 .. n \/ \E k \in DOMAIN t : i = n + k
         /\ \A c : \A i \in 1 .. n : i \in RecordsOf(c)' <=> i \in RecordsOf(c)
<1> DEFINE h == files["health"]
           n == Len(h)
           g == files'["health"]
<1>1. h \in Seq(HealthRecord) /\ g = h \o t
  BY DEF HealthLog
<1> HIDE DEF h, g
<1>2. /\ g \in Seq(HealthRecord) /\ Len(g) = n + Len(t)
      /\ \A i \in 1 .. n + Len(t) : g[i] = IF i <= n THEN h[i] ELSE t[i - n]
  BY <1>1, ConcatProperties
<1>3. /\ n \in Nat /\ Len(t) \in Nat /\ DOMAIN h = 1 .. n /\ DOMAIN t = 1 .. Len(t)
      /\ DOMAIN g = 1 .. n + Len(t)
  BY <1>1, <1>2
<1> HIDE DEF n
<1>4. \A i \in 1 .. n : i \in DOMAIN h /\ i \in DOMAIN g /\ g[i] = h[i]
  BY <1>2, <1>3
<1>5. ASSUME NEW k \in DOMAIN t PROVE n + k \in DOMAIN g /\ g[n + k] = t[k]
  <2>1. n + k \in 1 .. n + Len(t) /\ ~(n + k <= n) /\ n + k - n = k
    BY <1>3
  <2> QED
    BY <1>2, <1>3, <2>1
<1>6. ASSUME NEW i \in DOMAIN g PROVE i \in 1 .. n \/ \E k \in DOMAIN t : i = n + k
  <2>1. i \in 1 .. n \/ (i - n \in DOMAIN t /\ i = n + (i - n))
    BY <1>3
  <2> QED
    BY <2>1
<1>7. \A c : \A i \in 1 .. n : i \in RecordsOf(c)' <=> i \in RecordsOf(c)
  BY <1>4 DEF RecordsOf, h, g
<1> QED
  BY <1>2, <1>3, <1>4, <1>5, <1>6, <1>7 DEF HealthLog, h, n, g

\* After a check that wrote its records, or had none, the file tells everything.
LEMMA CheckExplains ==
  ASSUME MonitorInv, HealthLog, KnownInv, restarts = 0, ~missed,
         DOMAIN monitor.answers = Targets, components' = monitor.answers,
         gauge' = Active(monitor.answers), files'["health"] = files["health"] \o Transitions
  PROVE  HealthLogExplainsState'
<1> DEFINE answers == monitor.answers
           t == Transitions
           h == files["health"]
           g == files'["health"]
           n == Len(h)
<1>1. /\ t \in Seq(HealthRecord)
      /\ \A k \in DOMAIN t :
            /\ Flipped(t[k].component) /\ t[k].healthy = answers[t[k].component]
            /\ t[k].active = Active(answers)
      /\ \A k, l \in DOMAIN t : t[k].component = t[l].component => k = l
      /\ \A c \in Targets : Flipped(c) => \E k \in DOMAIN t : t[k].component = c
  BY TransitionsFacts
<1>2. /\ n \in Nat /\ HealthLog' /\ Len(g) = n + Len(t)
      /\ \A i \in 1 .. n : i \in DOMAIN h /\ g[i] = h[i]
      /\ \A k \in DOMAIN t : n + k \in DOMAIN g /\ g[n + k] = t[k]
      /\ \A i \in DOMAIN g : i \in 1 .. n \/ \E k \in DOMAIN t : i = n + k
      /\ \A c : \A i \in 1 .. n : i \in RecordsOf(c)' <=> i \in RecordsOf(c)
  BY <1>1, AppendedRecords
<1>3. DOMAIN t = 1 .. Len(t) /\ Len(t) \in Nat /\ DOMAIN h = 1 .. n /\ h \in Seq(HealthRecord)
  BY <1>1 DEF HealthLog
<1>4. \A c : \A i \in RecordsOf(c) : i \in 1 .. n
  BY <1>3 DEF RecordsOf
<1>5. \A c : \A i \in RecordsOf(c)' : i \in DOMAIN g /\ g[i].component = c
  BY DEF RecordsOf
<1>6. components' = answers /\ DOMAIN answers = Targets /\ gauge' = Active(answers)
  OBVIOUS
<1>7. HealthLogExplainsState
  BY DEF KnownInv
<1> HIDE DEF t, g, n
<1>8. ASSUME NEW c \in Targets, NEW i \in RecordsOf(c)'
      PROVE  g[i].healthy <=> \E j \in {j \in RecordsOf(c)' : j < i} :
                ~g[j].healthy /\ \A k \in {k \in RecordsOf(c)' : k < i} : k <= j
  <2>1. CASE i \in 1 .. n
    <3>1. i \in RecordsOf(c)
      BY <1>2, <2>1
    <3>2. {j \in RecordsOf(c)' : j < i} = {j \in RecordsOf(c) : j < i}
      <4>1. \A j \in RecordsOf(c)' : j < i => j \in 1 .. n
        BY <1>2, <1>3, <1>5, <2>1
      <4> QED
        BY <1>2, <1>4, <4>1
    <3>3. h[i].healthy <=> \E j \in {j \in RecordsOf(c) : j < i} :
                ~h[j].healthy /\ \A k \in {k \in RecordsOf(c) : k < i} : k <= j
      BY <1>7, <3>1 DEF HealthLogExplainsState
    <3> HIDE DEF h
    <3>4. g[i] = h[i] /\ \A j \in RecordsOf(c) : g[j] = h[j]
      BY <1>2, <1>4, <2>1
    <3> QED
      BY <3>2, <3>3, <3>4
  <2>2. ASSUME NEW k \in DOMAIN t, i = n + k
        PROVE  g[i].healthy <=> \E j \in {j \in RecordsOf(c)' : j < i} :
                  ~g[j].healthy /\ \A l \in {l \in RecordsOf(c)' : l < i} : l <= j
    <3>1. g[i] = t[k] /\ t[k].component = c /\ Flipped(c) /\ t[k].healthy = answers[c]
      BY <1>1, <1>2, <1>5, <2>2
    <3>2. {j \in RecordsOf(c)' : j < i} = RecordsOf(c)
      <4>1. ASSUME NEW j \in RecordsOf(c)', j < i PROVE j \in 1 .. n
        <5>1. ASSUME NEW l \in DOMAIN t, j = n + l PROVE FALSE
          <6>1. t[l].component = c
            BY <1>2, <1>5, <5>1
          <6>2. l = k
            BY <1>1, <3>1, <6>1
          <6> QED
            BY <1>2, <1>3, <2>2, <4>1, <5>1, <6>2
        <5> QED
          BY <1>2, <1>5, <5>1
      <4>2. \A j \in 1 .. n : j < i
        BY <1>2, <1>3, <2>2
      <4> QED
        BY <1>2, <1>4, <4>1, <4>2
    <3>3. answers[c] <=> \E j \in RecordsOf(c) : ~h[j].healthy /\ \A l \in RecordsOf(c) : l <= j
      BY <3>1, FlipAlternates
    <3> HIDE DEF h, answers
    <3>4. \A j \in RecordsOf(c) : g[j] = h[j]
      BY <1>2, <1>4
    <3> QED
      BY <3>1, <3>2, <3>3, <3>4
  <2> QED
    BY <1>2, <1>5, <2>1, <2>2
<1>9. ASSUME NEW c \in Targets
      PROVE  answers[c] = (RecordsOf(c)' # {} => LastRecord(c)'.healthy)
  <2>1. answers[c] \in BOOLEAN
    BY DEF MonitorInv, MonitorTypeOK
  <2>2. ASSUME NEW m \in RecordsOf(c)', \A j \in RecordsOf(c)' : j <= m
        PROVE  LastRecord(c)' = g[m]
    BY <1>2, <2>2, LastRecordNext DEF g, LastRecordIsLast
  <2>3. ASSUME NEW k \in DOMAIN t, t[k].component = c
        PROVE  answers[c] = (RecordsOf(c)' # {} => LastRecord(c)'.healthy)
    <3>1. n + k \in RecordsOf(c)' /\ g[n + k] = t[k]
      BY <1>2, <2>3 DEF RecordsOf, g
    <3>2. ASSUME NEW j \in RecordsOf(c)' PROVE j <= n + k
      <4>1. CASE j \in 1 .. n
        BY <1>2, <1>3, <2>3, <4>1
      <4>2. ASSUME NEW l \in DOMAIN t, j = n + l PROVE j <= n + k
        <5>1. g[j] = t[l] /\ g[j].component = c
          BY <1>2, <1>5, <4>2
        <5>2. l = k
          BY <1>1, <2>3, <5>1
        <5> QED
          BY <1>2, <1>3, <4>2, <5>2
      <4> QED
        BY <1>2, <1>5, <4>1, <4>2
    <3>3. LastRecord(c)' = t[k] /\ t[k].healthy = answers[c]
      BY <1>1, <2>2, <2>3, <3>1, <3>2
    <3> QED
      BY <2>1, <3>1, <3>3
  <2>4. CASE \A k \in DOMAIN t : t[k].component # c
    <3>1. ~Flipped(c)
      BY <1>1, <2>4
    <3>2. RecordsOf(c)' = RecordsOf(c)
      <4>1. ASSUME NEW i \in RecordsOf(c)' PROVE i \in 1 .. n
        <5>1. i \in DOMAIN g /\ g[i].component = c
          BY <1>5
        <5>2. ASSUME NEW k \in DOMAIN t, i = n + k PROVE FALSE
          BY <1>2, <2>4, <5>1, <5>2
        <5> QED
          BY <1>2, <5>1, <5>2
      <4>2. \A i \in 1 .. n : i \in RecordsOf(c)' <=> i \in RecordsOf(c)
        BY <1>2
      <4>3. \A i \in RecordsOf(c) : i \in 1 .. n
        BY <1>4
      <4> QED
        BY <4>1, <4>2, <4>3
    <3>3. c \in DOMAIN components => components[c] = (RecordsOf(c) # {} => LastRecord(c).healthy)
      BY <1>7 DEF HealthLogExplainsState
    <3>4. /\ c \in DOMAIN components => components[c] = answers[c]
          /\ c \notin DOMAIN components => answers[c] /\ RecordsOf(c) = {}
      BY <2>1, <3>1 DEF Flipped, KnownInv, MonitorInv, MonitorTypeOK
    <3>5. ASSUME RecordsOf(c) # {} PROVE LastRecord(c)' = LastRecord(c)
      <4>1. PICK m \in RecordsOf(c) : \A j \in RecordsOf(c) : j <= m
        BY <3>5, LastRecordFacts
      <4>2. LastRecord(c) = h[m]
        BY <4>1, LastRecordFacts
      <4>3. LastRecord(c)' = g[m]
        BY <2>2, <3>2, <4>1
      <4> QED
        BY <1>2, <1>4, <4>1, <4>2, <4>3
    <3> QED
      BY <2>1, <3>2, <3>3, <3>4, <3>5
  <2> QED
    BY <2>3, <2>4
<1>10. Active(answers) = (g # <<>> /\ g[Len(g)].active)
  <2>1. Active(answers) \in BOOLEAN
    BY DEF Active
  <2>2. CASE t = <<>>
    <3>1. \A c \in Targets : ~Flipped(c)
      BY <1>1, <2>2
    <3>2. Active(answers) = FallbackActive
      BY <1>6, <3>1 DEF Active, FallbackActive, Flipped, MonitorInv, MonitorTypeOK
    <3>3. g = h
      BY <1>3, <2>2, ConcatEmptySeq DEF t, g
    <3> QED
      BY <1>7, <3>2, <3>3 DEF HealthLogExplainsState
  <2>3. CASE t # <<>>
    <3>1. Len(t) > 0 /\ Len(t) \in DOMAIN t
      BY <1>1, <1>3, <2>3, EmptySeq
    <3>2. Len(g) = n + Len(t) /\ g[Len(g)] = t[Len(t)] /\ t[Len(t)].active = Active(answers)
      BY <1>1, <1>2, <3>1
    <3>3. g # <<>>
      BY <1>2, <1>3, <3>1, <3>2
    <3> QED
      BY <2>1, <3>2, <3>3
  <2> QED
    BY <2>2, <2>3
<1> QED
  <2>1. FallbackActive' = Active(answers)
    BY <1>6 DEF FallbackActive, Active
  <2>2. \A c \in Targets : \A i \in RecordsOf(c)' :
           LET earlier == {j \in RecordsOf(c)' : j < i} IN
           g[i].healthy <=> \E j \in earlier : ~g[j].healthy /\ \A k \in earlier : k <= j
    BY <1>8
  <2>3. \A c \in DOMAIN components' :
           components'[c] = (RecordsOf(c)' # {} => LastRecord(c)'.healthy)
    BY <1>6, <1>9
  <2>4. FallbackActive' = (g # <<>> /\ g[Len(g)].active) /\ gauge' = FallbackActive'
    BY <1>6, <1>10, <2>1
  <2> HIDE DEF answers
  <2> QED
    BY <2>2, <2>3, <2>4 DEF HealthLogExplainsState, g

\* The inductive invariant of the monitor.  The file of the events is not its
\* own: all it needs to know of it is that it is a list of numbers.
StackInv == MonitorInv /\ FilesInv(Contents(Nat)) /\ KnownInv

LEMMA ContentsFacts ==
  /\ Files = {"events", "health"}
  /\ Contents(Nat)["health"] = HealthRecord /\ Contents(Nat)["events"] = Nat
  /\ FilesInv(Contents(Nat)) => HealthLog /\ files["events"] \in Seq(Nat)
BY DEF Files, Contents, FilesInv, HealthLog

\* Nothing that the health file is compared with changes.
LEMMA KnownKept ==
  ASSUME KnownInv, files'["health"] = files["health"],
         UNCHANGED <<components, gauge, missed, restarts>>
  PROVE  KnownInv'
<1>1. \A c : RecordsOf(c)' = RecordsOf(c) /\ LastRecord(c)' = LastRecord(c)
  BY DEF RecordsOf, LastRecord
<1>2. FallbackActive' = FallbackActive
  BY DEF FallbackActive, Active
<1> QED
  BY <1>1, <1>2 DEF KnownInv, HealthLogExplainsState

LEMMA HealthRecords ==
  ASSUME HealthLog
  PROVE  \A i \in DOMAIN files["health"] : files["health"][i] \in HealthRecord
BY ElementOfSeq DEF HealthLog

\* Steps that leave the monitor and the files alone.
LEMMA StackKept ==
  ASSUME StackInv, UNCHANGED <<up, monitor, components, gauge, missed, restarts, files>>,
         openFiles' \subseteq Files
  PROVE  StackInv'
<1>1. KnownInv'
  BY KnownKept DEF StackInv
<1> QED
  BY <1>1 DEF StackInv, MonitorInv, MonitorTypeOK, FilesInv

\* An event is written to the other file.
LEMMA EventKeepsStack ==
  ASSUME StackInv, NEW n \in Nat, WriteEvent(n), UNCHANGED monitorVars
  PROVE  /\ StackInv'
         /\ files'["events"] = IF Handler("events") THEN Append(files["events"], n) ELSE files["events"]
<1>1. <<n>> \in Seq(Nat) /\ Write("events", <<n>>)
  BY DEF WriteEvent
<1>2. /\ FilesInv(Contents(Nat))' /\ files'["health"] = files["health"]
      /\ files'["events"] = IF Handler("events") THEN files["events"] \o <<n>> ELSE files["events"]
  BY <1>1, WriteFacts, ContentsFacts DEF StackInv
<1>3. files["events"] \o <<n>> = Append(files["events"], n)
  BY ContentsFacts, AppendIsConcat DEF StackInv
<1>4. openFiles' \subseteq Files
  BY <1>1 DEF Write, StackInv, MonitorInv, MonitorTypeOK, Files
<1>5. KnownInv'
  BY <1>2, KnownKept DEF StackInv, monitorVars
<1>6. MonitorInv'
  BY <1>2, <1>4 DEF StackInv, MonitorInv, MonitorTypeOK, monitorVars
<1> QED
  BY <1>2, <1>3, <1>5, <1>6 DEF StackInv

LEMMA ProbeKeepsStack ==
  ASSUME StackInv, NEW c \in Targets, ProbeReturns(c)
  PROVE  StackInv'
<1> DEFINE a == monitor.answers
           new == [d \in DOMAIN a \cup {c} |-> IF d = c THEN up[c] ELSE a[d]]
<1>1. /\ monitor' = [monitor EXCEPT !.answers = new] /\ monitor.pc = "probing"
      /\ UNCHANGED <<files, openFiles, up, components, gauge, missed, restarts>>
  BY DEF ProbeReturns, fallbackVars
<1>2. DOMAIN new \subseteq Targets /\ \A d \in DOMAIN new : new[d] \in BOOLEAN
  BY DEF StackInv, MonitorInv, MonitorTypeOK
<1> HIDE DEF new
<1>3. monitor' = [pc |-> "probing", answers |-> new]
  BY <1>1 DEF StackInv, MonitorInv
<1>4. KnownInv'
  BY <1>1, KnownKept DEF StackInv
<1>5. MonitorInv'
  BY <1>1, <1>2, <1>3 DEF StackInv, MonitorInv, MonitorTypeOK
<1> QED
  BY <1>1, <1>4, <1>5 DEF StackInv, FilesInv

LEMMA CheckKeepsStack ==
  ASSUME StackInv, CheckEnds
  PROVE  StackInv' /\ files'["events"] = files["events"]
<1>1. /\ DOMAIN monitor.answers = Targets /\ components' = monitor.answers
      /\ Write("health", Transitions)
      /\ gauge' = Active(monitor.answers)
      /\ monitor' = [pc |-> "sleeping", answers |-> NoAnswers]
      /\ missed' = (missed \/ (Transitions # <<>> /\ ~Handler("health")))
      /\ UNCHANGED <<up, restarts>>
  BY DEF CheckEnds, WriteHealth
<1>2. Transitions \in Seq(HealthRecord)
  BY <1>1, TransitionsFacts DEF StackInv
<1>3. /\ FilesInv(Contents(Nat))' /\ files'["events"] = files["events"]
      /\ files'["health"] = IF Handler("health") THEN files["health"] \o Transitions
                                                 ELSE files["health"]
  BY <1>1, <1>2, WriteFacts, ContentsFacts DEF StackInv
<1>4. openFiles' \subseteq Files
  BY <1>1 DEF Write, StackInv, MonitorInv, MonitorTypeOK, Files
<1>5. MonitorInv'
  <2>1. Active(monitor.answers) \in BOOLEAN /\ DOMAIN NoAnswers = {}
    BY DEF Active, NoAnswers
  <2>2. \A i \in DOMAIN files'["health"] : files'["health"][i] \in HealthRecord
    BY <1>3, ContentsFacts, ElementOfSeq DEF FilesInv
  <2>3. missed' \in BOOLEAN
    BY <1>1 DEF StackInv, MonitorInv, MonitorTypeOK
  <2> QED
    BY <1>1, <1>4, <2>1, <2>2, <2>3 DEF StackInv, MonitorInv, MonitorTypeOK, HealthRecord
<1>6. HealthLogExplainsState'
  <2>1. CASE restarts = 0 /\ ~missed'
    <3>1. ~missed /\ files'["health"] = files["health"] \o Transitions
      <4>1. ~missed /\ (Handler("health") \/ Transitions = <<>>)
        BY <1>1, <2>1
      <4>2. files["health"] \o <<>> = files["health"]
        BY ContentsFacts, ConcatEmptySeq DEF StackInv, HealthLog
      <4> QED
        BY <1>3, <4>1, <4>2
    <3>2. HealthLog
      BY ContentsFacts DEF StackInv
    <3> QED
      BY <1>1, <2>1, <3>1, <3>2, CheckExplains DEF StackInv
  <2>2. CASE ~(restarts = 0 /\ ~missed')
    BY <1>1, <2>2 DEF HealthLogExplainsState
  <2> QED
    BY <2>1, <2>2
<1>7. KnownInv'
  BY <1>1, <1>6 DEF KnownInv
<1> QED
  BY <1>3, <1>5, <1>7 DEF StackInv

LEMMA WorldKeepsStack ==
  ASSUME StackInv, (\E c \in Targets : ComponentChanges(c)) \/ (DirChanges /\ UNCHANGED monitorVars)
  PROVE  StackInv' /\ files' = files
<1>1. /\ UNCHANGED <<files, openFiles, monitor, components, gauge, missed, restarts>>
      /\ up' \in [Targets -> BOOLEAN]
  BY DEF ComponentChanges, DirChanges, monitorVars, fallbackVars,
         StackInv, MonitorInv, MonitorTypeOK
<1>2. KnownInv'
  BY <1>1, KnownKept DEF StackInv
<1> QED
  BY <1>1, <1>2 DEF StackInv, MonitorInv, MonitorTypeOK, FilesInv

LEMMA SleepKeepsStack ==
  ASSUME StackInv, SleepEnds
  PROVE  StackInv' /\ files' = files
<1>1. /\ monitor' = [monitor EXCEPT !.pc = "probing"]
      /\ UNCHANGED <<files, openFiles, up, components, gauge, missed, restarts>>
  BY DEF SleepEnds, fallbackVars
<1>2. monitor' = [pc |-> "probing", answers |-> monitor.answers]
  BY <1>1 DEF StackInv, MonitorInv
<1>3. KnownInv'
  BY <1>1, KnownKept DEF StackInv
<1>4. MonitorInv'
  BY <1>1, <1>2 DEF StackInv, MonitorInv, MonitorTypeOK
<1> QED
  BY <1>1, <1>3, <1>4 DEF StackInv, FilesInv

LEMMA RestartKeepsStack ==
  ASSUME StackInv, MonitorRestarts, FallbackEnds
  PROVE  StackInv'
<1>1. /\ monitor' = [pc |-> "probing", answers |-> NoAnswers]
      /\ components' = NoAnswers /\ gauge' = FALSE /\ restarts' = restarts + 1 /\ openFiles' = {}
      /\ UNCHANGED <<files, up, missed>>
  BY DEF MonitorRestarts, FallbackEnds
<1>2. restarts' \in Nat /\ restarts' # 0
  BY <1>1 DEF StackInv, MonitorInv
<1>3. KnownInv'
  BY <1>2 DEF KnownInv, HealthLogExplainsState
<1>4. DOMAIN NoAnswers = {}
  BY DEF NoAnswers
<1>5. MonitorInv'
  BY <1>1, <1>2, <1>4 DEF StackInv, MonitorInv, MonitorTypeOK
<1> QED
  BY <1>1, <1>3, <1>5 DEF StackInv, FilesInv

LEMMA StackInitInv == StackInit => StackInv /\ files["events"] = <<>>
<1> SUFFICES ASSUME StackInit PROVE StackInv /\ files["events"] = <<>>
  OBVIOUS
<1>1. /\ files = [file \in Files |-> <<>>] /\ openFiles = {}
      /\ up \in [Targets -> BOOLEAN]
      /\ monitor = [pc |-> "probing", answers |-> NoAnswers]
      /\ components = NoAnswers /\ gauge = FALSE /\ missed = FALSE /\ restarts = 0
  BY DEF StackInit, FallbackInit
<1>2. DOMAIN NoAnswers = {}
  BY DEF NoAnswers
<1>3. files["health"] = <<>> /\ files["events"] = <<>>
  BY <1>1 DEF Files
<1>4. FilesInv(Contents(Nat))
  <2>1. \A S : <<>> \in Seq(S)
    BY EmptySeq
  <2> QED
    BY <1>1, <2>1 DEF FilesInv
<1>5. MonitorInv
  <2>1. monitor.pc = "probing" /\ monitor.answers = NoAnswers
    BY <1>1
  <2>2. DOMAIN files["health"] = {}
    BY <1>3
  <2> QED
    BY <1>1, <1>2, <2>1, <2>2 DEF MonitorInv, MonitorTypeOK
<1>6. \A c : RecordsOf(c) = {}
  BY <1>3 DEF RecordsOf
<1>7. FallbackActive = FALSE
  BY <1>1, <1>2 DEF FallbackActive, Active
<1>8. KnownInv
  BY <1>1, <1>2, <1>3, <1>6, <1>7 DEF KnownInv, HealthLogExplainsState
<1> QED
  BY <1>3, <1>4, <1>5, <1>8 DEF StackInv

LEMMA StackStep == StackInv /\ [StackNext]_stackVars => StackInv'
<1> SUFFICES ASSUME StackInv, [StackNext]_stackVars PROVE StackInv'
  OBVIOUS
<1>1. CASE UNCHANGED stackVars
  <2>1. openFiles' \subseteq Files
    BY <1>1 DEF stackVars, fallbackVars, StackInv, MonitorInv, MonitorTypeOK
  <2> QED
    BY <1>1, <2>1, StackKept DEF stackVars, fallbackVars, monitorVars
<1> QED
  BY <1>1, WorldKeepsStack, ProbeKeepsStack, CheckKeepsStack, SleepKeepsStack, RestartKeepsStack
     DEF StackNext

\* For every list of components and every course of outages: until a restart, and
\* while every record could be written, the health file alternates per component,
\* starting with an outage, ends with the health last observed, and its last
\* record and the gauge carry the state of the fallback.
THEOREM HealthFileTellsTheState == StackSpec => [](MonitorTypeOK /\ HealthLogExplainsState)
<1>1. StackInv => MonitorTypeOK /\ HealthLogExplainsState
  BY DEF StackInv, MonitorInv, KnownInv
<1>2. StackInit => StackInv
  BY StackInitInv
<1> QED
  BY <1>1, <1>2, StackStep, PTL DEF StackSpec

-----------------------------------------------------------------------------
\* The ingest endpoint: the deduplication, as its batches drive it.

Senders == Clients \cup Users

Call == [sig : Signatures, at : Nat, duplicate : BOOLEAN]

BatchInv ==
    /\ batch = [who |-> batch.who, events |-> batch.events]
    /\ batch.who \in Senders /\ batch.events \in Seq(Event)
    /\ now \in Nat

\* A signature in the table was accepted once: it was not only seen.
CallsInv ==
    /\ calls \in Seq(Call)
    /\ DOMAIN recent \subseteq Signatures
    /\ \A s \in DOMAIN recent : \E i \in DOMAIN calls : calls[i].sig = s /\ ~calls[i].duplicate
    /\ DuplicateHasOriginal

\* One more call keeps the table backed by accepted events.
LEMMA CallKeepsOriginals ==
  ASSUME CallsInv, now \in Nat, NEW sig \in Signatures, Dedupe!IsDuplicate(sig)
  PROVE  /\ CallsInv'
         /\ Len(calls) \in Nat /\ Len(calls') = Len(calls) + 1
         /\ \A i \in 1 .. Len(calls) : calls'[i] = calls[i]
<1> DEFINE n == Len(calls)
           kept == Dedupe!RecentKept
           duplicate == sig \in DOMAIN kept /\ now - kept[sig] < DedupeWindow
           call == [sig |-> sig, at |-> now, duplicate |-> duplicate]
<1>1. /\ DOMAIN recent' = DOMAIN kept \cup {sig}
      /\ calls' = Append(calls, call)
  BY DEF Dedupe!IsDuplicate
<1>2. DOMAIN kept \subseteq DOMAIN recent
  BY DEF Dedupe!RecentKept, Dedupe!Restrict
<1>3. duplicate \in BOOLEAN /\ (duplicate => sig \in DOMAIN recent)
  BY <1>2
<1> HIDE DEF kept, duplicate
<1>4. call \in Call /\ call.sig = sig /\ call.duplicate = duplicate
  BY <1>3 DEF Call
<1> HIDE DEF call
<1>5. calls \in Seq(Call) /\ n \in Nat /\ DOMAIN calls = 1 .. n
  BY DEF CallsInv
<1>6. /\ calls' \in Seq(Call) /\ Len(calls') = n + 1
      /\ \A i \in 1 .. n : calls'[i] = calls[i]
      /\ calls'[n + 1] = call
  BY <1>1, <1>4, <1>5, AppendProperties
<1>7. DOMAIN calls' = 1 .. n + 1 /\ n + 1 \in 1 .. n + 1
  BY <1>5, <1>6
<1> HIDE DEF n
<1>8. sig \in DOMAIN recent => \E i \in 1 .. n : calls[i].sig = sig /\ ~calls[i].duplicate
  BY <1>5 DEF CallsInv
<1>9. \A s \in DOMAIN recent' : \E i \in DOMAIN calls' : calls'[i].sig = s /\ ~calls'[i].duplicate
  <2> SUFFICES ASSUME NEW s \in DOMAIN recent'
               PROVE  \E i \in 1 .. n + 1 : calls'[i].sig = s /\ ~calls'[i].duplicate
    BY <1>7
  <2>1. CASE s \in DOMAIN recent
    <3>1. PICK i \in 1 .. n : calls[i].sig = s /\ ~calls[i].duplicate
      BY <1>5, <2>1 DEF CallsInv
    <3>2. i \in 1 .. n + 1 /\ calls'[i] = calls[i]
      BY <1>5, <1>6
    <3> QED
      BY <3>1, <3>2
  <2>2. CASE s \notin DOMAIN recent
    <3>1. s = sig /\ ~duplicate
      BY <1>1, <1>2, <1>3, <2>2
    <3> QED
      BY <1>4, <1>6, <1>7, <3>1
  <2> QED
    BY <2>1, <2>2
<1>10. DuplicateHasOriginal'
  <2> SUFFICES ASSUME NEW j \in 1 .. n + 1, calls'[j].duplicate
               PROVE  \E i \in 1 .. j - 1 : calls'[i].sig = calls'[j].sig /\ ~calls'[i].duplicate
    BY <1>7 DEF DuplicateHasOriginal
  <2>1. CASE j \in 1 .. n
    <3>1. PICK i \in 1 .. j - 1 : calls[i].sig = calls[j].sig /\ ~calls[i].duplicate
      BY <1>5, <1>6, <2>1 DEF CallsInv, DuplicateHasOriginal
    <3>2. i \in 1 .. n
      BY <1>5, <2>1
    <3> QED
      BY <1>6, <2>1, <3>1, <3>2
  <2>2. CASE j = n + 1
    <3>1. sig \in DOMAIN recent
      BY <1>3, <1>4, <1>6, <2>2
    <3>2. PICK i \in 1 .. n : calls[i].sig = sig /\ ~calls[i].duplicate
      BY <1>8, <3>1
    <3>3. i \in 1 .. j - 1 /\ calls'[i] = calls[i] /\ calls'[j].sig = sig
      BY <1>4, <1>5, <1>6, <2>2
    <3> QED
      BY <3>2, <3>3
  <2> QED
    BY <1>5, <2>1, <2>2
<1>11. DOMAIN recent' \subseteq Signatures
  BY <1>1, <1>2 DEF CallsInv
<1> QED
  BY <1>5, <1>6, <1>9, <1>10, <1>11 DEF CallsInv, n

-----------------------------------------------------------------------------
\* The ingest endpoint: the copies of the events.

\* One observation of the fallback per call, and the file as it should be.
SeenInv ==
    /\ seen \in Seq([active : BOOLEAN, writable : BOOLEAN])
    /\ Len(seen) = Len(calls)
    /\ EventsLogExact

GatewayInv == BatchInv /\ CallsInv /\ SeenInv /\ StackInv

\* Of the event at the head of the batch: who sent it, and its signature.
LEMMA HeadFacts ==
  ASSUME BatchInv, ~Idle
  PROVE  /\ Head(batch.events) \in Event
         /\ <<batch.who, Head(batch.events).body>> \in Signatures
         /\ Tail(batch.events) \in Seq(Event)
         /\ Len(Tail(batch.events)) = Len(batch.events) - 1
<1>1. batch.events \in Seq(Event) /\ batch.events # <<>>
  BY DEF BatchInv, Idle
<1>2. /\ Head(batch.events) \in Event /\ Tail(batch.events) \in Seq(Event)
      /\ Len(Tail(batch.events)) = Len(batch.events) - 1
  BY <1>1, HeadTailProperties
<1>3. Head(batch.events).body \in Bodies
  BY <1>2 DEF Event
<1> QED
  BY <1>2, <1>3 DEF BatchInv, Senders, Signatures

\* The copied events, after one more.
LEMMA CopyFacts ==
  ASSUME SeenInv, CallsInv, StackInv, CallsInv', Len(calls') = Len(calls) + 1,
         \A i \in 1 .. Len(calls) : calls'[i] = calls[i],
         seen' = Append(seen, [active |-> FallbackActive, writable |-> Handler("events")]),
         files'["events"] =
            IF FallbackActive /\ Handler("events") /\ ~calls'[Len(calls')].duplicate
            THEN Append(files["events"], Len(calls')) ELSE files["events"]
  PROVE  SeenInv'
<1> DEFINE n == Len(calls)
           new == [active |-> FallbackActive, writable |-> Handler("events")]
           f == files["events"]
           Copied(i) == seen[i].active /\ seen[i].writable /\ ~calls[i].duplicate
           CopiedNext(i) == seen'[i].active /\ seen'[i].writable /\ ~calls'[i].duplicate
           S == {i \in 1 .. n : Copied(i)}
           SNext == {i \in 1 .. n + 1 : CopiedNext(i)}
<1>1. n \in Nat /\ Len(seen) = n /\ DOMAIN seen = 1 .. n
  BY DEF CallsInv, SeenInv
<1>2. new \in [active : BOOLEAN, writable : BOOLEAN]
  BY DEF FallbackActive, Active, Handler
<1>3. /\ seen' \in Seq([active : BOOLEAN, writable : BOOLEAN]) /\ Len(seen') = n + 1
      /\ \A i \in 1 .. n : seen'[i] = seen[i]
      /\ seen'[n + 1] = new /\ DOMAIN seen' = 1 .. n + 1
  <2>1. seen \in Seq([active : BOOLEAN, writable : BOOLEAN]) /\ seen' = Append(seen, new)
    BY DEF SeenInv
  <2> HIDE DEF new, n
  <2>2. /\ seen' \in Seq([active : BOOLEAN, writable : BOOLEAN]) /\ Len(seen') = n + 1
        /\ \A i \in 1 .. n : seen'[i] = seen[i]
        /\ seen'[n + 1] = new
    BY <1>1, <1>2, <2>1, AppendProperties
  <2> QED
    BY <1>1, <2>2
<1>4. Ascending(f, S)
  BY <1>1 DEF SeenInv, EventsLogExact
<1>5. \A i \in 1 .. n : CopiedNext(i) <=> Copied(i)
  BY <1>3
<1>6. CopiedNext(n + 1) <=> FallbackActive /\ Handler("events") /\ ~calls'[n + 1].duplicate
  BY <1>3
<1>7. /\ Len(calls') = n + 1
      /\ files'["events"] = IF CopiedNext(n + 1) THEN Append(f, n + 1) ELSE f
  BY <1>6
<1> HIDE DEF Copied, CopiedNext, f, n
<1>8. Ascending(files'["events"], SNext)
  <2>1. CASE CopiedNext(n + 1)
    <3>1. SNext = S \cup {n + 1}
      BY <1>1, <1>5, <2>1
    <3>2. f \in Seq(S)
      <4>1. f \in Seq(Nat)
        BY ContentsFacts DEF StackInv, f
      <4>2. Range(f) = S
        BY <1>4 DEF Ascending
      <4>3. \A i \in 1 .. Len(f) : f[i] \in S
        BY <4>1, <4>2 DEF Range
      <4> QED
        BY <4>1, <4>3
    <3>3. S \in SUBSET Nat /\ n + 1 \in Nat /\ \A k \in S : k < n + 1
      BY <1>1
    <3>4. Ascending(Append(f, n + 1), S \cup {n + 1})
      BY <1>4, <3>2, <3>3, AscendingAppend
    <3> QED
      BY <1>7, <2>1, <3>1, <3>4
  <2>2. CASE ~CopiedNext(n + 1)
    <3>1. SNext = S
      BY <1>1, <1>5, <2>2
    <3> QED
      BY <1>4, <1>7, <2>2, <3>1
  <2> QED
    BY <2>1, <2>2
<1>9. EventsLogExact'
  BY <1>3, <1>8 DEF EventsLogExact, CopiedNext
<1> QED
  BY <1>3, <1>7, <1>9 DEF SeenInv

LEMMA HandleKeeps ==
  ASSUME GatewayInv, HandleEvent
  PROVE  GatewayInv'
<1> DEFINE event == Head(batch.events)
           sig == <<batch.who, event.body>>
           m == Len(calls')
<1>1. /\ ~Idle /\ Dedupe!IsDuplicate(sig)
      /\ IF calls'[m].duplicate \/ ~FallbackActive THEN UNCHANGED fallbackVars ELSE WriteEvent(m)
      /\ seen' = Append(seen, [active |-> FallbackActive, writable |-> Handler("events")])
      /\ batch' = [batch EXCEPT !.events = Tail(batch.events)]
      /\ UNCHANGED monitorVars
  BY DEF HandleEvent
<1>2. /\ sig \in Signatures /\ Tail(batch.events) \in Seq(Event) /\ now \in Nat
  BY <1>1, HeadFacts DEF GatewayInv, BatchInv
<1>3. now' = now
  BY <1>1 DEF Dedupe!IsDuplicate
<1> HIDE DEF sig
<1>4. /\ CallsInv' /\ Len(calls) \in Nat /\ m = Len(calls) + 1
      /\ \A i \in 1 .. Len(calls) : calls'[i] = calls[i]
  BY <1>1, <1>2, CallKeepsOriginals DEF GatewayInv
<1>5. BatchInv'
  BY <1>1, <1>2, <1>3 DEF GatewayInv, BatchInv
<1>6. /\ StackInv'
      /\ files'["events"] =
            IF FallbackActive /\ Handler("events") /\ ~calls'[m].duplicate
            THEN Append(files["events"], m) ELSE files["events"]
  <2>1. CASE calls'[m].duplicate \/ ~FallbackActive
    <3>1. UNCHANGED fallbackVars /\ openFiles' \subseteq Files
      BY <1>1, <2>1 DEF fallbackVars, GatewayInv, StackInv, MonitorInv, MonitorTypeOK
    <3> QED
      BY <1>1, <2>1, <3>1, StackKept DEF fallbackVars, monitorVars, GatewayInv
  <2>2. CASE ~(calls'[m].duplicate \/ ~FallbackActive)
    <3>1. WriteEvent(m) /\ m \in Nat
      BY <1>1, <1>4, <2>2
    <3> HIDE DEF m
    <3> QED
      BY <1>1, <2>2, <3>1, EventKeepsStack DEF GatewayInv
  <2> QED
    BY <2>1, <2>2
<1>7. SeenInv'
  BY <1>1, <1>4, <1>6, CopyFacts DEF GatewayInv
<1> QED
  BY <1>4, <1>5, <1>6, <1>7 DEF GatewayInv

\* What the steps that handle no event leave alone.
LEMMA HandledKept ==
  ASSUME GatewayInv, UNCHANGED <<recent, calls, seen>>, files'["events"] = files["events"]
  PROVE  CallsInv' /\ SeenInv'
<1>1. EventsLogExact'
  BY DEF GatewayInv, SeenInv, EventsLogExact
<1>2. DuplicateHasOriginal'
  BY DEF GatewayInv, CallsInv, DuplicateHasOriginal
<1> QED
  BY <1>1, <1>2 DEF GatewayInv, CallsInv, SeenInv

LEMMA ReceiveKeeps ==
  ASSUME GatewayInv, NEW ip \in Clients, NEW events \in Batches, NEW user \in Users \cup {ip},
         Receive(ip, user, events)
  PROVE  GatewayInv'
<1>1. /\ Limiter!RateLimited(ip)
      /\ batch' = [who |-> user, events |-> IF verdict'[2] THEN events ELSE <<>>]
      /\ UNCHANGED <<stackVars, dedupeState, emitterState, seen>>
  BY DEF Receive
<1>2. now' = now
  BY <1>1 DEF Limiter!RateLimited
<1>3. events \in Seq(Event) /\ <<>> \in Seq(Event)
  <2>1. PICK n \in 0 .. MaxBatchEvents : events \in [1 .. n -> Event]
    BY DEF Batches
  <2>2. n \in Nat
    BY GatewayAssumption
  <2> QED
    BY <2>1, <2>2
<1>4. BatchInv'
  BY <1>1, <1>2, <1>3 DEF GatewayInv, BatchInv, Senders
<1>5. /\ UNCHANGED <<up, monitor, components, gauge, missed, restarts, files>>
      /\ openFiles' \subseteq Files
  BY <1>1 DEF stackVars, fallbackVars, monitorVars, GatewayInv, StackInv, MonitorInv, MonitorTypeOK
<1>6. StackInv'
  BY <1>5, StackKept DEF GatewayInv
<1>7. CallsInv' /\ SeenInv'
  BY <1>1, <1>5, HandledKept DEF dedupeState
<1> QED
  BY <1>4, <1>6, <1>7 DEF GatewayInv

LEMMA MonitorKeeps ==
  ASSUME GatewayInv, Monitor
  PROVE  GatewayInv'
<1>1. UNCHANGED <<now, dedupeState, batch, seen>>
  BY DEF Monitor
<1>2. StackInv' /\ files'["events"] = files["events"]
  <2>1. ASSUME NEW c \in Targets, ProbeReturns(c) PROVE files' = files
    BY <2>1 DEF ProbeReturns, fallbackVars
  <2> QED
    BY <2>1, WorldKeepsStack, ProbeKeepsStack, CheckKeepsStack, SleepKeepsStack
       DEF Monitor, GatewayInv
<1>3. CallsInv' /\ SeenInv'
  BY <1>1, <1>2, HandledKept DEF dedupeState
<1> QED
  BY <1>1, <1>2, <1>3 DEF GatewayInv, BatchInv

LEMMA GatewayStep == GatewayInv /\ [GatewayNext]_gatewayVars => GatewayInv'
<1> SUFFICES ASSUME GatewayInv, [GatewayNext]_gatewayVars PROVE GatewayInv'
  OBVIOUS
<1>1. ASSUME UNCHANGED <<stackVars, dedupeState, batch, seen>>, now' \in Nat PROVE GatewayInv'
  <2>1. /\ UNCHANGED <<up, monitor, components, gauge, missed, restarts, files>>
        /\ openFiles' \subseteq Files
    BY <1>1 DEF stackVars, fallbackVars, monitorVars, GatewayInv, StackInv, MonitorInv, MonitorTypeOK
  <2>2. StackInv'
    BY <2>1, StackKept DEF GatewayInv
  <2>3. CallsInv' /\ SeenInv'
    BY <1>1, <2>1, HandledKept DEF dedupeState
  <2> QED
    BY <1>1, <2>2, <2>3 DEF GatewayInv, BatchInv
<1>2. CASE Tick
  BY <1>1, <1>2 DEF Tick, GatewayInv, BatchInv
<1>3. CASE UNCHANGED gatewayVars
  BY <1>1, <1>3 DEF gatewayVars, GatewayInv, BatchInv
<1> QED
  BY <1>2, <1>3, HandleKeeps, ReceiveKeeps, MonitorKeeps DEF GatewayNext

LEMMA GatewayInitInv == GatewayInit => GatewayInv
<1> SUFFICES ASSUME GatewayInit PROVE GatewayInv
  OBVIOUS
<1>1. /\ StackInit /\ recent = [s \in {} |-> 0] /\ now = 0 /\ calls = <<>> /\ seen = <<>>
      /\ batch \in [who : Senders, events : {<<>>}]
  BY DEF GatewayInit, Dedupe!DeduperInit, Senders
<1>2. StackInv /\ files["events"] = <<>>
  BY <1>1, StackInitInv
<1>3. \A S : <<>> \in Seq(S)
  BY EmptySeq
<1>4. BatchInv
  BY <1>1, <1>3 DEF BatchInv
<1>5. DOMAIN recent = {} /\ DOMAIN calls = {}
  BY <1>1
<1>6. CallsInv
  BY <1>1, <1>3, <1>5 DEF CallsInv, DuplicateHasOriginal
<1>7. SeenInv
  BY <1>1, <1>2, <1>3 DEF SeenInv, EventsLogExact, Ascending, Range
<1> QED
  BY <1>2, <1>4, <1>6, <1>7 DEF GatewayInv

LEMMA GatewayAlways == GatewaySpec => []GatewayInv
BY GatewayInitInv, GatewayStep, PTL DEF GatewaySpec

\* However many senders, batches and events there are, and whatever the limiter
\* refuses or the table forgets: an event is suppressed only if the same
\* sender's same event was accepted before.
THEOREM SuppressedWasAccepted == GatewaySpec => []DuplicateHasOriginal
<1>1. GatewayInv => DuplicateHasOriginal
  BY DEF GatewayInv, CallsInv
<1> QED
  BY <1>1, GatewayAlways, PTL

\* However the outages, the log directory and the batches interleave, the
\* fallback file holds each accepted event it should, once and in order.
THEOREM FallbackFileIsExact == GatewaySpec => []EventsLogExact
<1>1. GatewayInv => EventsLogExact
  BY DEF GatewayInv, SeenInv
<1> QED
  BY <1>1, GatewayAlways, PTL

\* The handler of the events never disturbs what the health file tells.
THEOREM HealthFileTellsInGateway == GatewaySpec => []HealthLogExplainsState
<1>1. GatewayInv => HealthLogExplainsState
  BY DEF GatewayInv, StackInv, KnownInv
<1> QED
  BY <1>1, GatewayAlways, PTL

-----------------------------------------------------------------------------
\* The endpoint uses its components as their own modules say.

\* The bounds of a run: what is left of a batch still fits.
BudgetInv ==
    /\ Len(calls) + Len(batch.events) <= MaxCalls
    /\ records \in Seq([app : Emitting!Services, service : Emitting!Outcomes])
    /\ Len(records) <= Len(calls)

LEMMA BudgetInit == GatewayInit => BudgetInv
<1> SUFFICES ASSUME GatewayInit PROVE BudgetInv
  OBVIOUS
<1>1. calls = <<>> /\ batch.events = <<>> /\ records = <<>> /\ MaxCalls \in Nat
  BY GatewayAssumption DEF GatewayInit, Dedupe!DeduperInit, Emitting!EmitterInit
<1>2. \A S : <<>> \in Seq(S)
  BY EmptySeq
<1>3. Len(<<>>) = 0
  OBVIOUS
<1> QED
  BY <1>1, <1>2, <1>3 DEF BudgetInv

\* One more record.
LEMMA EmitGrows ==
  ASSUME BudgetInv, NEW app \in Emitting!Services, Emitting!Emit(app)
  PROVE  /\ records' \in Seq([app : Emitting!Services, service : Emitting!Outcomes])
         /\ Len(records') = Len(records) + 1
<1>1. PICK service \in IF Endpoint THEN {Emitting!LoggerFor(app), "failed"} ELSE {"stdout"} :
         records' = Append(records, [app |-> app, service |-> service])
  BY DEF Emitting!Emit
<1> DEFINE new == [app |-> app, service |-> service]
<1>2. Emitting!LoggerFor(app) \in Emitting!Services
  BY DEF Emitting!LoggerFor, Emitting!Services
<1>3. service \in Emitting!Outcomes
  BY <1>2 DEF Emitting!Outcomes
<1>4. new \in [app : Emitting!Services, service : Emitting!Outcomes]
  BY <1>3
<1> HIDE DEF new
<1> QED
  BY <1>1, <1>4, AppendProperties DEF BudgetInv, new

\* One turn of the loop is one call of the deduplication, and at most one
\* record of the emitter.
LEMMA HandleIsOneCall ==
  ASSUME GatewayInv, BudgetInv, HandleEvent
  PROVE  /\ BudgetInv' /\ now' = now
         /\ Len(calls) < MaxCalls /\ Len(records) < MaxCalls
         /\ \E sig \in Signatures : Dedupe!IsDuplicate(sig)
         /\ UNCHANGED emitterState \/ \E app \in Emitting!Services : Emitting!Emit(app)
<1> DEFINE event == Head(batch.events)
           sig == <<batch.who, event.body>>
<1>1. /\ ~Idle /\ Dedupe!IsDuplicate(sig)
      /\ UNCHANGED emitterState \/ Emitting!Emit(event.app)
      /\ batch' = [batch EXCEPT !.events = Tail(batch.events)]
  BY DEF HandleEvent
<1>2. /\ event \in Event /\ sig \in Signatures /\ Tail(batch.events) \in Seq(Event)
      /\ Len(Tail(batch.events)) = Len(batch.events) - 1
  BY <1>1, HeadFacts DEF GatewayInv
<1>3. event.app \in Emitting!Services
  BY <1>2 DEF Event
<1> HIDE DEF event, sig
<1>4. /\ Len(calls) \in Nat /\ Len(calls') = Len(calls) + 1
  BY <1>1, <1>2, CallKeepsOriginals DEF GatewayInv, BatchInv
<1>5. batch'.events = Tail(batch.events)
  BY <1>1 DEF GatewayInv, BatchInv
<1>6. /\ Len(batch.events) \in Nat /\ Len(batch'.events) = Len(batch.events) - 1
      /\ Len(batch'.events) \in Nat /\ MaxCalls \in Nat /\ Len(records) \in Nat
  BY <1>2, <1>5, GatewayAssumption DEF GatewayInv, BatchInv, BudgetInv
<1>7. Len(calls) + Len(batch.events) <= MaxCalls /\ Len(records) <= Len(calls)
  BY DEF BudgetInv
<1> DEFINE n == Len(calls)
           left == Len(batch.events)
           r == Len(records)
<1> HIDE DEF n, left, r
<1>8. /\ n \in Nat /\ left \in Nat /\ left - 1 \in Nat /\ r \in Nat /\ MaxCalls \in Nat
      /\ n + left <= MaxCalls /\ r <= n
  BY <1>4, <1>6, <1>7 DEF n, left, r
<1>9. n < MaxCalls /\ r < MaxCalls /\ (n + 1) + (left - 1) <= MaxCalls /\ r <= n + 1
  BY <1>8
<1>10. /\ Len(calls) < MaxCalls /\ Len(records) < MaxCalls
       /\ Len(calls') + Len(batch'.events) <= MaxCalls
       /\ Len(records) <= Len(calls') /\ Len(records) + 1 <= Len(calls')
  <2>1. /\ Len(calls) = n /\ Len(calls') = n + 1
        /\ Len(batch'.events) = left - 1 /\ Len(records) = r
    BY <1>4, <1>6 DEF n, left, r
  <2>2. r + 1 <= n + 1
    BY <1>8
  <2> QED
    BY <1>9, <2>1, <2>2
<1>11. now' = now
  BY <1>1 DEF Dedupe!IsDuplicate
<1>12. CASE UNCHANGED emitterState
  <2>1. records' = records
    BY <1>12 DEF emitterState
  <2>2. BudgetInv'
    BY <1>10, <2>1 DEF BudgetInv
  <2> QED
    BY <1>1, <1>2, <1>10, <1>11, <1>12, <2>2
<1>13. CASE Emitting!Emit(event.app)
  <2>1. /\ records' \in Seq([app : Emitting!Services, service : Emitting!Outcomes])
        /\ Len(records') = Len(records) + 1
    BY <1>3, <1>13, EmitGrows
  <2>2. BudgetInv'
    BY <1>10, <2>1 DEF BudgetInv
  <2> QED
    BY <1>1, <1>2, <1>3, <1>10, <1>11, <1>13, <2>2
<1> QED
  BY <1>1, <1>12, <1>13

LEMMA BudgetStep == GatewayInv /\ BudgetInv /\ [GatewayNext]_gatewayVars => BudgetInv'
<1> SUFFICES ASSUME GatewayInv, BudgetInv, [GatewayNext]_gatewayVars PROVE BudgetInv'
  OBVIOUS
<1>1. ASSUME UNCHANGED <<dedupeState, emitterState, batch>> PROVE BudgetInv'
  BY <1>1 DEF BudgetInv, dedupeState, emitterState
<1>2. ASSUME NEW ip \in Clients, NEW events \in Batches, NEW user \in Users \cup {ip},
             Len(calls) + Len(events) <= MaxCalls, Receive(ip, user, events)
      PROVE  BudgetInv'
  <2>1. /\ calls' = calls /\ records' = records
        /\ batch'.events = IF verdict'[2] THEN events ELSE <<>>
    BY <1>2 DEF Receive, dedupeState, emitterState
  <2>2. Len(calls) \in Nat /\ Len(batch.events) \in Nat /\ MaxCalls \in Nat /\ Len(<<>>) = 0
    BY GatewayAssumption DEF GatewayInv, CallsInv, BatchInv
  <2>3. Len(calls) <= MaxCalls
    BY <2>2 DEF BudgetInv
  <2> QED
    BY <1>2, <2>1, <2>2, <2>3 DEF BudgetInv
<1> QED
  BY <1>1, <1>2, HandleIsOneCall DEF GatewayNext, Tick, Monitor, gatewayVars

\* Through the endpoint the limiter sees a run of its own specification.
THEOREM GatewayDrivesLimiter == GatewaySpec => Limiter!LimiterSpec
<1>1. GatewayInit => Limiter!LimiterInit
  BY DEF GatewayInit
<1>2. [GatewayNext]_gatewayVars => [Limiter!LimiterNext]_(Limiter!limiterVars)
  <2> SUFFICES ASSUME [GatewayNext]_gatewayVars
               PROVE  [Limiter!LimiterNext]_(Limiter!limiterVars)
    OBVIOUS
  <2>1. ASSUME NEW ip \in Clients, Limiter!RateLimited(ip), Len(log[ip]) < MaxLog
        PROVE  Limiter!LimiterNext
    BY <2>1 DEF Limiter!LimiterNext
  <2>2. ASSUME UNCHANGED <<limiterState, now>> PROVE UNCHANGED Limiter!limiterVars
    BY <2>2 DEF limiterState, Limiter!limiterVars
  <2>3. CASE HandleEvent
    BY <2>2, <2>3 DEF HandleEvent, Dedupe!IsDuplicate
  <2>4. CASE Tick
    BY <2>4 DEF Tick, limiterState, Limiter!LimiterNext, Limiter!LimiterTick
  <2>5. CASE Monitor \/ UNCHANGED gatewayVars
    BY <2>2, <2>5 DEF Monitor, gatewayVars
  <2> QED
    BY <2>1, <2>3, <2>4, <2>5 DEF GatewayNext, Receive
<1> QED
  BY <1>1, <1>2, PTL DEF GatewaySpec, Limiter!LimiterSpec

\* Through the endpoint the deduplication sees a run of its own specification:
\* what is proved of Deduper is true of every event the gateway handles.
THEOREM GatewayDrivesDeduper == GatewaySpec => Dedupe!DeduperSpec
<1>1. GatewayInit => Dedupe!DeduperInit
  BY DEF GatewayInit
<1>2. GatewayInv /\ BudgetInv /\ [GatewayNext]_gatewayVars => [Dedupe!DeduperNext]_(Dedupe!deduperVars)
  <2> SUFFICES ASSUME GatewayInv, BudgetInv, [GatewayNext]_gatewayVars
               PROVE  [Dedupe!DeduperNext]_(Dedupe!deduperVars)
    OBVIOUS
  <2>1. CASE HandleEvent
    BY <2>1, HandleIsOneCall DEF Dedupe!DeduperNext
  <2>2. ASSUME UNCHANGED <<dedupeState, now>> PROVE UNCHANGED Dedupe!deduperVars
    BY <2>2 DEF dedupeState, Dedupe!deduperVars
  <2>3. CASE Tick
    BY <2>3 DEF Tick, dedupeState, Dedupe!DeduperNext, Dedupe!DeduperTick
  <2>4. ASSUME NEW ip \in Clients, NEW events \in Batches, NEW user \in Users \cup {ip},
               Receive(ip, user, events)
        PROVE  UNCHANGED Dedupe!deduperVars
    BY <2>2, <2>4 DEF Receive, Limiter!RateLimited
  <2>5. CASE Monitor \/ UNCHANGED gatewayVars
    BY <2>2, <2>5 DEF Monitor, gatewayVars
  <2> QED
    BY <2>1, <2>3, <2>4, <2>5 DEF GatewayNext
<1> QED
  BY <1>1, <1>2, GatewayAlways, BudgetInit, GatewayInitInv, GatewayStep, BudgetStep, PTL
     DEF GatewaySpec, Dedupe!DeduperSpec

\* And the emitter, if its own bound on a run does not cut this one short.
THEOREM GatewayDrivesEmitter ==
  ASSUME MaxCalls <= MaxRecords PROVE GatewaySpec => Emitting!EmitterSpec
<1>1. GatewayInit => Emitting!EmitterInit
  BY DEF GatewayInit
<1>2. GatewayInv /\ BudgetInv /\ [GatewayNext]_gatewayVars => [Emitting!EmitterNext]_(Emitting!emitterVars)
  <2> SUFFICES ASSUME GatewayInv, BudgetInv, [GatewayNext]_gatewayVars
               PROVE  [Emitting!EmitterNext]_(Emitting!emitterVars)
    OBVIOUS
  <2>1. ASSUME UNCHANGED emitterState PROVE UNCHANGED Emitting!emitterVars
    BY <2>1 DEF emitterState, Emitting!emitterVars
  <2>2. CASE HandleEvent
    <3>1. Len(records) < MaxRecords
      <4>1. Len(records) < MaxCalls
        BY <2>2, HandleIsOneCall
      <4>2. Len(records) \in Nat /\ MaxCalls \in Nat /\ MaxRecords \in Nat
        BY GatewayAssumption DEF BudgetInv
      <4> QED
        BY <4>1, <4>2
    <3> QED
      BY <2>1, <2>2, <3>1, HandleIsOneCall DEF Emitting!EmitterNext
  <2> QED
    BY <2>1, <2>2 DEF GatewayNext, Receive, Tick, Monitor, gatewayVars
<1> QED
  BY <1>1, <1>2, GatewayAlways, BudgetInit, GatewayInitInv, GatewayStep, BudgetStep, PTL
     DEF GatewaySpec, Emitting!EmitterSpec
=============================================================================
