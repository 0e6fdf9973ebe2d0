--------------------------- MODULE Delivery_proofs ---------------------------
(***************************************************************************)
(* Proofs about Deduper and Delivery, for every set of signatures, window  *)
(* and table size: what the gateway may suppress and what may slip         *)
(* through, and what becomes of the events a phone sends it.               *)
(***************************************************************************)
EXTENDS Delivery, SequenceTheorems, FiniteSetTheorems, TLAPS

Calls == [sig : Signatures, at : Nat, duplicate : BOOLEAN]

\* A signature in the table is there from a call.
EntriesFromCalls ==
    \A s \in DOMAIN recent : \E i \in 1 .. Len(calls) :
        calls[i].sig = s /\ calls[i].at = recent[s]

Flooded(m) == Cardinality(SeenInWindow(m)) > MaxTrackedKeys

\* A call is remembered, or it has expired, or a flood came after it.
Accounted(i) ==
    \/ calls[i].sig \in DOMAIN recent /\ recent[calls[i].sig] >= calls[i].at
    \/ calls[i].at < now - DedupeWindow
    \/ \E m \in i + 1 .. Len(calls) : Flooded(m)

\* The inductive invariant.
DeduperInv ==
    /\ DeduperTypeOK
    /\ IsFiniteSet(DOMAIN recent)
    /\ EntriesFromCalls
    /\ \A i \in 1 .. Len(calls) : calls[i].at <= now /\ Accounted(i)

-----------------------------------------------------------------------------
\* What the prune leaves: a part of the table with at most MaxTrackedKeys
\* entries, which lacks a live entry only when a flood is on.
LEMMA PruneFacts ==
  ASSUME DeduperInv
  PROVE  /\ DOMAIN RecentKept \subseteq DOMAIN recent
         /\ \A s \in DOMAIN RecentKept : RecentKept[s] = recent[s]
         /\ IsFiniteSet(DOMAIN RecentKept)
         /\ Cardinality(DOMAIN RecentKept) <= MaxTrackedKeys
         /\ \/ \A s \in DOMAIN recent :
                  recent[s] >= now - DedupeWindow => s \in DOMAIN RecentKept
            \/ Cardinality({s \in DOMAIN recent : recent[s] >= now - DedupeWindow})
                  > MaxTrackedKeys
<1> DEFINE live == {s \in DOMAIN recent : recent[s] >= now - DedupeWindow}
<1>1. IsFiniteSet(DOMAIN recent) /\ MaxTrackedKeys \in Nat /\ live \in SUBSET DOMAIN recent
  BY DeduperAssumption DEF DeduperInv
<1>2. IsFiniteSet(live) /\ Cardinality(live) \in Nat /\ Cardinality(DOMAIN recent) \in Nat
  BY <1>1, FS_Subset, FS_CardinalityType
<1>3. IsFiniteSet({}) /\ Cardinality({}) = 0
  BY FS_EmptySet
<1> HIDE DEF live
<1>4. CASE Cardinality(DOMAIN recent) <= MaxTrackedKeys
  BY <1>1, <1>4 DEF RecentKept
<1>5. CASE Cardinality(DOMAIN recent) > MaxTrackedKeys /\ Cardinality(live) > MaxTrackedKeys
  <2>1. RecentKept = Restrict(recent, {})
    BY <1>1, <1>2, <1>5 DEF RecentKept, live
  <2>2. DOMAIN RecentKept = {}
    BY <2>1 DEF Restrict
  <2> QED
    BY <1>1, <1>3, <1>5, <2>2 DEF live
<1>6. CASE Cardinality(DOMAIN recent) > MaxTrackedKeys /\ ~(Cardinality(live) > MaxTrackedKeys)
  <2>1. RecentKept = Restrict(recent, live)
    BY <1>1, <1>2, <1>6 DEF RecentKept, live
  <2>2. DOMAIN RecentKept = live /\ \A s \in live : RecentKept[s] = recent[s]
    BY <2>1 DEF Restrict
  <2>3. \A s \in DOMAIN recent : recent[s] >= now - DedupeWindow => s \in live
    BY DEF live
  <2> QED
    BY <1>1, <1>2, <1>6, <2>2, <2>3
<1> QED
  BY <1>1, <1>2, <1>4, <1>5, <1>6

LEMMA DeduperInitInv == DeduperInit => DeduperInv /\ RecentBounded
<1> SUFFICES ASSUME DeduperInit PROVE DeduperInv /\ RecentBounded
  OBVIOUS
<1>1. /\ <<>> \in Seq(Calls) /\ Len(<<>>) = 0 /\ MaxTrackedKeys \in Nat
      /\ IsFiniteSet({}) /\ Cardinality({}) = 0
  BY EmptySeq, FS_EmptySet, DeduperAssumption
<1>2. DOMAIN recent = {} /\ recent \in [{} -> Nat] /\ now = 0 /\ calls = <<>>
  BY DEF DeduperInit
<1>3. DeduperTypeOK
  BY <1>1, <1>2 DEF DeduperTypeOK, Calls
<1>4. RecentBounded
  BY <1>1, <1>2 DEF RecentBounded
<1>5. EntriesFromCalls /\ \A i \in 1 .. Len(calls) : FALSE
  BY <1>1, <1>2 DEF EntriesFromCalls
<1> QED
  BY <1>1, <1>2, <1>3, <1>4, <1>5 DEF DeduperInv

LEMMA DeduperTickInv ==
  ASSUME DeduperInv, DeduperTick
  PROVE  DeduperInv'
<1>1. /\ now \in Nat /\ now' = now + 1 /\ UNCHANGED <<recent, calls>> /\ DedupeWindow \in Nat
  BY DeduperAssumption DEF DeduperInv, DeduperTypeOK, DeduperTick
<1>2. DeduperTypeOK' /\ EntriesFromCalls'
  BY <1>1 DEF DeduperInv, DeduperTypeOK, EntriesFromCalls
<1>3. ASSUME NEW i \in 1 .. Len(calls)
      PROVE  (calls[i].at <= now)' /\ Accounted(i)'
  <2>1. calls[i].at \in Nat /\ calls[i].at <= now /\ Accounted(i)
    <3>1. calls \in Seq(Calls) /\ calls[i].at <= now /\ Accounted(i)
      BY DEF DeduperInv, DeduperTypeOK, Calls
    <3>2. calls[i] \in Calls
      BY <3>1, ElementOfSeq
    <3> QED
      BY <3>1, <3>2 DEF Calls
  <2>2. \A m : Flooded(m)' = Flooded(m)
    BY <1>1 DEF Flooded, SeenInWindow
  <2> QED
    BY <1>1, <2>1, <2>2 DEF Accounted
<1> QED
  BY <1>1, <1>2, <1>3 DEF DeduperInv

\* One call preserves the invariant, bounds the table, and answers well: what
\* it suppresses was seen within the window, and it lets a repetition through
\* only if a flood came in between.
LEMMA CallFacts ==
  ASSUME DeduperInv, NEW sig \in Signatures, IsDuplicate(sig),
         NEW L \in Nat, L = Len(calls)
  PROVE  /\ DeduperInv'
         /\ RecentBounded'
         /\ calls' \in Seq(Calls) /\ Len(calls') = L + 1
         /\ \A i \in 1 .. L : calls'[i] = calls[i]
         /\ \A m \in 1 .. L : Flooded(m)' = Flooded(m)
         /\ calls'[L + 1].duplicate => \E i \in 1 .. L : Repeats(i, L + 1)'
         /\ ~calls'[L + 1].duplicate =>
              \A i \in 1 .. L :
                 Repeats(i, L + 1)' => \E m \in i + 1 .. L + 1 : Flooded(m)'
<1> DEFINE kept == RecentKept
           dup == sig \in DOMAIN kept /\ now - kept[sig] < DedupeWindow
           call == [sig |-> sig, at |-> now, duplicate |-> dup]
           live == {s \in DOMAIN recent : recent[s] >= now - DedupeWindow}
           flood == Cardinality(live) > MaxTrackedKeys
<1>1. /\ now \in Nat /\ DedupeWindow \in Nat /\ MaxTrackedKeys \in Nat
      /\ calls \in Seq(Calls) /\ recent \in [DOMAIN recent -> Nat]
      /\ DOMAIN recent \subseteq Signatures
  BY DeduperAssumption DEF DeduperInv, DeduperTypeOK, Calls
<1>2. call \in Calls /\ call.sig = sig /\ call.at = now /\ call.duplicate = dup
  BY <1>1 DEF Calls
<1>3. /\ recent' = [s \in DOMAIN kept \cup {sig} |-> IF s = sig THEN now ELSE kept[s]]
      /\ calls' = Append(calls, call) /\ now' = now
  BY DEF IsDuplicate
<1>4. /\ L \in Nat /\ DOMAIN calls = 1 .. L /\ Len(calls) = L
      /\ \A i \in 1 .. L : calls[i] \in Calls /\ calls[i].at \in Nat
  <2>1. L = Len(calls) /\ DOMAIN calls = 1 .. L /\ \A i \in 1 .. L : calls[i] \in Calls
    BY <1>1, LenProperties
  <2> QED
    BY <2>1 DEF Calls
<1> HIDE DEF call
<1>5. /\ calls' \in Seq(Calls) /\ Len(calls') = L + 1
      /\ \A i \in 1 .. L : calls'[i] = calls[i]
      /\ calls'[L + 1] = call
  BY <1>1, <1>2, <1>3, AppendProperties
<1>6. /\ DOMAIN kept \subseteq DOMAIN recent /\ \A s \in DOMAIN kept : kept[s] = recent[s]
      /\ IsFiniteSet(DOMAIN kept) /\ Cardinality(DOMAIN kept) <= MaxTrackedKeys
      /\ flood \/ \A s \in DOMAIN recent : recent[s] >= now - DedupeWindow => s \in DOMAIN kept
  BY PruneFacts
<1> HIDE DEF kept
<1>7. DOMAIN recent' = DOMAIN kept \cup {sig} /\ recent'[sig] = now
      /\ \A s \in DOMAIN kept \ {sig} : recent'[s] = recent[s]
  BY <1>3, <1>6
<1>8. RecentBounded' /\ IsFiniteSet(DOMAIN recent')
  <2>1. /\ IsFiniteSet(DOMAIN kept \cup {sig})
        /\ Cardinality(DOMAIN kept \cup {sig})
             = IF sig \in DOMAIN kept THEN Cardinality(DOMAIN kept) ELSE Cardinality(DOMAIN kept) + 1
    BY <1>6, FS_AddElement
  <2>2. Cardinality(DOMAIN kept) \in Nat
    BY <1>6, FS_CardinalityType
  <2> QED
    BY <1>1, <1>6, <1>7, <2>1, <2>2 DEF RecentBounded
<1>9. DeduperTypeOK'
  BY <1>1, <1>3, <1>5, <1>6, <1>7 DEF DeduperTypeOK, Calls
<1>10. ASSUME NEW m \in 1 .. L
       PROVE  Flooded(m)' = Flooded(m)
  <2>1. \A k \in 1 .. m - 1 : k \in 1 .. L
    BY <1>4
  <2>2. SeenInWindow(m)' = SeenInWindow(m)
    BY <1>5, <2>1 DEF SeenInWindow
  <2> QED
    BY <2>2 DEF Flooded
\* Whatever is live in the table was seen in the window that ends here.
<1>11. flood => Flooded(L + 1)'
  <2> DEFINE Seen == SeenInWindow(L + 1)'
  <2>1. live \subseteq Seen
    <3> SUFFICES ASSUME NEW s \in live PROVE s \in Seen
      OBVIOUS
    <3>1. PICK k \in 1 .. L : calls[k].sig = s /\ calls[k].at = recent[s]
      BY DEF DeduperInv, EntriesFromCalls
    <3>2. recent[s] \in Nat /\ recent[s] >= now - DedupeWindow
      BY <1>1
    <3>3. k \in 1 .. (L + 1) - 1 /\ calls'[k] = calls[k] /\ calls'[L + 1].at = now
      BY <1>2, <1>4, <1>5
    <3>4. calls'[L + 1].at - calls'[k].at <= DedupeWindow
      BY <1>1, <3>1, <3>2, <3>3
    <3> QED
      BY <3>1, <3>3, <3>4 DEF SeenInWindow
  <2>2. IsFiniteSet(Seen)
    <3> DEFINE K == {k \in 1 .. (L + 1) - 1 : calls'[L + 1].at - calls'[k].at <= DedupeWindow}
    <3>1. IsFiniteSet(1 .. (L + 1) - 1)
      BY <1>4, FS_Interval
    <3>2. IsFiniteSet(K)
      BY <3>1, FS_Subset
    <3> DEFINE f == [k \in K |-> calls'[k].sig]
    <3>3. IsFiniteSet(Range(f))
      <4>1. f \in [K -> Range(f)] /\ \A y \in Range(f) : \E x \in K : f[x] = y
        BY DEF Range
      <4>2. f \in Surjection(K, Range(f))
        BY <4>1 DEF Surjection
      <4> HIDE DEF K, f
      <4> QED
        BY <3>2, <4>2, FS_Surjection
    <3>4. Range(f) = {calls'[k].sig : k \in K}
      BY DEF Range
    <3> QED
      BY <3>3, <3>4 DEF SeenInWindow
  <2> HIDE DEF Seen, live
  <2>3. IsFiniteSet(live) /\ Cardinality(live) <= Cardinality(Seen)
    BY <2>1, <2>2, FS_Subset
  <2>4. Cardinality(live) \in Nat /\ Cardinality(Seen) \in Nat
    BY <2>2, <2>3, FS_CardinalityType
  <2> QED
    BY <1>1, <2>3, <2>4 DEF Flooded, Seen
<1> HIDE DEF live, flood
<1>12. EntriesFromCalls'
  <2> SUFFICES ASSUME NEW s \in DOMAIN recent'
               PROVE  \E i \in 1 .. L + 1 : calls'[i].sig = s /\ calls'[i].at = recent'[s]
    BY <1>5 DEF EntriesFromCalls
  <2>1. CASE s = sig
    <3>1. L + 1 \in 1 .. L + 1
      BY <1>4
    <3> QED
      BY <1>2, <1>5, <1>7, <2>1, <3>1
  <2>2. CASE s # sig
    <3>1. s \in DOMAIN recent /\ recent'[s] = recent[s]
      BY <1>6, <1>7, <2>2
    <3>2. PICK i \in 1 .. L : calls[i].sig = s /\ calls[i].at = recent[s]
      BY <3>1 DEF DeduperInv, EntriesFromCalls
    <3>3. i \in 1 .. L + 1
      BY <1>4
    <3> QED
      BY <1>5, <3>1, <3>2, <3>3
  <2> QED
    BY <2>1, <2>2
<1>13. ASSUME NEW i \in 1 .. L + 1
       PROVE  calls'[i].at <= now' /\ Accounted(i)'
  <2>1. CASE i = L + 1
    <3>1. calls'[i].at = now /\ calls'[i].sig = sig
      BY <1>2, <1>5, <2>1
    <3> QED
      BY <1>1, <1>3, <1>7, <3>1 DEF Accounted
  <2>2. CASE i # L + 1
    <3>1. i \in 1 .. L /\ L + 1 \in i + 1 .. L + 1 /\ calls'[i] = calls[i]
      BY <1>4, <1>5, <2>2
    <3>2. calls[i].at <= now /\ Accounted(i) /\ calls[i].at \in Nat /\ calls[i].sig \in Signatures
      BY <1>4, <3>1 DEF DeduperInv, Calls
    <3>3. CASE flood
      BY <1>3, <1>5, <1>11, <3>1, <3>2, <3>3 DEF Accounted
    <3>4. CASE calls[i].at < now - DedupeWindow
      BY <1>3, <3>1, <3>2, <3>4 DEF Accounted
    <3>5. CASE \E m \in i + 1 .. L : Flooded(m)
      <4>1. PICK m \in i + 1 .. L : Flooded(m)
        BY <3>5
      <4>2. m \in 1 .. L /\ m \in i + 1 .. L + 1
        BY <1>4, <3>1
      <4>3. Flooded(m)'
        BY <1>10, <4>1, <4>2
      <4> QED
        BY <1>3, <1>5, <3>1, <3>2, <4>2, <4>3 DEF Accounted
    <3>6. CASE /\ ~flood /\ ~(calls[i].at < now - DedupeWindow)
               /\ calls[i].sig \in DOMAIN recent /\ recent[calls[i].sig] >= calls[i].at
      <4>1. recent[calls[i].sig] \in Nat
        BY <1>1, <3>6
      <4>2. calls[i].sig \in DOMAIN kept
        BY <1>1, <1>6, <3>2, <3>6, <4>1
      <4>3. calls[i].sig \in DOMAIN recent' /\ recent'[calls[i].sig] >= calls[i].at
        BY <1>1, <1>7, <3>2, <3>6, <4>2
      <4> QED
        BY <1>3, <3>1, <3>2, <4>3 DEF Accounted
    <3> QED
      BY <3>2, <3>3, <3>4, <3>5, <3>6 DEF Accounted
  <2> QED
    BY <2>1, <2>2
<1>14. calls'[L + 1].duplicate => \E i \in 1 .. L : Repeats(i, L + 1)'
  <2> SUFFICES ASSUME calls'[L + 1].duplicate PROVE \E i \in 1 .. L : Repeats(i, L + 1)'
    OBVIOUS
  <2>1. sig \in DOMAIN kept /\ now - kept[sig] < DedupeWindow
    BY <1>2, <1>5
  <2>2. sig \in DOMAIN recent /\ kept[sig] = recent[sig]
    BY <1>6, <2>1
  <2>3. PICK i \in 1 .. L : calls[i].sig = sig /\ calls[i].at = recent[sig]
    BY <2>2 DEF DeduperInv, EntriesFromCalls
  <2>4. i < L + 1 /\ calls'[i] = calls[i]
    BY <1>4, <1>5
  <2> QED
    BY <1>2, <1>5, <2>1, <2>2, <2>3, <2>4 DEF Repeats
<1>15. ASSUME ~calls'[L + 1].duplicate, NEW i \in 1 .. L, Repeats(i, L + 1)'
       PROVE  \E m \in i + 1 .. L + 1 : Flooded(m)'
  <2>1. /\ calls[i].sig = sig /\ now - calls[i].at < DedupeWindow
        /\ calls[i].at \in Nat /\ Accounted(i)
    BY <1>2, <1>4, <1>5, <1>15 DEF Repeats, DeduperInv
  <2>2. ~(sig \in DOMAIN kept /\ now - kept[sig] < DedupeWindow)
    BY <1>2, <1>5, <1>15
  <2>3. CASE flood
    <3>1. L + 1 \in i + 1 .. L + 1
      BY <1>4
    <3> QED
      BY <1>11, <2>3, <3>1
  <2>4. CASE \E m \in i + 1 .. L : Flooded(m)
    <3>1. PICK m \in i + 1 .. L : Flooded(m)
      BY <2>4
    <3>2. m \in 1 .. L /\ m \in i + 1 .. L + 1
      BY <1>4
    <3> QED
      BY <1>10, <3>1, <3>2
  <2>5. CASE ~flood /\ sig \in DOMAIN recent /\ recent[sig] >= calls[i].at
    <3>1. recent[sig] \in Nat
      BY <1>1, <2>5
    <3>2. sig \in DOMAIN kept
      BY <1>1, <1>6, <2>1, <2>5, <3>1
    <3>3. now - kept[sig] < DedupeWindow
      BY <1>1, <1>6, <2>1, <2>5, <3>1, <3>2
    <3> QED
      BY <2>2, <3>2, <3>3
  <2>6. ~(calls[i].at < now - DedupeWindow)
    BY <1>1, <2>1
  <2> QED
    BY <2>1, <2>3, <2>4, <2>5, <2>6 DEF Accounted
<1>16. DeduperInv'
  BY <1>5, <1>8, <1>9, <1>12, <1>13 DEF DeduperInv
<1> QED
  BY <1>5, <1>8, <1>10, <1>14, <1>15, <1>16

-----------------------------------------------------------------------------
\* All that is shown of the deduplication, as one invariant.
DeduperFacts == DeduperInv /\ RecentBounded /\ SuppressedWasSeen /\ SlipsThroughOnlyUnderFlood

LEMMA DeduperInitFacts == DeduperInit => DeduperFacts
<1> SUFFICES ASSUME DeduperInit PROVE DeduperFacts
  OBVIOUS
<1>1. DOMAIN calls = {}
  BY EmptySeq, LenProperties DEF DeduperInit
<1> QED
  BY <1>1, DeduperInitInv DEF DeduperFacts, SuppressedWasSeen, SlipsThroughOnlyUnderFlood

LEMMA CallKeepsFacts ==
  ASSUME DeduperFacts, NEW sig \in Signatures, IsDuplicate(sig)
  PROVE  DeduperFacts'
<1>1. PICK L \in Nat : L = Len(calls) /\ DOMAIN calls = 1 .. L
  BY LenProperties DEF DeduperFacts, DeduperInv, DeduperTypeOK
<1>2. /\ DeduperInv' /\ RecentBounded'
      /\ calls' \in Seq(Calls) /\ Len(calls') = L + 1
      /\ \A i \in 1 .. L : calls'[i] = calls[i]
      /\ \A m \in 1 .. L : Flooded(m)' = Flooded(m)
      /\ calls'[L + 1].duplicate => \E i \in 1 .. L : Repeats(i, L + 1)'
      /\ ~calls'[L + 1].duplicate =>
           \A i \in 1 .. L :
              Repeats(i, L + 1)' => \E m \in i + 1 .. L + 1 : Flooded(m)'
  BY <1>1, CallFacts DEF DeduperFacts
<1>3. DOMAIN calls' = 1 .. L + 1
  BY <1>2, LenProperties
<1>4. \A i, j \in 1 .. L : Repeats(i, j)' = Repeats(i, j)
  BY <1>2 DEF Repeats
<1>5. SuppressedWasSeen'
  <2> SUFFICES ASSUME NEW j \in 1 .. L + 1, calls'[j].duplicate
               PROVE  \E i \in 1 .. L + 1 : Repeats(i, j)'
    BY <1>3 DEF SuppressedWasSeen
  <2>1. CASE j = L + 1
    BY <1>1, <1>2, <2>1
  <2>2. CASE j # L + 1
    <3>1. j \in 1 .. L /\ calls[j].duplicate
      BY <1>1, <1>2, <2>2
    <3>2. PICK i \in 1 .. L : Repeats(i, j)
      BY <1>1, <3>1 DEF DeduperFacts, SuppressedWasSeen
    <3> QED
      BY <1>1, <1>4, <3>1, <3>2
  <2> QED
    BY <2>1, <2>2
<1>6. SlipsThroughOnlyUnderFlood'
  <2> SUFFICES ASSUME NEW i \in 1 .. L + 1, NEW j \in 1 .. L + 1,
                      Repeats(i, j)', ~calls'[j].duplicate
               PROVE  \E m \in i + 1 .. j : Flooded(m)'
    BY <1>3 DEF SlipsThroughOnlyUnderFlood, Flooded
  <2>1. i \in 1 .. L /\ i < j
    BY <1>1 DEF Repeats
  <2>2. CASE j = L + 1
    BY <1>2, <2>1, <2>2
  <2>3. CASE j # L + 1
    <3>1. j \in 1 .. L /\ ~calls[j].duplicate /\ Repeats(i, j)
      BY <1>1, <1>2, <1>4, <2>1, <2>3
    <3>2. PICK m \in i + 1 .. j : Flooded(m)
      BY <1>1, <2>1, <3>1 DEF DeduperFacts, SlipsThroughOnlyUnderFlood, Flooded
    <3>3. m \in 1 .. L
      BY <1>1, <2>1, <3>1
    <3> QED
      BY <1>2, <3>2, <3>3
  <2> QED
    BY <2>2, <2>3
<1> QED
  BY <1>2, <1>5, <1>6 DEF DeduperFacts

LEMMA DeduperStep == DeduperFacts /\ [DeduperNext]_deduperVars => DeduperFacts'
<1> SUFFICES ASSUME DeduperFacts, [DeduperNext]_deduperVars PROVE DeduperFacts'
  OBVIOUS
<1>1. ASSUME NEW sig \in Signatures, IsDuplicate(sig) PROVE DeduperFacts'
  BY <1>1, CallKeepsFacts
<1>2. ASSUME UNCHANGED <<recent, calls>>
      PROVE  (RecentBounded /\ SuppressedWasSeen /\ SlipsThroughOnlyUnderFlood)'
  <2>1. RecentBounded'
    BY <1>2 DEF DeduperFacts, RecentBounded
  <2>2. \A i, j : Repeats(i, j)' = Repeats(i, j)
    BY <1>2 DEF Repeats
  <2>3. \A m : SeenInWindow(m)' = SeenInWindow(m)
    BY <1>2 DEF SeenInWindow
  <2>4. SuppressedWasSeen'
    BY <1>2, <2>2 DEF DeduperFacts, SuppressedWasSeen
  <2>5. SlipsThroughOnlyUnderFlood'
    BY <1>2, <2>2, <2>3 DEF DeduperFacts, SlipsThroughOnlyUnderFlood
  <2> QED
    BY <2>1, <2>4, <2>5
<1>3. CASE DeduperTick
  BY <1>2, <1>3, DeduperTickInv DEF DeduperFacts, DeduperTick
<1>4. CASE UNCHANGED deduperVars
  <2>1. recent' = recent /\ now' = now /\ calls' = calls
    BY <1>4 DEF deduperVars
  <2>2. DeduperTypeOK' /\ EntriesFromCalls'
    BY <2>1 DEF DeduperFacts, DeduperInv, DeduperTypeOK, EntriesFromCalls
  <2>3. \A m : Flooded(m)' = Flooded(m)
    BY <2>1 DEF Flooded, SeenInWindow
  <2>4. \A i : Accounted(i)' = Accounted(i)
    BY <2>1, <2>3 DEF Accounted
  <2> QED
    BY <1>2, <2>1, <2>2, <2>4 DEF DeduperFacts, DeduperInv
<1> QED
  BY <1>1, <1>3, <1>4 DEF DeduperNext

LEMMA DeduperCorrect == DeduperSpec => []DeduperFacts
BY DeduperInitFacts, DeduperStep, PTL DEF DeduperSpec

\* The variables keep the shapes DeduperTypeOK gives them.
THEOREM DeduperTypes == DeduperSpec => []DeduperTypeOK
<1>1. DeduperFacts => DeduperTypeOK
  BY DEF DeduperFacts, DeduperInv
<1> QED
  BY <1>1, DeduperCorrect, PTL

\* _recent never holds more than MAX_TRACKED_KEYS + 1 signatures.
THEOREM DeduperMemoryBounded == DeduperSpec => []RecentBounded
<1>1. DeduperFacts => RecentBounded
  BY DEF DeduperFacts
<1> QED
  BY <1>1, DeduperCorrect, PTL

\* _is_duplicate never suppresses an event that was not seen in the window.
THEOREM NoFalseSuppression == DeduperSpec => []SuppressedWasSeen
<1>1. DeduperFacts => SuppressedWasSeen
  BY DEF DeduperFacts
<1> QED
  BY <1>1, DeduperCorrect, PTL

\* A repetition within the window gets past _is_duplicate only after a flood.
THEOREM OnlyFloodsDefeatDedupe == DeduperSpec => []SlipsThroughOnlyUnderFlood
<1>1. DeduperFacts => SlipsThroughOnlyUnderFlood
  BY DEF DeduperFacts
<1> QED
  BY <1>1, DeduperCorrect, PTL

-----------------------------------------------------------------------------
\* The phone of Delivery is a FlutterClient.  The constants of the instance are
\* the ones DeliveryAssumption gives their types, as FlutterAssumption asks.
PhoneFacts == INSTANCE FlutterClient_proofs 
                 WITH recent <- phoneRecent, DedupeWindow <- PhoneWindow, ClockSteps <- {1}

LEMMA PhoneConstants ==
  /\ BatchSize \in Nat \ {0} /\ Enabled \in BOOLEAN
  /\ {MaxQueue, PhoneWindow, PruneAbove, MaxNow, MaxEvents} \subseteq Nat
  /\ {1} \subseteq Int
BY DeliveryAssumption, DeduperAssumption

\* The clock of the phone is the gateway's.
ClockInv == now \in Nat

LEMMA DeliveryClock == DeliverySpec => []ClockInv
<1>1. DeliveryInit => ClockInv
  BY DEF DeliveryInit, DeduperInit, ClockInv
<1>2. ClockInv /\ [DeliveryNext]_deliveryVars => ClockInv'
  <2> SUFFICES ASSUME now \in Nat, [DeliveryNext]_deliveryVars PROVE now' \in Nat
    BY DEF ClockInv
  <2>1. now' = now \/ now' = now + 1
    BY DEF DeliveryNext, PhoneActs, TokenRead, AnswerArrives, RequestFails, TimesOut,
       Phone!Start, Phone!Dispose, Phone!Tick, Phone!Enqueue, Phone!TokenResolved,
       Phone!ChunkDone, Phone!ChunkFailed, LateRequestLost, Handles, OtherSends, IsDuplicate,
       GatewayRestarts, TimePasses, DeduperTick, deliveryVars, deduperVars
  <2> QED
    BY <2>1
<1> QED
  BY <1>1, <1>2, PTL DEF DeliverySpec

LEMMA PhoneSteps == ClockInv /\ [DeliveryNext]_deliveryVars => [Phone!Next]_Phone!vars
<1> SUFFICES ASSUME now \in Nat, [DeliveryNext]_deliveryVars
             PROVE  Phone!Next \/ UNCHANGED Phone!vars
  BY DEF ClockInv
<1>1. CASE PhoneActs
  <2>1. Phone!Start \/ Phone!Dispose \/ Phone!Tick \/ \E sig \in Sigs : Phone!Enqueue(sig)
    BY <1>1 DEF PhoneActs
  <2> QED
    BY <2>1 DEF Phone!Next
<1>2. CASE TokenRead
  BY <1>2 DEF TokenRead, Phone!Next
<1>3. CASE AnswerArrives
  <2>1. Phone!ChunkDone("sent") \/ Phone!ChunkDone("dropped")
    BY <1>3 DEF AnswerArrives
  <2> QED
    BY <2>1 DEF Phone!Next, Phone!ChunkAnswered
<1>4. CASE RequestFails \/ TimesOut
  BY <1>4 DEF RequestFails, TimesOut, Phone!Next
<1>5. CASE TimePasses
  <2>1. now' \in {now + d : d \in {1}} \cap (0 .. MaxNow)
    BY <1>5, DeduperAssumption DEF TimePasses, DeduperTick
  <2>2. Phone!ClockMoves
    BY <1>5, <2>1 DEF TimePasses, phoneVars, Phone!ClockMoves
  <2> QED
    BY <2>2 DEF Phone!Next
<1>6. CASE \/ \E i \in DOMAIN late : LateRequestLost(i)
           \/ \E i \in DOMAIN UnderWay : Handles(i)
           \/ \E sig \in Others : OtherSends(sig)
           \/ GatewayRestarts
           \/ UNCHANGED deliveryVars
  <2>1. UNCHANGED <<phoneVars, now>>
    BY <1>6 DEF LateRequestLost, Handles, OtherSends, GatewayRestarts, IsDuplicate,
       deliveryVars, deduperVars
  <2> QED
    BY <2>1 DEF phoneVars, Phone!vars
<1> QED
  BY <1>1, <1>2, <1>3, <1>4, <1>5, <1>6 DEF DeliveryNext

\* The same module once more: what the proofs about FlutterClient call its steps.
LEMMA SamePhone ==
  /\ Phone!Init <=> PhoneFacts!Init
  /\ [Phone!Next]_Phone!vars <=> [PhoneFacts!Next]_PhoneFacts!vars
<1>1. Phone!Init <=> PhoneFacts!Init
  BY DEF Phone!Init, PhoneFacts!Init, Phone!Idle, PhoneFacts!Idle
<1>2. Phone!vars = PhoneFacts!vars /\ Phone!vars' = PhoneFacts!vars'
  BY DEF Phone!vars, PhoneFacts!vars
<1>3. \A s : /\ Phone!Trim(s) = PhoneFacts!Trim(s)
             /\ Phone!QueueTrimmed(s) <=> PhoneFacts!QueueTrimmed(s)
  <2>1. \A s : Phone!Trim(s) = PhoneFacts!Trim(s)
    BY DEF Phone!Trim, PhoneFacts!Trim, Phone!Larger, PhoneFacts!Larger
  <2>2. \A s : Phone!Range(s) = PhoneFacts!Range(s)
    BY DEF Phone!Range, PhoneFacts!Range
  <2>3. \A ids, f : Phone!WithFate(ids, f) = PhoneFacts!WithFate(ids, f)
    BY DEF Phone!WithFate, PhoneFacts!WithFate
  <2> QED
    BY <2>1, <2>2, <2>3 DEF Phone!QueueTrimmed, PhoneFacts!QueueTrimmed
<1>4. \A q : Phone!Flush(q) <=> PhoneFacts!Flush(q)
  BY DEF Phone!Flush, PhoneFacts!Flush
<1>5. Phone!NextChunk <=> PhoneFacts!NextChunk
  BY DEF Phone!NextChunk, PhoneFacts!NextChunk, Phone!Smaller, PhoneFacts!Smaller,
     Phone!Idle, PhoneFacts!Idle
<1>6. \A sig : Phone!Remember(sig) = PhoneFacts!Remember(sig)
  <2>1. \A S : Phone!Cardinality(S) = PhoneFacts!Cardinality(S)
    BY DEF Phone!Cardinality, PhoneFacts!Cardinality
  <2> QED
    BY <2>1 DEF Phone!Remember, PhoneFacts!Remember, Phone!Restrict, PhoneFacts!Restrict
<1>7. \A sig : Phone!Enqueue(sig) <=> PhoneFacts!Enqueue(sig)
  BY <1>3, <1>4, <1>6 DEF Phone!Enqueue, PhoneFacts!Enqueue, Phone!Suppressed, PhoneFacts!Suppressed
<1>8. /\ Phone!Start <=> PhoneFacts!Start
      /\ Phone!Dispose <=> PhoneFacts!Dispose
      /\ Phone!ClockMoves <=> PhoneFacts!ClockMoves
  BY DEF Phone!Start, PhoneFacts!Start, Phone!Dispose, PhoneFacts!Dispose,
     Phone!ClockMoves, PhoneFacts!ClockMoves
<1>9. (Phone!FlushCall <=> PhoneFacts!FlushCall) /\ (Phone!Tick <=> PhoneFacts!Tick)
  BY <1>4 DEF Phone!FlushCall, PhoneFacts!FlushCall, Phone!Tick, PhoneFacts!Tick
<1>10. (Phone!TokenResolved <=> PhoneFacts!TokenResolved) /\ (Phone!ChunkFailed <=> PhoneFacts!ChunkFailed)
  BY <1>3, <1>5 DEF Phone!TokenResolved, PhoneFacts!TokenResolved, Phone!ChunkFailed,
     PhoneFacts!ChunkFailed, Phone!Idle, PhoneFacts!Idle
<1>11. Phone!ChunkAnswered <=> PhoneFacts!ChunkAnswered
  BY <1>5 DEF Phone!ChunkAnswered, PhoneFacts!ChunkAnswered, Phone!ChunkDone, PhoneFacts!ChunkDone,
     Phone!WithFate, PhoneFacts!WithFate, Phone!Range, PhoneFacts!Range
<1>12. Phone!Next <=> PhoneFacts!Next
  BY <1>7, <1>8, <1>9, <1>10, <1>11 DEF Phone!Next, PhoneFacts!Next
<1> QED
  BY <1>1, <1>2, <1>12

\* Whatever the network and the gateway do, the phone behaves as the
\* FlutterClient that is specified, checked and proved about on its own.
THEOREM DeliveryDrivesPhone == DeliverySpec => Phone!Spec
<1>1. DeliveryInit => Phone!Init
  BY DEF DeliveryInit
<1> QED
  BY <1>1, DeliveryClock, PhoneSteps, PTL DEF DeliverySpec, Phone!Spec

Sorted(s) == \A i, j \in DOMAIN s : i < j => s[i] < s[j]

\* Where the phone's events are, from the invariant of FlutterClient.
PhonePlaces ==
    /\ queue \in Seq(Nat)
    /\ drain \in [pc : {"idle", "token", "sending", "refused"}, chunk : Seq(Nat)]
    /\ drain.pc \in {"idle", "token"} => drain.chunk = <<>>
    /\ history \in Seq([sig : Sigs, at : Int])
    /\ Sorted(drain.chunk) /\ \A x \in Range(drain.chunk), y \in Range(queue) : x < y
    /\ Range(queue) \cup Range(drain.chunk) \cup DOMAIN fate = 1 .. Len(history)
    /\ (Range(queue) \cup Range(drain.chunk)) \cap DOMAIN fate = {}
    /\ \A id \in DOMAIN fate : fate[id] \in {"sent", "dropped", "evicted"}

LEMMA PhonePlacesInv == PhoneFacts!FlutterInv => PhonePlaces
<1>1. \A s : PhoneFacts!Range(s) = Range(s)
  BY DEF PhoneFacts!Range, Range
<1> QED
  BY <1>1 DEF PhoneFacts!FlutterInv, PhoneFacts!PlacesInv, PhoneFacts!DrainStates,
     PhoneFacts!Sorted, PhoneFacts!Pending, PhonePlaces, Sorted

LEMMA PhoneInDelivery == DeliverySpec => []PhonePlaces
<1>1. DeliveryInit => Phone!Init
  BY DEF DeliveryInit
<1>2. DeliverySpec => PhoneFacts!Spec
  BY <1>1, SamePhone, DeliveryClock, PhoneSteps, PTL DEF DeliverySpec, PhoneFacts!Spec
<1>3. PhoneFacts!Spec => []PhoneFacts!FlutterInv
  BY PhoneFacts!FlutterCorrect, PhoneConstants
<1> QED
  BY <1>2, <1>3, PhonePlacesInv, PTL

-----------------------------------------------------------------------------
\* The inductive invariant of Delivery.

\* The gateway has handled the event; it never need handle it.
Met(id) == \E i \in DOMAIN handled : handled[i].id = id
Gone(id) == id \in DOMAIN fate /\ fate[id] \in {"evicted", "dropped"}

\* What precedes an event of the request is in the request, met, or gone.
SoundRequest(r) ==
    /\ r \in Requests /\ Range(r.left) \subseteq 1 .. Len(history) /\ Sorted(r.left)
    /\ r.pc = "handled" => r.left = <<>>
    /\ \A x \in Range(r.left), y \in 1 .. Len(history) :
          y < x => y \in Range(r.left) \/ Met(y) \/ Gone(y)

\* What the drain holds is still to be handled in r, or was met.
Covers(r) == \A id \in Range(drain.chunk) : id \in Range(r.left) \/ Met(id)

HistoryBound == Len(history) <= MaxEvents

RequestsInv ==
    /\ mine \in Seq(Requests) /\ Len(mine) = (IF drain.pc = "sending" THEN 1 ELSE 0)
    /\ late \in Seq(Requests) /\ Len(late) <= MaxLate
    /\ HistoryBound
    /\ \A r \in Range(mine) : SoundRequest(r) /\ Covers(r)
    /\ \A r \in Range(late) : SoundRequest(r)

Entries == [id : 1 .. MaxEvents, who : Identities, at : Nat, stored : BOOLEAN,
            epoch : 0 .. MaxRestarts, call : 1 .. MaxCalls]

SentIsMet == \A id \in DOMAIN fate : fate[id] = "sent" => Met(id)

\* What precedes an event that was met was met itself, or is gone.
MeetingInv ==
    /\ handled \in Seq(Entries) /\ restarts \in 0 .. MaxRestarts
    /\ \A k \in DOMAIN handled : handled[k].id <= Len(history)
    /\ \A k \in DOMAIN handled, y \in 1 .. Len(history) : y < handled[k].id => Met(y) \/ Gone(y)
    /\ SentIsMet
    /\ MetInOrder

SigOf(k) == history[handled[k].id].sig

\* The gateway suppresses only what it has stored.
StoreInv ==
    /\ \A s \in DOMAIN recent \cap (Identities \X Sigs) : \E i \in DOMAIN handled :
          handled[i].stored /\ s = <<handled[i].who, SigOf(i)>>
    /\ \A j \in DOMAIN handled : \E i \in DOMAIN handled : handled[i].stored /\ SigOf(i) = SigOf(j)

\* The event e was handled in call c.
IsCall(e, c) ==
    c.sig = <<e.who, history[e.id].sig>> /\ c.at = e.at /\ c.duplicate = ~e.stored

\* The calls of the present process are those its events name, in order.
CallsInv ==
    /\ Len(calls) <= MaxCalls
    /\ \A k \in DOMAIN handled :
          /\ handled[k].epoch <= restarts
          /\ handled[k].epoch = restarts =>
                handled[k].call <= Len(calls) /\ IsCall(handled[k], calls[handled[k].call])
    /\ \A i, j \in DOMAIN handled :
          i < j /\ handled[i].epoch = handled[j].epoch => handled[i].call < handled[j].call

-----------------------------------------------------------------------------
\* Sequences.

LEMMA HeadFacts ==
  ASSUME NEW S \in SUBSET Nat, NEW s \in Seq(S), s # <<>>, Sorted(s)
  PROVE  /\ Head(s) \in S /\ Tail(s) \in Seq(S) /\ Sorted(Tail(s))
         /\ Range(s) = {Head(s)} \cup Range(Tail(s))
         /\ \A y \in Range(s) : Head(s) <= y
         /\ Len(s) = 1 => Tail(s) = <<>>
<1>1. /\ Len(s) \in Nat \ {0} /\ DOMAIN s = 1 .. Len(s) /\ Head(s) = s[1]
      /\ \A i \in 1 .. Len(s) : s[i] \in S
  BY LenProperties, EmptySeq, ElementOfSeq
<1>2. /\ Head(s) \in S /\ Tail(s) \in Seq(S) /\ Len(Tail(s)) = Len(s) - 1
      /\ \A i \in 1 .. Len(Tail(s)) : Tail(s)[i] = s[i + 1]
  BY HeadTailProperties
<1>3. DOMAIN Tail(s) = 1 .. Len(s) - 1
  BY <1>2, LenProperties
<1>4. PICK n \in Nat \ {0} : n = Len(s)
  BY <1>1
<1>5. /\ \A i \in 1 .. n - 1 : i + 1 \in 1 .. n /\ Tail(s)[i] = s[i + 1]
      /\ \A i \in 1 .. n : i # 1 => (i - 1 \in 1 .. n - 1 /\ s[i] = Tail(s)[i - 1])
  <2>1. \A i \in 1 .. n - 1 : i + 1 \in 1 .. n /\ Tail(s)[i] = s[i + 1]
    BY <1>2, <1>4
  <2>2. ASSUME NEW i \in 1 .. n, i # 1 PROVE i - 1 \in 1 .. n - 1 /\ s[i] = Tail(s)[i - 1]
    <3>1. PICK k \in 1 .. n - 1 : k = i - 1 /\ k + 1 = i
      BY <1>4, <2>2
    <3> QED
      BY <2>1, <3>1
  <2> QED
    BY <2>1, <2>2
<1>6. Sorted(Tail(s))
  BY <1>1, <1>3, <1>4, <1>5 DEF Sorted
<1>7. Range(s) = {Head(s)} \cup Range(Tail(s))
  <2>1. DOMAIN s = 1 .. n /\ DOMAIN Tail(s) = 1 .. n - 1
    BY <1>1, <1>3, <1>4
  <2>2. ASSUME NEW i \in 1 .. n PROVE s[i] \in {Head(s)} \cup Range(Tail(s))
    BY <1>1, <1>5, <2>1 DEF Range
  <2>3. Range(Tail(s)) \subseteq Range(s)
    BY <1>5, <2>1 DEF Range
  <2>4. Head(s) \in Range(s)
    BY <1>1, <1>4, <2>1 DEF Range
  <2>5. Range(s) \subseteq {Head(s)} \cup Range(Tail(s))
    BY <2>1, <2>2 DEF Range
  <2> QED
    BY <2>3, <2>4, <2>5
<1>8. \A y \in Range(s) : Head(s) <= y
  <2> SUFFICES ASSUME NEW i \in 1 .. n PROVE s[1] <= s[i]
    BY <1>1, <1>4 DEF Range
  <2>0. 1 \in 1 .. n /\ \A k \in 1 .. n : s[k] \in Nat
    <3>1. 1 \in 1 .. n
      BY <1>4
    <3>2. \A k \in 1 .. n : s[k] \in S
      BY <1>1, <1>4
    <3> QED
      BY <3>1, <3>2
  <2>1. s[1] \in Nat /\ s[i] \in Nat
    BY <2>0
  <2>2. CASE i = 1
    BY <2>1, <2>2
  <2>3. CASE i # 1
    <3>1. s[1] < s[i]
      BY <1>1, <1>4, <2>3 DEF Sorted
    <3> QED
      BY <2>1, <3>1
  <2> QED
    BY <2>2, <2>3
<1>9. Len(s) = 1 => Tail(s) = <<>>
  <2> SUFFICES ASSUME Len(s) = 1 PROVE Tail(s) = <<>>
    OBVIOUS
  <2>1. Tail(s) \in Seq(S) /\ Len(Tail(s)) = 0
    BY <1>2
  <2> QED
    BY <2>1, EmptySeq
<1> QED
  BY <1>2, <1>6, <1>7, <1>8, <1>9

LEMMA RemoveFacts ==
  ASSUME NEW S, NEW s \in Seq(S), NEW i \in DOMAIN s
  PROVE  /\ RemoveAt(s, i) \in Seq(S) /\ Range(RemoveAt(s, i)) \subseteq Range(s)
         /\ Len(RemoveAt(s, i)) = Len(s) - 1
<1> DEFINE a == SubSeq(s, 1, i - 1)
           b == SubSeq(s, i + 1, Len(s))
<1>1. PICK n \in Nat : n = Len(s) /\ DOMAIN s = 1 .. n /\ i \in 1 .. n
  BY LenProperties
<1>2. \A j \in 1 .. n : s[j] \in S
  BY <1>1, ElementOfSeq
<1>3. /\ a \in Seq(S) /\ Len(a) = i - 1 /\ \A j \in 1 .. i - 1 : a[j] = s[j]
  <2>1. 1 \in Int /\ i - 1 \in Int /\ \A j \in 1 .. i - 1 : s[j] \in S
    BY <1>1, <1>2
  <2>2. /\ a \in Seq(S) /\ Len(a) = IF 1 <= i - 1 THEN (i - 1) - 1 + 1 ELSE 0
        /\ \A j \in 1 .. (i - 1) - 1 + 1 : a[j] = s[1 + j - 1]
    BY <2>1, SubSeqProperties
  <2> HIDE DEF a
  <2> QED
    BY <1>1, <2>2
<1>4. /\ b \in Seq(S) /\ Len(b) = n - i /\ \A j \in 1 .. n - i : b[j] = s[i + j]
  <2>1. i + 1 \in Int /\ n \in Int /\ \A j \in i + 1 .. n : s[j] \in S
    BY <1>1, <1>2
  <2>2. /\ b \in Seq(S) /\ Len(b) = IF i + 1 <= n THEN n - (i + 1) + 1 ELSE 0
        /\ \A j \in 1 .. n - (i + 1) + 1 : b[j] = s[i + 1 + j - 1]
    BY <1>1, <2>1, SubSeqProperties
  <2> HIDE DEF b
  <2>3. Len(b) = n - i
    BY <1>1, <2>2
  <2>4. ASSUME NEW j \in 1 .. n - i PROVE b[j] = s[i + j]
    <3>1. j \in 1 .. n - (i + 1) + 1 /\ i + 1 + j - 1 = i + j
      BY <1>1
    <3>2. b[j] = s[i + 1 + j - 1]
      BY <2>2, <3>1
    <3> QED
      BY <3>1, <3>2
  <2> QED
    BY <2>2, <2>3, <2>4
<1>5. RemoveAt(s, i) = a \o b
  BY DEF RemoveAt
<1> HIDE DEF a, b
<1>6. /\ a \o b \in Seq(S) /\ Len(a \o b) = Len(a) + Len(b)
      /\ \A j \in 1 .. Len(a) + Len(b) : (a \o b)[j] = IF j <= Len(a) THEN a[j] ELSE b[j - Len(a)]
  BY <1>3, <1>4, ConcatProperties
<1>7. Len(a \o b) = n - 1
  <2>1. Len(a \o b) = (i - 1) + (n - i)
    BY <1>3, <1>4, <1>6
  <2> QED
    BY <1>1, <2>1
<1>8. DOMAIN (a \o b) = 1 .. n - 1
  BY <1>6, <1>7, LenProperties
<1>9. ASSUME NEW j \in 1 .. n - 1
      PROVE  (a \o b)[j] \in Range(s)
  <2>1. CASE j <= i - 1
    <3>0. j \in 1 .. Len(a) + Len(b)
      BY <1>6, <1>7
    <3>1. (a \o b)[j] = a[j] /\ j \in 1 .. i - 1 /\ j \in 1 .. n
      BY <1>1, <1>3, <1>6, <2>1, <3>0
    <3> QED
      BY <1>1, <1>3, <3>1 DEF Range
  <2>2. CASE ~(j <= i - 1)
    <3>1. j - (i - 1) \in 1 .. n - i /\ j + 1 \in 1 .. n /\ i + (j - (i - 1)) = j + 1
      BY <1>1, <2>2
    <3>2. (a \o b)[j] = b[j - (i - 1)]
      BY <1>1, <1>3, <1>4, <1>6, <2>2
    <3>3. (a \o b)[j] = s[j + 1]
      BY <1>4, <3>1, <3>2
    <3> QED
      BY <1>1, <3>1, <3>3 DEF Range
  <2> QED
    BY <2>1, <2>2
<1>10. Range(a \o b) \subseteq Range(s)
  BY <1>8, <1>9 DEF Range
<1> QED
  BY <1>1, <1>5, <1>6, <1>7, <1>10

LEMMA ReplaceFacts ==
  ASSUME NEW S, NEW s \in Seq(S), NEW i \in DOMAIN s, NEW e \in S
  PROVE  LET t == [s EXCEPT ![i] = e] IN
         t \in Seq(S) /\ Len(t) = Len(s) /\ Range(t) \subseteq Range(s) \cup {e}
<1> DEFINE t == [s EXCEPT ![i] = e]
<1>1. DOMAIN s = 1 .. Len(s)
  BY LenProperties
<1>2. /\ t \in Seq(S) /\ Len(t) = Len(s)
      /\ \A j \in 1 .. Len(s) : t[j] = IF j = i THEN e ELSE s[j]
  BY <1>1, ExceptSeq
<1> HIDE DEF t
<1>3. DOMAIN t = 1 .. Len(s)
  BY <1>2, LenProperties
<1>4. Range(t) \subseteq Range(s) \cup {e}
  BY <1>1, <1>2, <1>3 DEF Range
<1> QED
  BY <1>2, <1>4 DEF t

LEMMA SingletonFacts ==
  ASSUME NEW S, NEW e \in S
  PROVE  <<e>> \in Seq(S) /\ Len(<<e>>) = 1 /\ Range(<<e>>) = {e} /\ <<e>>[1] = e
BY DEF Range

LEMMA ConcatRange ==
  ASSUME NEW S, NEW s \in Seq(S), NEW t \in Seq(S)
  PROVE  /\ s \o t \in Seq(S) /\ Len(s \o t) = Len(s) + Len(t)
         /\ \A i \in DOMAIN (s \o t) :
               \/ i <= Len(s) /\ i \in DOMAIN s /\ (s \o t)[i] = s[i]
               \/ ~(i <= Len(s)) /\ i - Len(s) \in DOMAIN t /\ (s \o t)[i] = t[i - Len(s)]
         /\ Range(s \o t) \subseteq Range(s) \cup Range(t)
<1>1. PICK a \in Nat, b \in Nat : a = Len(s) /\ b = Len(t) /\ DOMAIN s = 1 .. a /\ DOMAIN t = 1 .. b
  BY LenProperties
<1>2. /\ s \o t \in Seq(S) /\ Len(s \o t) = a + b
      /\ \A i \in 1 .. a + b : (s \o t)[i] = IF i <= a THEN s[i] ELSE t[i - a]
  BY <1>1, ConcatProperties
<1>3. DOMAIN (s \o t) = 1 .. a + b
  BY <1>2, LenProperties
<1>4. \A i \in 1 .. a + b : \/ i <= a /\ i \in 1 .. a
                            \/ ~(i <= a) /\ i - a \in 1 .. b
  BY <1>1
<1>5. \A i \in DOMAIN (s \o t) :
         \/ i <= Len(s) /\ i \in DOMAIN s /\ (s \o t)[i] = s[i]
         \/ ~(i <= Len(s)) /\ i - Len(s) \in DOMAIN t /\ (s \o t)[i] = t[i - Len(s)]
  BY <1>1, <1>2, <1>3, <1>4
<1>6. Range(s \o t) \subseteq Range(s) \cup Range(t)
  BY <1>5 DEF Range
<1> QED
  BY <1>1, <1>2, <1>5, <1>6

LEMMA AppendFacts ==
  ASSUME NEW S, NEW s \in Seq(S), NEW e \in S
  PROVE  LET t == Append(s, e) IN
         /\ t \in Seq(S) /\ Len(s) \in Nat /\ Len(t) = Len(s) + 1
         /\ DOMAIN s = 1 .. Len(s) /\ DOMAIN t = 1 .. Len(s) + 1
         /\ \A k \in 1 .. Len(s) : t[k] = s[k]
         /\ t[Len(s) + 1] = e
<1> DEFINE t == Append(s, e)
<1>1. PICK n \in Nat : n = Len(s) /\ DOMAIN s = 1 .. n
  BY LenProperties
<1>2. /\ t \in Seq(S) /\ Len(t) = n + 1
      /\ \A k \in 1 .. n : t[k] = s[k]
      /\ t[n + 1] = e
  BY <1>1, AppendProperties
<1> HIDE DEF t
<1>3. DOMAIN t = 1 .. n + 1
  BY <1>2, LenProperties
<1> QED
  BY <1>1, <1>2, <1>3 DEF t

-----------------------------------------------------------------------------
\* What a step may change of the phone's events: it only adds to them.

DeliveryInv ==
    /\ DeduperFacts /\ PhonePlaces
    /\ RequestsInv /\ MeetingInv /\ StoreInv /\ CallsInv

HistoryGrows ==
    /\ Len(history) <= Len(history')
    /\ \A k \in 1 .. Len(history) : history'[k] = history[k]

FateGrows ==
    /\ DOMAIN fate \subseteq DOMAIN fate'
    /\ \A id \in DOMAIN fate : fate'[id] = fate[id]

HandledGrows ==
    /\ DOMAIN handled \subseteq DOMAIN handled'
    /\ \A k \in DOMAIN handled : handled'[k] = handled[k]

\* An event becomes "sent" with the chunk of a request that was handled.
OnlyHandledSent ==
    \A id \in DOMAIN fate' : fate'[id] = "sent" =>
        \/ id \in DOMAIN fate /\ fate[id] = "sent"
        \/ id \in Range(drain.chunk) /\ mine # <<>> /\ mine[1].pc = "handled"

LEMMA WithFateFacts ==
  ASSUME NEW ids, NEW f, fate' = Phone!WithFate(ids, f)
  PROVE  /\ FateGrows
         /\ \A id \in DOMAIN fate' : fate'[id] = "sent" =>
               \/ id \in DOMAIN fate /\ fate[id] = "sent"
               \/ id \in ids /\ f = "sent"
BY DEF Phone!WithFate, FateGrows

LEMMA TrimmedFate ==
  ASSUME NEW s, Phone!QueueTrimmed(s)
  PROVE  FateGrows /\ OnlyHandledSent
<1>1. PICK ids : fate' = Phone!WithFate(ids, "evicted")
  BY DEF Phone!QueueTrimmed
<1>2. "evicted" # "sent"
  OBVIOUS
<1> QED
  BY <1>1, <1>2, WithFateFacts DEF OnlyHandledSent

\* The steps of the phone.
PhoneMoves == PhoneActs \/ TokenRead \/ AnswerArrives \/ RequestFails \/ TimesOut

LEMMA PhoneMovesFate ==
  ASSUME PhoneMoves
  PROVE  FateGrows /\ OnlyHandledSent /\ UNCHANGED <<calls, recent, handled, restarts>>
<1>1. ASSUME fate' = fate PROVE FateGrows /\ OnlyHandledSent
  BY <1>1 DEF FateGrows, OnlyHandledSent
<1>2. CASE PhoneActs
  <2>1. CASE Phone!Start \/ Phone!Dispose \/ Phone!Tick
    BY <1>1, <1>2, <2>1 DEF PhoneActs, Phone!Start, Phone!Dispose, Phone!Tick, deduperVars
  <2>2. ASSUME NEW sig \in Sigs, Phone!Enqueue(sig) PROVE FateGrows /\ OnlyHandledSent
    <3>1. Phone!QueueTrimmed(Append(queue, Len(history) + 1))
      BY <2>2 DEF Phone!Enqueue
    <3> QED
      BY <3>1, TrimmedFate
  <2> QED
    BY <1>2, <2>1, <2>2 DEF PhoneActs, deduperVars
<1>3. CASE TokenRead
  BY <1>1, <1>3 DEF TokenRead, Phone!TokenResolved
<1>4. CASE AnswerArrives
  <2>1. PICK f \in {"sent", "dropped"} :
           /\ f = "sent" => mine # <<>> /\ mine[1].pc = "handled"
           /\ fate' = Phone!WithFate(Phone!Range(drain.chunk), f)
    BY <1>4 DEF AnswerArrives, Phone!ChunkDone
  <2>2. Phone!Range(drain.chunk) = Range(drain.chunk)
    BY DEF Phone!Range, Range
  <2>3. /\ FateGrows
        /\ \A id \in DOMAIN fate' : fate'[id] = "sent" =>
              \/ id \in DOMAIN fate /\ fate[id] = "sent"
              \/ id \in Range(drain.chunk) /\ f = "sent"
    BY <2>1, <2>2, WithFateFacts
  <2>4. OnlyHandledSent
    BY <2>1, <2>3 DEF OnlyHandledSent
  <2> QED
    BY <1>4, <2>3, <2>4 DEF AnswerArrives
<1>5. CASE RequestFails \/ TimesOut
  <2>1. Phone!QueueTrimmed(drain.chunk \o queue)
    BY <1>5 DEF RequestFails, TimesOut, Phone!ChunkFailed
  <2> QED
    BY <1>5, <2>1, TrimmedFate DEF RequestFails, TimesOut
<1> QED
  BY <1>2, <1>3, <1>4, <1>5 DEF PhoneMoves

LEMMA PhoneMovesHistory ==
  ASSUME DeduperFacts, PhonePlaces, HistoryBound, PhoneMoves
  PROVE  HistoryGrows /\ HistoryBound'
<1>1. history \in Seq([sig : Sigs, at : Int]) /\ now \in Nat /\ Len(history) \in Nat
  BY LenProperties DEF PhonePlaces, DeduperFacts, DeduperInv, DeduperTypeOK
<1>2. ASSUME history' = history PROVE HistoryGrows /\ HistoryBound'
  BY <1>1, <1>2 DEF HistoryGrows, HistoryBound
<1>3. ASSUME NEW sig \in Sigs, Phone!Enqueue(sig) PROVE HistoryGrows /\ HistoryBound'
  <2>1. PICK e \in [sig : Sigs, at : Int] : history' = Append(history, e)
    BY <1>1, <1>3 DEF Phone!Enqueue
  <2>2. Len(history') = Len(history) + 1 /\ \A k \in 1 .. Len(history) : history'[k] = history[k]
    BY <1>1, <2>1, AppendFacts
  <2>3. Len(history) < MaxEvents /\ MaxEvents \in Nat
    BY <1>3, DeliveryAssumption DEF Phone!Enqueue
  <2> QED
    BY <1>1, <2>2, <2>3 DEF HistoryGrows, HistoryBound
<1>4. history' = history \/ \E sig \in Sigs : Phone!Enqueue(sig)
  BY DEF PhoneMoves, PhoneActs, TokenRead, AnswerArrives, RequestFails, TimesOut, Phone!Start,
     Phone!Dispose, Phone!Tick, Phone!TokenResolved, Phone!ChunkDone, Phone!ChunkFailed
<1> QED
  BY <1>2, <1>3, <1>4

\* A sound request stays sound: what precedes its events stays met, or gone.
LEMMA SoundStays ==
  ASSUME HistoryGrows, FateGrows, HandledGrows, PhonePlaces, PhonePlaces',
         NEW r, SoundRequest(r)
  PROVE  SoundRequest(r)'
<1>1. Len(history) \in Nat /\ Len(history') \in Nat /\ Len(history) <= Len(history')
  BY LenProperties DEF PhonePlaces, HistoryGrows
<1>2. \A y : Met(y) => Met(y)'
  BY DEF HandledGrows, Met
<1>3. \A y : Gone(y) => Gone(y)'
  BY DEF FateGrows, Gone
<1>4. ASSUME NEW x \in Range(r.left), NEW y \in 1 .. Len(history'), y < x
      PROVE  y \in Range(r.left) \/ Met(y)' \/ Gone(y)'
  <2>1. x \in 1 .. Len(history)
    BY DEF SoundRequest
  <2>2. y \in 1 .. Len(history)
    BY <1>1, <1>4, <2>1
  <2>3. y \in Range(r.left) \/ Met(y) \/ Gone(y)
    BY <1>4, <2>2 DEF SoundRequest
  <2> QED
    BY <1>2, <1>3, <2>3
<1>5. Range(r.left) \subseteq 1 .. Len(history')
  BY <1>1 DEF SoundRequest
<1> QED
  BY <1>4, <1>5 DEF SoundRequest

\* A request just posted is sound: what precedes the chunk was sent and met, or
\* is gone; nothing older waits in the queue.
FreshSound ==
    drain.pc = "sending" => \A who \in Identities :
        SoundRequest(Request(who, drain.chunk)) /\ Covers(Request(who, drain.chunk))

LEMMA FreshIsSound == PhonePlaces /\ SentIsMet /\ HistoryBound => FreshSound
<1> SUFFICES ASSUME PhonePlaces, SentIsMet, HistoryBound, NEW who \in Identities
             PROVE  /\ SoundRequest(Request(who, drain.chunk))
                    /\ Covers(Request(who, drain.chunk))
  BY DEF FreshSound
<1>1. PICK c : c = drain.chunk
  OBVIOUS
<1>2. PICK r : r = Request(who, c) /\ r.who = who /\ r.left = c /\ r.pc = "travelling"
  <2>1. LET q == Request(who, c) IN q.who = who /\ q.left = c /\ q.pc = "travelling"
    BY DEF Request
  <2> QED
    BY <2>1
<1>3. PICK n \in Nat : n = Len(history) /\ n <= MaxEvents /\ MaxEvents \in Nat
  BY LenProperties, DeliveryAssumption DEF PhonePlaces, HistoryBound
<1>4. c \in Seq(Nat) /\ Sorted(c) /\ Range(c) \subseteq 1 .. n
  BY <1>1, <1>3 DEF PhonePlaces
<1>5. c \in Seq(1 .. MaxEvents)
  <2>1. /\ DOMAIN c = 1 .. Len(c) /\ Len(c) \in Nat
    BY <1>4, LenProperties
  <2>2. \A k \in 1 .. Len(c) : c[k] \in 1 .. MaxEvents
    BY <1>3, <1>4, <2>1 DEF Range
  <2>3. c \in [1 .. Len(c) -> 1 .. MaxEvents]
    BY <1>4, <2>1, <2>2, LenProperties
  <2> QED
    BY <2>1, <2>3, SeqDef
<1>6. r \in Requests
  BY <1>2, <1>5 DEF Requests, Request
<1>7. ASSUME NEW x \in Range(c), NEW y \in 1 .. n, y < x
      PROVE  y \in Range(c) \/ Met(y) \/ Gone(y)
  <2>1. x \in 1 .. n
    BY <1>4
  <2>2. y \notin Range(queue)
    <3> SUFFICES ASSUME y \in Range(queue) PROVE FALSE
      OBVIOUS
    <3>1. x < y
      BY <1>1, <1>7 DEF PhonePlaces
    <3> QED
      BY <1>7, <2>1, <3>1
  <2>3. y \in Range(c) \/ y \in DOMAIN fate
    BY <1>1, <1>3, <2>2 DEF PhonePlaces
  <2>4. y \in DOMAIN fate => fate[y] \in {"sent", "dropped", "evicted"}
    BY DEF PhonePlaces
  <2> QED
    BY <2>3, <2>4 DEF SentIsMet, Gone
<1>8. SoundRequest(r)
  BY <1>2, <1>3, <1>4, <1>6, <1>7 DEF SoundRequest
<1>9. Covers(r)
  BY <1>1, <1>2 DEF Covers
<1> QED
  BY <1>1, <1>2, <1>8, <1>9

LEMMA FreshAfter == PhonePlaces' /\ SentIsMet' /\ HistoryBound' => FreshSound'
BY FreshIsSound, PTL

\* Handling an event: the gateway asks _is_duplicate, and notes the answer c as e.
HandlesEvent(r, e, c) ==
    /\ SoundRequest(r) /\ r.left # <<>>
    /\ r.pc \in {"travelling", "handling"}
    /\ e.id = Head(r.left) /\ e.who = r.who /\ e.epoch = restarts /\ e.call = Len(calls) + 1
    /\ e.id \in 1 .. Len(history)
    /\ IsCall(e, c)
    /\ c.sig \in Signatures /\ c.sig = <<r.who, history[e.id].sig>> /\ IsDuplicate(c.sig)
    /\ c.duplicate => c.sig \in DOMAIN recent
    /\ Len(calls) < MaxCalls
    /\ handled' = Append(handled, e) /\ calls' = Append(calls, c)
    /\ UNCHANGED <<phoneVars, restarts>>

LEMMA SoundUnderWay ==
  ASSUME RequestsInv, NEW i \in DOMAIN UnderWay
  PROVE  /\ UnderWay[i] \in Requests /\ SoundRequest(UnderWay[i])
         /\ \/ i <= Len(mine) /\ i \in DOMAIN mine /\ UnderWay[i] = mine[i]
            \/ ~(i <= Len(mine)) /\ i - Len(mine) \in DOMAIN late /\ UnderWay[i] = late[i - Len(mine)]
<1>1. mine \in Seq(Requests) /\ late \in Seq(Requests)
  BY DEF RequestsInv
<1>2. \/ i <= Len(mine) /\ i \in DOMAIN mine /\ UnderWay[i] = mine[i]
      \/ ~(i <= Len(mine)) /\ i - Len(mine) \in DOMAIN late /\ UnderWay[i] = late[i - Len(mine)]
  BY <1>1, ConcatRange DEF UnderWay
<1>3. UnderWay[i] \in Range(mine) \/ UnderWay[i] \in Range(late)
  BY <1>2 DEF Range
<1>4. SoundRequest(UnderWay[i])
  BY <1>3 DEF RequestsInv
<1> QED
  BY <1>2, <1>4 DEF SoundRequest

LEMMA HandlingFacts ==
  ASSUME DeliveryInv, NEW i \in DOMAIN UnderWay, Handles(i)
  PROVE  \E e \in Entries, c \in Calls : HandlesEvent(UnderWay[i], e, c)
<1>1. PICK r \in Requests : r = UnderWay[i] /\ SoundRequest(r)
  BY SoundUnderWay DEF DeliveryInv
<1>2. r.left \in Seq(1 .. MaxEvents) /\ r.who \in Identities /\ Sorted(r.left)
      /\ Range(r.left) \subseteq 1 .. Len(history)
  BY <1>1 DEF Requests, SoundRequest
<1>3. /\ r.left # <<>> /\ r.pc \in {"travelling", "handling"} /\ Len(calls) < MaxCalls
      /\ UNCHANGED <<phoneVars, restarts>>
  BY <1>1 DEF Handles
<1>4. PICK id : id = Head(r.left)
  OBVIOUS
<1>5. id \in 1 .. MaxEvents /\ id \in Range(r.left)
  <2>0. PICK s : s = r.left
    OBVIOUS
  <2>1. PICK S \in SUBSET Nat : S = 1 .. MaxEvents
    <3>1. 1 .. MaxEvents \in SUBSET Nat
      OBVIOUS
    <3> QED
      BY <3>1
  <2>2. s \in Seq(S) /\ s # <<>> /\ Sorted(s)
    BY <1>2, <1>3, <2>0, <2>1
  <2>3. Head(s) \in S /\ Range(s) = {Head(s)} \cup Range(Tail(s))
    BY <2>1, <2>2, HeadFacts
  <2>4. Head(s) \in Range(s)
    BY <2>3
  <2> QED
    BY <1>4, <2>0, <2>1, <2>3, <2>4
<1>6. id \in 1 .. Len(history)
  BY <1>2, <1>5
<1>7. history[id].sig \in Sigs
  <2>1. history \in Seq([sig : Sigs, at : Int])
    BY DEF DeliveryInv, PhonePlaces
  <2>2. history[id] \in [sig : Sigs, at : Int]
    BY <1>6, <2>1, ElementOfSeq
  <2> QED
    BY <2>2
<1>8. PICK sig : sig = <<r.who, history[id].sig>>
  OBVIOUS
<1>9. sig \in Signatures
  BY <1>2, <1>7, <1>8, DeliveryAssumption
<1>10. /\ calls \in Seq(Calls) /\ now \in Nat /\ DeduperInv
       /\ DOMAIN RecentKept \subseteq DOMAIN recent
  BY PruneFacts DEF DeliveryInv, DeduperFacts, DeduperInv, DeduperTypeOK, Calls
<1>11. IsDuplicate(sig)
  BY <1>1, <1>4, <1>8 DEF Handles
<1>12. PICK dup \in BOOLEAN : /\ calls' = Append(calls, [sig |-> sig, at |-> now, duplicate |-> dup])
                              /\ dup => sig \in DOMAIN recent
  <2>1. PICK dup : dup = (sig \in DOMAIN RecentKept /\ now - RecentKept[sig] < DedupeWindow)
    OBVIOUS
  <2>2. dup \in BOOLEAN /\ (dup => sig \in DOMAIN recent)
    BY <1>10, <2>1
  <2>3. calls' = Append(calls, [sig |-> sig, at |-> now, duplicate |-> dup])
    BY <1>11, <2>1 DEF IsDuplicate
  <2> QED
    BY <2>2, <2>3
<1>13. PICK c \in Calls : /\ c = [sig |-> sig, at |-> now, duplicate |-> dup]
                          /\ c.sig = sig /\ c.at = now /\ c.duplicate = dup
  <2>1. [sig |-> sig, at |-> now, duplicate |-> dup] \in Calls
    BY <1>9, <1>10 DEF Calls
  <2> QED
    BY <2>1
<1>14. PICK L \in Nat : L = Len(calls) /\ L < MaxCalls /\ MaxCalls \in Nat
  BY <1>3, <1>10, LenProperties, DeduperAssumption
<1>15. Len(calls') = L + 1 /\ calls'[L + 1] = c
  BY <1>10, <1>12, <1>13, <1>14, AppendFacts
<1>16. PICK e : e = [id |-> id, who |-> r.who, at |-> now, epoch |-> restarts,
                     call |-> L + 1, stored |-> ~dup]
  OBVIOUS
<1>17. e \in Entries /\ IsCall(e, c)
  <2>1. restarts \in 0 .. MaxRestarts /\ L + 1 \in 1 .. MaxCalls /\ (~dup) \in BOOLEAN
    <3>1. restarts \in 0 .. MaxRestarts
      BY DEF DeliveryInv, MeetingInv
    <3>2. L + 1 \in 1 .. MaxCalls
      BY <1>14
    <3>3. (~dup) \in BOOLEAN
      OBVIOUS
    <3> QED
      BY <3>1, <3>2, <3>3
  <2>2. e \in Entries
    BY <1>2, <1>5, <1>10, <1>16, <2>1 DEF Entries
  <2> QED
    BY <1>8, <1>13, <1>16, <2>2 DEF IsCall
<1>18. handled' = Append(handled, e)
  <2>1. handled' = Append(handled, [id |-> id, who |-> r.who, at |-> now, epoch |-> restarts,
                          call |-> Len(calls'), stored |-> ~calls'[Len(calls')].duplicate])
    BY <1>1, <1>4 DEF Handles
  <2> QED
    BY <1>13, <1>15, <1>16, <2>1
<1>19. HandlesEvent(r, e, c)
  BY <1>1, <1>3, <1>4, <1>6, <1>8, <1>9, <1>11, <1>12, <1>13, <1>14, <1>16, <1>17, <1>18
  DEF HandlesEvent
<1> QED
  BY <1>1, <1>17, <1>19

-----------------------------------------------------------------------------
\* Steps at which the gateway handles nothing of the phone's.

LEMMA HandledFacts ==
  ASSUME PhonePlaces, MeetingInv
  PROVE  /\ Len(history) \in Nat /\ DOMAIN handled = 1 .. Len(handled) /\ Len(handled) \in Nat
         /\ \A k \in DOMAIN handled :
               /\ handled[k] \in Entries /\ handled[k].id \in 1 .. Len(history)
               /\ handled[k].call \in Nat \ {0} /\ handled[k].epoch \in Nat
<1>1. handled \in Seq(Entries) /\ Len(history) \in Nat
  BY LenProperties DEF PhonePlaces, MeetingInv
<1>2. DOMAIN handled = 1 .. Len(handled) /\ Len(handled) \in Nat
  BY <1>1, LenProperties
<1>3. ASSUME NEW k \in DOMAIN handled
      PROVE  /\ handled[k] \in Entries /\ handled[k].id \in 1 .. Len(history)
             /\ handled[k].call \in Nat \ {0} /\ handled[k].epoch \in Nat
  <2>1. handled[k] \in Entries
    BY <1>1, <1>2, ElementOfSeq
  <2>2. handled[k].id \in 1 .. MaxEvents /\ handled[k].call \in 1 .. MaxCalls
        /\ handled[k].epoch \in 0 .. MaxRestarts
    BY <2>1 DEF Entries
  <2>3. handled[k].id <= Len(history)
    BY DEF MeetingInv
  <2> QED
    BY <1>1, <2>1, <2>2, <2>3
<1> QED
  BY <1>1, <1>2, <1>3

\* Whatever is newly sent was met: its request was handled to the end.
LEMMA SentStaysMet ==
  ASSUME DeliveryInv, FateGrows, HandledGrows, OnlyHandledSent
  PROVE  SentIsMet'
<1>1. \A y : Met(y) => Met(y)'
  BY DEF HandledGrows, Met
<1>2. ASSUME NEW id \in Range(drain.chunk), mine # <<>>, mine[1].pc = "handled"
      PROVE  Met(id)
  <2>1. mine \in Seq(Requests)
    BY DEF DeliveryInv, RequestsInv
  <2>2. DOMAIN mine = 1 .. Len(mine) /\ Len(mine) \in Nat \ {0}
    BY <1>2, <2>1, LenProperties, EmptySeq
  <2>3. 1 \in DOMAIN mine
    BY <2>2
  <2>4. mine[1] \in Range(mine)
    BY <2>3 DEF Range
  <2>5. SoundRequest(mine[1]) /\ Covers(mine[1])
    BY <2>4 DEF DeliveryInv, RequestsInv
  <2>6. mine[1].left = <<>> /\ (id \in Range(mine[1].left) \/ Met(id))
    BY <1>2, <2>5 DEF SoundRequest, Covers
  <2>7. Range(<<>>) = {}
    BY DEF Range
  <2> QED
    BY <2>6, <2>7
<1>3. \A id \in DOMAIN fate : fate[id] = "sent" => Met(id)
  BY DEF DeliveryInv, MeetingInv, SentIsMet
<1> QED
  BY <1>1, <1>2, <1>3 DEF OnlyHandledSent, SentIsMet

LEMMA MeetingStays ==
  ASSUME DeliveryInv, PhonePlaces', HistoryGrows, FateGrows, OnlyHandledSent,
         handled' = handled, restarts' \in 0 .. MaxRestarts
  PROVE  MeetingInv'
<1>1. HandledGrows
  BY DEF HandledGrows
<1>2. SentIsMet'
  BY <1>1, SentStaysMet
<1>3. MeetingInv /\ PhonePlaces
  BY DEF DeliveryInv
<1>4. /\ \A y : Met(y) => Met(y)'
      /\ \A y : Gone(y) => Gone(y)'
  BY <1>1 DEF HandledGrows, FateGrows, Met, Gone
<1>5. Len(history) \in Nat /\ Len(history') \in Nat /\ Len(history) <= Len(history')
  BY LenProperties DEF DeliveryInv, PhonePlaces, HistoryGrows
<1>6. \A k \in DOMAIN handled : handled[k].id \in 1 .. Len(history)
  BY <1>3, HandledFacts
<1>7. \A k \in DOMAIN handled' : (handled[k].id <= Len(history))'
  BY <1>5, <1>6
<1>8. \A k \in DOMAIN handled', y \in 1 .. Len(history') :
         y < handled'[k].id => Met(y)' \/ Gone(y)'
  <2> SUFFICES ASSUME NEW k \in DOMAIN handled, NEW y \in 1 .. Len(history'), y < handled[k].id
               PROVE  Met(y)' \/ Gone(y)'
    OBVIOUS
  <2>1. handled[k].id \in 1 .. Len(history)
    BY <1>6
  <2>2. y \in 1 .. Len(history)
    BY <1>5, <2>1
  <2>3. Met(y) \/ Gone(y)
    BY <1>3, <2>2 DEF MeetingInv
  <2> QED
    BY <1>4, <2>3
<1>9. MetInOrder'
  <2>1. MetInOrder
    BY <1>3 DEF MeetingInv
  <2>2. \A y : (y \in DOMAIN fate /\ fate[y] \in {"evicted", "dropped"})
            => (y \in DOMAIN fate /\ fate[y] \in {"evicted", "dropped"})'
    BY DEF FateGrows
  <2> QED
    BY <2>1, <2>2 DEF MetInOrder
<1> QED
  BY <1>2, <1>3, <1>7, <1>8, <1>9 DEF MeetingInv

LEMMA StoreStays ==
  ASSUME DeliveryInv, HistoryGrows, handled' = handled,
         DOMAIN recent' \cap (Identities \X Sigs) \subseteq DOMAIN recent
  PROVE  StoreInv'
<1>1. \A k \in DOMAIN handled : handled[k].id \in 1 .. Len(history)
  BY HandledFacts DEF DeliveryInv
<1>2. \A k \in DOMAIN handled : SigOf(k)' = SigOf(k)
  BY <1>1 DEF SigOf, HistoryGrows
<1>3. StoreInv
  BY DEF DeliveryInv
<1> QED
  BY <1>2, <1>3 DEF StoreInv

LEMMA CallsStay ==
  ASSUME DeliveryInv, HistoryGrows, handled' = handled, restarts' = restarts,
         Len(calls') \in Nat, Len(calls) <= Len(calls'), Len(calls') <= MaxCalls,
         \A m \in 1 .. Len(calls) : calls'[m] = calls[m]
  PROVE  CallsInv'
<1>1. CallsInv /\ Len(calls) \in Nat
  BY LenProperties DEF DeliveryInv, DeduperFacts, DeduperInv, DeduperTypeOK
<1>2. ASSUME NEW k \in DOMAIN handled, handled[k].epoch = restarts
      PROVE  handled[k].call <= Len(calls') /\ IsCall(handled[k], calls[handled[k].call])'
  <2>1. handled[k].id \in 1 .. Len(history) /\ handled[k].call \in Nat \ {0}
    BY HandledFacts DEF DeliveryInv
  <2>2. handled[k].call <= Len(calls) /\ IsCall(handled[k], calls[handled[k].call])
    BY <1>1, <1>2 DEF CallsInv
  <2>3. handled[k].call \in 1 .. Len(calls)
    BY <1>1, <2>1, <2>2
  <2>4. calls'[handled[k].call] = calls[handled[k].call]
        /\ history'[handled[k].id] = history[handled[k].id]
    BY <2>1, <2>3 DEF HistoryGrows
  <2>5. handled[k].call <= Len(calls')
    BY <1>1, <2>1, <2>2
  <2> QED
    BY <2>2, <2>4, <2>5 DEF IsCall
<1> QED
  BY <1>1, <1>2 DEF CallsInv

-----------------------------------------------------------------------------
\* The step at which it does.

LEMMA HandledGrowsBy ==
  ASSUME DeliveryInv, NEW e \in Entries, handled' = Append(handled, e)
  PROVE  /\ HandledGrows /\ handled' \in Seq(Entries)
         /\ Len(handled) + 1 \in DOMAIN handled' /\ handled'[Len(handled) + 1] = e
         /\ \A k \in DOMAIN handled' : k \in DOMAIN handled \/ k = Len(handled) + 1
         /\ \A k \in DOMAIN handled : k < Len(handled) + 1
         /\ Met(e.id)'
<1>1. handled \in Seq(Entries)
  BY DEF DeliveryInv, MeetingInv
<1>2. PICK n \in Nat : n = Len(handled) /\ DOMAIN handled = 1 .. n
  BY <1>1, LenProperties
<1>3. /\ handled' \in Seq(Entries) /\ DOMAIN handled' = 1 .. n + 1
      /\ \A k \in 1 .. n : handled'[k] = handled[k]
      /\ handled'[n + 1] = e
  BY <1>1, <1>2, AppendFacts
<1>4. n + 1 \in 1 .. n + 1 /\ \A k \in 1 .. n + 1 : k \in 1 .. n \/ k = n + 1
  BY <1>2
<1>5. HandledGrows
  BY <1>2, <1>3, <1>4 DEF HandledGrows
<1>6. Met(e.id)'
  BY <1>3, <1>4 DEF Met
<1> QED
  BY <1>2, <1>3, <1>4, <1>5, <1>6

LEMMA MeetingHandled ==
  ASSUME DeliveryInv, NEW r, NEW e \in Entries, NEW c \in Calls, HandlesEvent(r, e, c)
  PROVE  MeetingInv'
<1>1. /\ MeetingInv /\ PhonePlaces /\ handled' = Append(handled, e)
      /\ history' = history /\ fate' = fate /\ drain' = drain /\ restarts' = restarts
      /\ e.id \in 1 .. Len(history) /\ SoundRequest(r) /\ r.left # <<>> /\ e.id = Head(r.left)
  BY DEF DeliveryInv, HandlesEvent, phoneVars
<1>2. PICK n : n = Len(handled) + 1
  OBVIOUS
<1>3. /\ HandledGrows /\ handled' \in Seq(Entries)
      /\ n \in DOMAIN handled' /\ handled'[n] = e
      /\ \A k \in DOMAIN handled' : k \in DOMAIN handled \/ k = n
      /\ \A k \in DOMAIN handled : k < n
  BY <1>1, <1>2, HandledGrowsBy
<1>4. SentIsMet'
  BY <1>1, <1>3, SentStaysMet DEF FateGrows, OnlyHandledSent
<1>5. \A y : Met(y) => Met(y)'
  BY <1>3 DEF HandledGrows, Met
<1>6. \A k \in DOMAIN handled' : handled'[k].id <= Len(history')
  BY <1>1, <1>3, HandledFacts DEF HandledGrows, MeetingInv
<1>7. ASSUME NEW y \in 1 .. Len(history), y < e.id
      PROVE  Met(y) \/ Gone(y)
  <2>1. PICK s, S : s = r.left /\ S = 1 .. MaxEvents
    OBVIOUS
  <2>2. S \in SUBSET Nat /\ s \in Seq(S) /\ s # <<>> /\ Sorted(s)
    BY <1>1, <2>1 DEF SoundRequest, Requests
  <2>3. Range(s) = {Head(s)} \cup Range(Tail(s)) /\ \A z \in Range(s) : Head(s) <= z
    BY <2>2, HeadFacts
  <2>4. e.id \in Range(r.left)
    BY <1>1, <2>1, <2>3
  <2>5. y \notin Range(r.left)
    <3>1. y \in Range(r.left) => e.id <= y
      BY <1>1, <2>1, <2>3
    <3>2. e.id \in Nat /\ y \in Nat
      BY <1>1
    <3> QED
      BY <1>7, <3>1, <3>2
  <2> QED
    BY <1>1, <1>7, <2>4, <2>5 DEF SoundRequest
<1>8. \A k \in DOMAIN handled', y \in 1 .. Len(history') :
         y < handled'[k].id => Met(y)' \/ Gone(y)'
  <2> SUFFICES ASSUME NEW k \in DOMAIN handled', NEW y \in 1 .. Len(history), y < handled'[k].id
               PROVE  Met(y)' \/ Gone(y)'
    BY <1>1
  <2>1. CASE k \in DOMAIN handled
    <3>1. Met(y) \/ Gone(y)
      BY <1>1, <1>3, <2>1 DEF MeetingInv, HandledGrows
    <3> QED
      BY <1>1, <1>5, <3>1 DEF Gone
  <2>2. CASE k = n
    BY <1>1, <1>3, <1>5, <1>7, <2>2 DEF Gone
  <2> QED
    BY <1>3, <2>1, <2>2
<1>9. MetInOrder'
  <2> SUFFICES ASSUME NEW j \in DOMAIN handled', NEW i \in 1 .. j - 1,
                      \A k \in 1 .. j - 1 : handled'[k].id # handled'[j].id,
                      handled'[i].id > handled'[j].id
               PROVE  handled'[j].id \in DOMAIN fate /\ fate[handled'[j].id] \in {"evicted", "dropped"}
    BY <1>1 DEF MetInOrder
  <2>1. DOMAIN handled = 1 .. Len(handled) /\ Len(handled) \in Nat
    BY <1>1, HandledFacts
  <2>2. CASE j \in DOMAIN handled
    <3>1. /\ \A k \in 1 .. j - 1 : k \in DOMAIN handled
      BY <2>1, <2>2
    <3>2. /\ \A k \in 1 .. j - 1 : handled[k].id # handled[j].id
          /\ handled[i].id > handled[j].id /\ handled'[j] = handled[j]
      BY <1>3, <2>2, <3>1 DEF HandledGrows
    <3> QED
      BY <1>1, <2>2, <3>2 DEF MeetingInv, MetInOrder
  <2>3. CASE j = n
    <3>1. \A k \in DOMAIN handled : k \in 1 .. j - 1
      BY <1>2, <2>1, <2>3
    <3>2. i \in DOMAIN handled
      BY <1>2, <2>1, <2>3
    <3>3. ~Met(e.id)
      BY <1>3, <2>3, <3>1 DEF Met, HandledGrows
    <3>4. handled[i].id > e.id
      BY <1>3, <2>3, <3>2 DEF HandledGrows
    <3>5. handled[i].id \in Nat /\ e.id \in Nat
      BY <1>1, <3>2, HandledFacts
    <3>6. Met(e.id) \/ Gone(e.id)
      BY <1>1, <3>2, <3>4, <3>5 DEF MeetingInv
    <3> QED
      BY <1>3, <2>3, <3>3, <3>6 DEF Gone
  <2> QED
    BY <1>3, <2>2, <2>3
<1> QED
  BY <1>1, <1>3, <1>4, <1>6, <1>8, <1>9 DEF MeetingInv

LEMMA StoreHandled ==
  ASSUME DeliveryInv, NEW r, NEW e \in Entries, NEW c \in Calls, HandlesEvent(r, e, c)
  PROVE  StoreInv'
<1>1. /\ StoreInv /\ DeduperInv /\ handled' = Append(handled, e) /\ history' = history
      /\ e.who = r.who /\ c.sig = <<r.who, history[e.id].sig>> /\ IsDuplicate(c.sig)
      /\ c.duplicate = ~e.stored /\ (c.duplicate => c.sig \in DOMAIN recent)
  BY DEF DeliveryInv, DeduperFacts, HandlesEvent, IsCall, phoneVars
<1>2. PICK n : n = Len(handled) + 1
  OBVIOUS
<1>3. /\ HandledGrows
      /\ n \in DOMAIN handled' /\ handled'[n] = e
      /\ \A k \in DOMAIN handled' : k \in DOMAIN handled \/ k = n
  BY <1>1, <1>2, HandledGrowsBy
<1>4. DOMAIN recent' \subseteq DOMAIN recent \cup {c.sig}
  BY <1>1, PruneFacts DEF IsDuplicate
<1>5. \A k \in DOMAIN handled : k \in DOMAIN handled' /\ handled'[k] = handled[k] /\ SigOf(k)' = SigOf(k)
  BY <1>1, <1>3 DEF HandledGrows, SigOf
<1>6. SigOf(n)' = history[e.id].sig
  BY <1>1, <1>3 DEF SigOf
<1>7. e.who \in Identities /\ e.id \in 1 .. Len(history)
  BY DEF Entries, HandlesEvent
<1>8. history[e.id].sig \in Sigs
  <2>1. history \in Seq([sig : Sigs, at : Int])
    BY DEF DeliveryInv, PhonePlaces
  <2>2. history[e.id] \in [sig : Sigs, at : Int]
    BY <1>7, <2>1, ElementOfSeq
  <2> QED
    BY <2>2
\* The event is stored now, or what made it a duplicate was.
<1>9. \E i \in DOMAIN handled' : /\ handled'[i].stored /\ handled'[i].who = e.who
                                 /\ SigOf(i)' = history[e.id].sig
  <2>1. CASE e.stored
    BY <1>3, <1>6, <2>1
  <2>2. CASE ~e.stored
    <3>1. c.sig \in DOMAIN recent \cap (Identities \X Sigs)
      <4>1. c.sig \in DOMAIN recent
        BY <1>1, <2>2
      <4>2. c.sig = <<e.who, history[e.id].sig>>
        BY <1>1
      <4> QED
        BY <1>7, <1>8, <4>1, <4>2
    <3>2. PICK i \in DOMAIN handled : handled[i].stored /\ c.sig = <<handled[i].who, SigOf(i)>>
      BY <1>1, <3>1 DEF StoreInv
    <3>3. handled[i].who = e.who /\ SigOf(i) = history[e.id].sig
      BY <1>1, <3>2
    <3> QED
      BY <1>5, <3>2, <3>3
  <2> QED
    BY <2>1, <2>2
<1>10. ASSUME NEW s \in DOMAIN recent' \cap (Identities \X Sigs)
       PROVE  \E i \in DOMAIN handled' : handled'[i].stored /\ s = <<handled'[i].who, SigOf(i)'>>
  <2>1. CASE s = c.sig
    BY <1>1, <1>9, <2>1
  <2>2. CASE s \in DOMAIN recent
    BY <1>1, <1>5, <2>2 DEF StoreInv
  <2> QED
    BY <1>4, <2>1, <2>2
<1>11. ASSUME NEW j \in DOMAIN handled'
       PROVE  \E i \in DOMAIN handled' : handled'[i].stored /\ SigOf(i)' = SigOf(j)'
  <2>1. CASE j = n
    BY <1>6, <1>9, <2>1
  <2>2. CASE j \in DOMAIN handled
    BY <1>1, <1>5, <2>2 DEF StoreInv
  <2> QED
    BY <1>3, <2>1, <2>2
<1> QED
  BY <1>10, <1>11 DEF StoreInv

LEMMA CallsHandled ==
  ASSUME DeliveryInv, NEW r, NEW e \in Entries, NEW c \in Calls, HandlesEvent(r, e, c)
  PROVE  CallsInv'
<1>1. /\ CallsInv /\ calls \in Seq(Calls) /\ handled' = Append(handled, e) /\ calls' = Append(calls, c)
      /\ history' = history /\ restarts' = restarts
      /\ IsCall(e, c) /\ e.epoch = restarts
  BY DEF DeliveryInv, DeduperFacts, DeduperInv, DeduperTypeOK, Calls, HandlesEvent, phoneVars
<1>2. PICK L \in Nat : L = Len(calls)
  BY <1>1, LenProperties
<1>3. /\ e.call = L + 1 /\ L < MaxCalls /\ MaxCalls \in Nat /\ restarts \in Nat
  BY <1>2, DeduperAssumption DEF HandlesEvent, DeliveryInv, MeetingInv
<1>4. Len(calls') = L + 1 /\ calls'[L + 1] = c /\ \A m \in 1 .. L : calls'[m] = calls[m]
  BY <1>1, <1>2, AppendFacts
<1>5. PICK n : n = Len(handled) + 1
  OBVIOUS
<1>6. /\ HandledGrows
      /\ n \in DOMAIN handled' /\ handled'[n] = e
      /\ \A k \in DOMAIN handled' : k \in DOMAIN handled \/ k = n
      /\ \A k \in DOMAIN handled : k < n
  BY <1>1, <1>5, HandledGrowsBy
<1>7. /\ \A k \in DOMAIN handled : handled[k].call \in Nat \ {0}
      /\ DOMAIN handled = 1 .. Len(handled) /\ Len(handled) \in Nat
  BY HandledFacts DEF DeliveryInv
<1>8. \A k \in DOMAIN handled : handled'[k] = handled[k]
  BY <1>6 DEF HandledGrows
<1>9. ASSUME NEW k \in DOMAIN handled, handled[k].epoch = restarts
      PROVE  handled[k].call \in 1 .. L /\ IsCall(handled[k], calls[handled[k].call])
  <2>1. handled[k].call <= L /\ IsCall(handled[k], calls[handled[k].call])
    BY <1>1, <1>2, <1>9 DEF CallsInv
  <2> QED
    BY <1>2, <1>7, <2>1
<1>10. ASSUME NEW k \in DOMAIN handled'
       PROVE  /\ handled'[k].epoch <= restarts
              /\ handled'[k].epoch = restarts =>
                    /\ handled'[k].call <= L + 1
                    /\ IsCall(handled[k], calls[handled[k].call])'
  <2>1. CASE k \in DOMAIN handled
    <3>1. handled'[k] = handled[k] /\ handled[k].epoch <= restarts
      BY <1>1, <1>8, <2>1 DEF CallsInv
    <3>2. ASSUME handled[k].epoch = restarts
          PROVE  /\ handled[k].call <= L + 1 /\ calls'[handled[k].call] = calls[handled[k].call]
                 /\ IsCall(handled[k], calls[handled[k].call])
      <4>1. handled[k].call \in 1 .. L /\ IsCall(handled[k], calls[handled[k].call])
        BY <1>9, <2>1, <3>2
      <4>2. handled[k].call <= L + 1
        BY <1>2, <4>1
      <4> QED
        BY <1>4, <4>1, <4>2
    <3>3. IsCall(handled[k], calls[handled[k].call])' <=>
            IsCall(handled'[k], calls'[handled'[k].call])
      BY <1>1 DEF IsCall
    <3> QED
      BY <3>1, <3>2, <3>3
  <2>2. CASE k = n
    <3>1. handled'[k] = e /\ calls'[e.call] = c
      BY <1>3, <1>4, <1>6, <2>2
    <3>2. IsCall(handled[k], calls[handled[k].call])' <=> IsCall(e, c)
      BY <1>1, <3>1 DEF IsCall
    <3>3. handled'[k].epoch = restarts /\ restarts <= restarts
          /\ handled'[k].call = L + 1 /\ L + 1 <= L + 1
      BY <1>1, <1>2, <1>3, <3>1
    <3> QED
      BY <1>1, <3>2, <3>3
  <2> QED
    BY <1>6, <2>1, <2>2
<1>11. ASSUME NEW i \in DOMAIN handled', NEW j \in DOMAIN handled',
              i < j, handled'[i].epoch = handled'[j].epoch
       PROVE  handled'[i].call < handled'[j].call
  <2>1. CASE i \in DOMAIN handled /\ j \in DOMAIN handled
    BY <1>1, <1>8, <1>11, <2>1 DEF CallsInv
  <2>2. CASE i \in DOMAIN handled /\ j = n
    <3>1. handled[i].epoch = restarts /\ handled'[i] = handled[i]
      BY <1>1, <1>6, <1>8, <1>11, <2>2
    <3>2. handled[i].call \in 1 .. L
      BY <1>9, <2>2, <3>1
    <3> QED
      BY <1>2, <1>3, <1>6, <2>2, <3>1, <3>2
  <2>3. CASE i = n
    <3>1. j \in DOMAIN handled \/ j = n
      BY <1>6
    <3>2. FALSE
      BY <1>5, <1>6, <1>7, <1>11, <2>3, <3>1
    <3> QED
      BY <3>2
  <2> QED
    BY <1>6, <2>1, <2>2, <2>3
<1>12. Len(calls') <= MaxCalls
  BY <1>2, <1>3, <1>4
<1> QED
  BY <1>1, <1>4, <1>10, <1>11, <1>12 DEF CallsInv

\* After a restart no event is of the present process.
LEMMA CallsForgotten ==
  ASSUME DeliveryInv, handled' = handled, restarts' = restarts + 1, calls' = <<>>
  PROVE  CallsInv'
<1>1. CallsInv /\ MaxCalls \in Nat /\ restarts \in Nat /\ Len(<<>>) = 0
  BY DeduperAssumption, EmptySeq DEF DeliveryInv, MeetingInv
<1>2. \A k \in DOMAIN handled : handled[k].epoch \in Nat
  BY HandledFacts DEF DeliveryInv
<1>3. ASSUME NEW k \in DOMAIN handled
      PROVE  handled[k].epoch <= restarts + 1 /\ handled[k].epoch # restarts + 1
  <2>1. handled[k].epoch <= restarts
    BY <1>1 DEF CallsInv
  <2> QED
    BY <1>1, <1>2, <2>1
<1>4. Len(calls') <= MaxCalls
  BY <1>1
<1> QED
  BY <1>1, <1>3, <1>4 DEF CallsInv

-----------------------------------------------------------------------------
\* The requests under way.

LEMMA PhoneStays ==
  ASSUME PhonePlaces, UNCHANGED phoneVars
  PROVE  HistoryGrows /\ FateGrows /\ OnlyHandledSent
<1>1. history' = history /\ fate' = fate /\ Len(history) \in Nat
  BY LenProperties DEF phoneVars, PhonePlaces
<1> QED
  BY <1>1 DEF HistoryGrows, FateGrows, OnlyHandledSent

LEMMA MineFacts ==
  ASSUME RequestsInv
  PROVE  /\ drain.pc = "sending" => /\ mine # <<>> /\ Len(mine) = 1 /\ DOMAIN mine = {1}
                                    /\ mine[1] \in Requests /\ Range(mine) = {mine[1]}
         /\ drain.pc # "sending" => mine = <<>>
<1>1. mine \in Seq(Requests) /\ Len(mine) = (IF drain.pc = "sending" THEN 1 ELSE 0)
  BY DEF RequestsInv
<1>2. DOMAIN mine = 1 .. Len(mine) /\ (mine # <<>> => Len(mine) \in Nat \ {0}) /\ Len(<<>>) = 0
  BY <1>1, LenProperties, EmptySeq
<1>3. CASE drain.pc = "sending"
  <2>1. Len(mine) = 1 /\ DOMAIN mine = {1} /\ mine # <<>>
    BY <1>1, <1>2, <1>3
  <2>2. mine[1] \in Requests
    BY <1>1, <2>1, ElementOfSeq
  <2>3. Range(mine) = {mine[1]}
    BY <2>1 DEF Range
  <2> QED
    BY <1>3, <2>1, <2>2, <2>3
<1>4. CASE drain.pc # "sending"
  <2>1. Len(mine) = 0
    BY <1>1, <1>4
  <2> QED
    BY <1>2, <1>4, <2>1
<1> QED
  BY <1>3, <1>4

\* The phone keeps its request, gives it up, or posts another.
LEMMA MineMoves ==
  ASSUME RequestsInv, PhoneMoves
  PROVE  \/ mine' = mine /\ drain' = drain
         \/ mine' = <<>> /\ drain'.pc # "sending"
         \/ drain'.pc = "sending"
            /\ \E who \in Identities : mine' = <<Request(who, drain'.chunk)>>
<1>3. CASE PhoneActs
  <2>1. mine' = mine
    BY <1>3 DEF PhoneActs
  <2>2. drain' = drain \/ \E q : Phone!Flush(q)
    BY <1>3 DEF PhoneActs, Phone!Start, Phone!Dispose, Phone!Tick, Phone!Enqueue
  <2>3. drain' = drain \/ (drain.pc = "idle" /\ drain'.pc = "token")
    BY <2>2 DEF Phone!Flush
  <2>4. drain.pc = "idle" => mine = <<>>
    BY MineFacts
  <2> QED
    BY <2>1, <2>3, <2>4
<1>4. CASE TokenRead
  <2>1. PICK who \in Identities : Phone!TokenResolved /\ Posts(who)
    BY <1>4 DEF TokenRead
  <2> QED
    BY <2>1 DEF Posts
<1>5. CASE AnswerArrives
  <2>1. PICK who : who = mine[1].who /\ Posts(who)
    BY <1>5 DEF AnswerArrives
  <2>2. drain.pc = "sending"
    BY <1>5 DEF AnswerArrives, Phone!ChunkDone
  <2>3. who \in Identities
    BY <2>1, <2>2, MineFacts DEF Requests
  <2> QED
    BY <2>1, <2>3 DEF Posts
<1>6. CASE RequestFails \/ TimesOut
  BY <1>6 DEF RequestFails, TimesOut, Phone!ChunkFailed, Phone!Idle
<1> QED
  BY <1>3, <1>4, <1>5, <1>6 DEF PhoneMoves

LEMMA CoversStays ==
  ASSUME HandledGrows, drain' = drain, NEW r, Covers(r)
  PROVE  Covers(r)'
BY DEF HandledGrows, Covers, Met

LEMMA RequestsMove ==
  ASSUME DeliveryInv, PhonePlaces', FreshSound', PhoneMoves
  PROVE  RequestsInv'
<1>1. RequestsInv /\ PhonePlaces /\ mine \in Seq(Requests) /\ late \in Seq(Requests)
  BY DEF DeliveryInv, RequestsInv
<1>2. FateGrows /\ HistoryGrows /\ HistoryBound' /\ handled' = handled
  BY PhoneMovesFate, PhoneMovesHistory DEF DeliveryInv, RequestsInv
<1>3. HandledGrows
  BY <1>2 DEF HandledGrows
<1>4. \A r : SoundRequest(r) => SoundRequest(r)'
  BY <1>1, <1>2, <1>3, SoundStays
<1>5. /\ mine' \in Seq(Requests) /\ Len(mine') = (IF drain'.pc = "sending" THEN 1 ELSE 0)
      /\ \A r \in Range(mine') : SoundRequest(r)' /\ Covers(r)'
  <2>1. CASE mine' = mine /\ drain' = drain
    <3>1. \A r \in Range(mine) : SoundRequest(r) /\ Covers(r)
      BY <1>1 DEF RequestsInv
    <3>2. \A r \in Range(mine) : SoundRequest(r)' /\ Covers(r)'
      BY <1>3, <1>4, <2>1, <3>1, CoversStays
    <3> QED
      BY <1>1, <2>1, <3>2 DEF RequestsInv
  <2>2. CASE mine' = <<>> /\ drain'.pc # "sending"
    <3>1. <<>> \in Seq(Requests) /\ Len(<<>>) = 0 /\ Range(<<>>) = {}
      BY EmptySeq DEF Range
    <3> QED
      BY <2>2, <3>1
  <2>3. CASE drain'.pc = "sending" /\ \E who \in Identities : mine' = <<Request(who, drain'.chunk)>>
    <3>1. PICK r : mine' = <<r>> /\ SoundRequest(r)' /\ Covers(r)'
      BY <2>3 DEF FreshSound
    <3>2. r \in Requests
      BY <3>1 DEF SoundRequest
    <3>3. <<r>> \in Seq(Requests) /\ Len(<<r>>) = 1 /\ Range(<<r>>) = {r}
      BY <3>2, SingletonFacts
    <3> QED
      BY <2>3, <3>1, <3>3
  <2> QED
    BY <1>1, <2>1, <2>2, <2>3, MineMoves
<1>6. /\ late' \in Seq(Requests) /\ Len(late') <= MaxLate
      /\ \A r \in Range(late') : SoundRequest(r)'
  <2>1. Len(late) <= MaxLate /\ \A r \in Range(mine) \cup Range(late) : SoundRequest(r)
    BY <1>1 DEF RequestsInv
  <2>2. CASE late' = late
    BY <1>1, <1>4, <2>1, <2>2
  <2>3. CASE late' = late \o mine /\ Len(late) < MaxLate /\ drain.pc = "sending"
    <3>1. /\ late \o mine \in Seq(Requests) /\ Len(late \o mine) = Len(late) + Len(mine)
          /\ Range(late \o mine) \subseteq Range(late) \cup Range(mine)
      BY <1>1, ConcatRange
    <3>2. Len(late) \in Nat /\ Len(mine) = 1 /\ MaxLate \in Nat
      BY <1>1, <2>3, MineFacts, LenProperties, DeliveryAssumption
    <3>3. Len(late') <= MaxLate
      BY <2>3, <3>1, <3>2
    <3> QED
      BY <1>4, <2>1, <2>3, <3>1, <3>3
  <2>4. late' = late \/ (late' = late \o mine /\ Len(late) < MaxLate /\ drain.pc = "sending")
    <3>1. mine # <<>> => drain.pc = "sending"
      BY <1>1, MineFacts
    <3> QED
      BY <3>1 DEF PhoneMoves, PhoneActs, TokenRead, AnswerArrives, RequestFails, TimesOut
  <2> QED
    BY <2>2, <2>3, <2>4
<1> QED
  BY <1>2, <1>5, <1>6 DEF RequestsInv

\* Steps of the network and the gateway leave the phone alone.
LEMMA RequestsStay ==
  ASSUME DeliveryInv, UNCHANGED phoneVars,
         mine' \in Seq(Requests), Len(mine') = Len(mine),
         \A r \in Range(mine') : SoundRequest(r)' /\ Covers(r)',
         late' \in Seq(Requests), Len(late') <= MaxLate,
         \A r \in Range(late') : SoundRequest(r)'
  PROVE  RequestsInv'
BY DEF DeliveryInv, RequestsInv, phoneVars, HistoryBound

LEMMA LateShrinks ==
  ASSUME RequestsInv, NEW i \in DOMAIN late
  PROVE  /\ RemoveAt(late, i) \in Seq(Requests) /\ Len(RemoveAt(late, i)) <= MaxLate
         /\ Range(RemoveAt(late, i)) \subseteq Range(late)
<1>1. late \in Seq(Requests) /\ Len(late) <= MaxLate /\ Len(late) \in Nat /\ MaxLate \in Nat
  BY LenProperties, DeliveryAssumption DEF RequestsInv
<1>2. /\ RemoveAt(late, i) \in Seq(Requests) /\ Len(RemoveAt(late, i)) = Len(late) - 1
      /\ Range(RemoveAt(late, i)) \subseteq Range(late)
  BY <1>1, RemoveFacts
<1> QED
  BY <1>1, <1>2

\* What is left of a request whose first event has just been met.
Rest(r) ==
    [r EXCEPT !.left = Tail(@), !.pc = IF Len(r.left) = 1 THEN "handled" ELSE "handling"]

LEMMA RestIsSound ==
  ASSUME NEW r, SoundRequest(r)', r.left # <<>>, Met(Head(r.left))'
  PROVE  SoundRequest(Rest(r))' /\ (Covers(r)' => Covers(Rest(r))')
<1>1. PICK s, S : s = r.left /\ S = 1 .. MaxEvents
  OBVIOUS
<1>2. r \in Requests /\ S \in SUBSET Nat /\ s \in Seq(S) /\ s # <<>> /\ Sorted(s)
  BY <1>1 DEF SoundRequest, Requests
<1>3. /\ Tail(s) \in Seq(S) /\ Sorted(Tail(s)) /\ Range(s) = {Head(s)} \cup Range(Tail(s))
      /\ Len(s) = 1 => Tail(s) = <<>>
  BY <1>2, HeadFacts
<1>4. PICK q : /\ q = Rest(r) /\ q \in Requests /\ q.left = Tail(s)
               /\ q.pc = "handled" => Len(s) = 1
  <2>1. /\ Rest(r) \in Requests /\ Rest(r).left = Tail(s)
        /\ Rest(r).pc = IF Len(s) = 1 THEN "handled" ELSE "handling"
    BY <1>1, <1>2, <1>3 DEF Rest, Requests
  <2> QED
    BY <2>1
<1>5. Range(s) \subseteq Range(q.left) \cup {Head(s)} /\ Met(Head(s))'
  BY <1>1, <1>3, <1>4
<1>6. SoundRequest(q)'
  BY <1>1, <1>3, <1>4, <1>5 DEF SoundRequest
<1>7. Covers(r)' => Covers(q)'
  BY <1>1, <1>5 DEF Covers
<1> QED
  BY <1>4, <1>6, <1>7

LEMMA RequestsHandled ==
  ASSUME DeliveryInv, PhonePlaces', NEW i \in DOMAIN UnderWay, Handles(i)
  PROVE  RequestsInv'
<1>1. /\ RequestsInv /\ PhonePlaces /\ mine \in Seq(Requests) /\ late \in Seq(Requests)
      /\ Len(late) <= MaxLate
  BY DEF DeliveryInv, RequestsInv
<1>2. PICK r : /\ r = UnderWay[i] /\ SoundRequest(r) /\ r \in Requests
               /\ \/ i <= Len(mine) /\ i \in DOMAIN mine /\ r = mine[i]
                  \/ ~(i <= Len(mine)) /\ i - Len(mine) \in DOMAIN late /\ r = late[i - Len(mine)]
  BY <1>1, SoundUnderWay
<1>3. PICK e \in Entries, c \in Calls : HandlesEvent(r, e, c)
  BY <1>2, HandlingFacts
<1>4. /\ UNCHANGED phoneVars /\ r.left # <<>> /\ handled' = Append(handled, e) /\ e.id = Head(r.left)
  BY <1>3 DEF HandlesEvent
<1>5. HandledGrows /\ Met(e.id)' /\ drain' = drain
  BY <1>4, HandledGrowsBy DEF phoneVars
<1>6. \A q : SoundRequest(q) => SoundRequest(q)'
  BY <1>1, <1>4, <1>5, PhoneStays, SoundStays
<1>7. \A q : Covers(q) => Covers(q)'
  BY <1>5, CoversStays
<1>8. PICK rest : rest = Rest(r)
  OBVIOUS
<1>9. SoundRequest(rest)' /\ (Covers(r)' => Covers(rest)') /\ rest \in Requests
  <2>1. SoundRequest(r)' /\ Met(Head(r.left))'
    BY <1>2, <1>4, <1>5, <1>6
  <2>2. SoundRequest(rest)' /\ (Covers(r)' => Covers(rest)')
    BY <1>4, <1>8, <2>1, RestIsSound
  <2> QED
    BY <2>2 DEF SoundRequest
<1>10. /\ \A q \in Range(mine) : SoundRequest(q)' /\ Covers(q)'
       /\ \A q \in Range(late) : SoundRequest(q)'
  BY <1>1, <1>6, <1>7 DEF RequestsInv
<1>11. IF i <= Len(mine) THEN mine' = <<rest>> /\ late' = late
       ELSE /\ late' = IF rest.pc = "handled" THEN RemoveAt(late, i - Len(mine))
                       ELSE [late EXCEPT ![i - Len(mine)] = rest]
            /\ mine' = mine
  BY <1>2, <1>8 DEF Handles, Rest
<1>12. CASE i <= Len(mine)
  <2>1. i \in DOMAIN mine /\ r = mine[i]
    BY <1>2, <1>12
  <2>2. r \in Range(mine) /\ Len(mine) = 1
    <3>1. drain.pc = "sending"
      <4>1. drain.pc # "sending" => DOMAIN mine = {}
        BY <1>1, MineFacts
      <4> QED
        BY <2>1, <4>1
    <3> QED
      BY <1>1, <2>1, <3>1, MineFacts DEF Range
  <2>3. SoundRequest(rest)' /\ Covers(rest)'
    BY <1>9, <1>10, <2>2
  <2>4. <<rest>> \in Seq(Requests) /\ Len(<<rest>>) = 1 /\ Range(<<rest>>) = {rest}
    BY <1>9, SingletonFacts
  <2>5. mine' = <<rest>> /\ late' = late
    BY <1>11, <1>12
  <2> QED
    BY <1>1, <1>4, <1>10, <2>2, <2>3, <2>4, <2>5, RequestsStay
<1>13. CASE ~(i <= Len(mine))
  <2>1. PICK k \in DOMAIN late : k = i - Len(mine)
    BY <1>2, <1>13
  <2>2. /\ mine' = mine
        /\ \/ late' = RemoveAt(late, k)
           \/ late' = [late EXCEPT ![k] = rest]
    BY <1>11, <1>13, <2>1
  <2>3. CASE late' = RemoveAt(late, k)
    <3>1. /\ late' \in Seq(Requests) /\ Len(late') <= MaxLate /\ Range(late') \subseteq Range(late)
      BY <1>1, <2>1, <2>3, LateShrinks
    <3> QED
      BY <1>1, <1>4, <1>10, <2>2, <3>1, RequestsStay
  <2>4. CASE late' = [late EXCEPT ![k] = rest]
    <3>1. /\ late' \in Seq(Requests) /\ Len(late') = Len(late)
          /\ Range(late') \subseteq Range(late) \cup {rest}
      <4>1. rest \in Requests /\ late \in Seq(Requests) /\ k \in DOMAIN late
        BY <1>1, <1>9, <2>1
      <4>2. LET t == [late EXCEPT ![k] = rest] IN
            /\ t \in Seq(Requests) /\ Len(t) = Len(late) /\ Range(t) \subseteq Range(late) \cup {rest}
        BY <4>1, ReplaceFacts
      <4> QED
        BY <2>4, <4>2
    <3>2. \A q \in Range(late') : SoundRequest(q)'
      BY <1>9, <1>10, <3>1
    <3> QED
      BY <1>1, <1>4, <1>10, <2>2, <3>1, <3>2, RequestsStay
  <2> QED
    BY <2>2, <2>3, <2>4
<1> QED
  BY <1>12, <1>13

LEMMA RequestsCut ==
  ASSUME DeliveryInv, PhonePlaces', GatewayRestarts
  PROVE  RequestsInv'
<1>1. /\ RequestsInv /\ PhonePlaces /\ mine \in Seq(Requests) /\ late \in Seq(Requests)
      /\ Len(late) <= MaxLate
  BY DEF DeliveryInv, RequestsInv
<1>2. UNCHANGED phoneVars /\ handled' = handled /\ drain' = drain
  BY DEF GatewayRestarts, phoneVars
<1>3. HandledGrows
  BY <1>2 DEF HandledGrows
<1>4. \A q : /\ SoundRequest(q) => SoundRequest(q)'
             /\ Covers(q) => Covers(q)'
  BY <1>1, <1>2, <1>3, PhoneStays, SoundStays, CoversStays
<1>5. /\ \A q \in Range(mine) : SoundRequest(q)' /\ Covers(q)'
      /\ \A q \in Range(late) : SoundRequest(q)'
  BY <1>1, <1>4 DEF RequestsInv
<1>6. /\ mine' \in Seq(Requests) /\ Len(mine') = Len(mine)
      /\ \A q \in Range(mine') : SoundRequest(q)' /\ Covers(q)'
  <2>1. PICK n \in Nat : n = Len(mine) /\ DOMAIN mine = 1 .. n
    BY <1>1, LenProperties
  <2>2. ASSUME NEW j \in 1 .. n
        PROVE  \E p \in Requests : p = mine'[j] /\ SoundRequest(p)' /\ Covers(p)'
    <3>1. PICK q : /\ q = mine[j] /\ q \in Requests /\ SoundRequest(q)' /\ Covers(q)'
      <4>1. mine[j] \in Requests /\ mine[j] \in Range(mine)
        BY <1>1, <2>1, ElementOfSeq DEF Range
      <4> QED
        BY <1>5, <4>1
    <3>2. PICK p : p = mine'[j] /\ (p = q \/ p = [q EXCEPT !.pc = "cut"])
      BY <2>1, <3>1 DEF GatewayRestarts
    <3>3. p \in Requests /\ p.left = q.left /\ (p.pc = q.pc \/ p.pc = "cut")
      BY <3>1, <3>2 DEF Requests
    <3>4. SoundRequest(p)' /\ Covers(p)'
      BY <3>1, <3>3 DEF SoundRequest, Covers
    <3> QED
      BY <3>2, <3>3, <3>4
  <2>3. DOMAIN mine' = 1 .. n /\ mine' \in [1 .. n -> Requests]
    BY <2>1, <2>2 DEF GatewayRestarts
  <2>4. mine' \in Seq(Requests)
    BY <2>3, SeqDef
  <2>5. Len(mine') = n
    BY <2>1, <2>3, <2>4, LenProperties
  <2> QED
    BY <2>1, <2>2, <2>3, <2>4, <2>5 DEF Range
<1>7. late' = late \/ \E i \in DOMAIN late : late' = RemoveAt(late, i)
  BY DEF GatewayRestarts
<1>8. late' \in Seq(Requests) /\ Len(late') <= MaxLate /\ Range(late') \subseteq Range(late)
  BY <1>1, <1>7, LateShrinks
<1> QED
  BY <1>2, <1>5, <1>6, <1>8, RequestsStay

-----------------------------------------------------------------------------
\* The deduplication in Delivery: restarts forget its table and its calls.

LEMMA RestartKeepsFacts ==
  ASSUME DeduperFacts, GatewayRestarts
  PROVE  DeduperFacts'
<1>1. /\ recent' = [s \in {} |-> 0] /\ calls' = <<>> /\ now' = now /\ now \in Nat
  BY DEF GatewayRestarts, DeduperFacts, DeduperInv, DeduperTypeOK
<1>2. /\ <<>> \in Seq(Calls) /\ Len(<<>>) = 0 /\ DOMAIN <<>> = {} /\ MaxTrackedKeys \in Nat
      /\ IsFiniteSet({}) /\ Cardinality({}) = 0 /\ 1 .. 0 = {}
  BY EmptySeq, FS_EmptySet, DeduperAssumption
<1>3. DOMAIN recent' = {} /\ recent' \in [{} -> Nat]
  BY <1>1
<1>4. DeduperTypeOK' /\ RecentBounded' /\ EntriesFromCalls'
  BY <1>1, <1>2, <1>3 DEF DeduperTypeOK, Calls, RecentBounded, EntriesFromCalls
<1>5. SuppressedWasSeen' /\ SlipsThroughOnlyUnderFlood'
  BY <1>1, <1>2 DEF SuppressedWasSeen, SlipsThroughOnlyUnderFlood
<1> QED
  BY <1>1, <1>2, <1>3, <1>4, <1>5 DEF DeduperFacts, DeduperInv

LEMMA DeduperInDelivery ==
  ASSUME DeliveryInv, [DeliveryNext]_deliveryVars
  PROVE  DeduperFacts'
<1>1. DeduperFacts
  BY DEF DeliveryInv
<1>2. ASSUME UNCHANGED <<recent, calls, now>> PROVE DeduperFacts'
  <2>1. UNCHANGED deduperVars
    BY <1>2 DEF deduperVars
  <2> QED
    BY <1>1, <2>1, DeduperStep
<1>3. ASSUME NEW sig \in Signatures, IsDuplicate(sig) PROVE DeduperFacts'
  BY <1>1, <1>3, CallKeepsFacts
<1>4. CASE PhoneMoves
  <2>1. UNCHANGED <<recent, calls>>
    BY <1>4, PhoneMovesFate
  <2>2. now' = now
    BY <1>4 DEF PhoneMoves, PhoneActs, TokenRead, AnswerArrives, RequestFails, TimesOut,
       deduperVars, Phone!TokenResolved, Phone!ChunkDone, Phone!ChunkFailed
  <2> QED
    BY <1>2, <2>1, <2>2
<1>5. CASE (\E i \in DOMAIN late : LateRequestLost(i)) \/ UNCHANGED deliveryVars
  BY <1>2, <1>5 DEF LateRequestLost, deliveryVars, deduperVars
<1>6. ASSUME NEW i \in DOMAIN UnderWay, Handles(i) PROVE DeduperFacts'
  <2>1. PICK e \in Entries, c \in Calls : HandlesEvent(UnderWay[i], e, c)
    BY <1>6, HandlingFacts
  <2> QED
    BY <1>3, <2>1 DEF HandlesEvent
<1>7. ASSUME NEW sig \in Others, OtherSends(sig) PROVE DeduperFacts'
  BY <1>3, <1>7, DeliveryAssumption DEF OtherSends
<1>8. CASE GatewayRestarts
  BY <1>1, <1>8, RestartKeepsFacts
<1>9. CASE TimePasses
  BY <1>1, <1>9, DeduperStep DEF TimePasses, DeduperNext
<1> QED
  BY <1>4, <1>5, <1>6, <1>7, <1>8, <1>9 DEF DeliveryNext, PhoneMoves

-----------------------------------------------------------------------------
\* The inductive invariant holds at the start and is preserved by every step.

LEMMA DeliveryStarts == DeliveryInit /\ PhonePlaces => DeliveryInv
<1> SUFFICES ASSUME DeliveryInit, PhonePlaces PROVE DeliveryInv
  OBVIOUS
<1>1. DeduperFacts
  BY DeduperInitFacts DEF DeliveryInit
<1>2. /\ mine = <<>> /\ late = <<>> /\ handled = <<>> /\ restarts = 0
      /\ history = <<>> /\ drain.pc = "idle"
      /\ fate = [id \in {} |-> "sent"] /\ recent = [s \in {} |-> 0] /\ calls = <<>>
  BY DEF DeliveryInit, DeduperInit, Phone!Init, Phone!Idle
<1>3. /\ <<>> \in Seq(Requests) /\ <<>> \in Seq(Entries) /\ Len(<<>>) = 0 /\ Range(<<>>) = {}
      /\ DOMAIN <<>> = {} /\ {MaxLate, MaxEvents, MaxRestarts, MaxCalls} \subseteq Nat
  BY EmptySeq, DeliveryAssumption, DeduperAssumption DEF Range
<1>4. RequestsInv
  BY <1>2, <1>3 DEF RequestsInv, HistoryBound
<1>5. MeetingInv
  BY <1>2, <1>3 DEF MeetingInv, SentIsMet, MetInOrder
<1>6. StoreInv /\ CallsInv
  BY <1>2, <1>3 DEF StoreInv, CallsInv
<1> QED
  BY <1>1, <1>4, <1>5, <1>6 DEF DeliveryInv

\* Steps that leave the events, their fates and what was handled alone.
LEMMA QuietKeepsEvents ==
  ASSUME DeliveryInv, PhonePlaces', UNCHANGED <<phoneVars, handled, restarts, mine>>
  PROVE  /\ MeetingInv'
         /\ \A r \in Range(mine) : SoundRequest(r)' /\ Covers(r)'
         /\ \A r \in Range(late) : SoundRequest(r)'
<1>1. HistoryGrows /\ FateGrows /\ OnlyHandledSent /\ drain' = drain
  BY PhoneStays DEF DeliveryInv, phoneVars
<1>2. HandledGrows /\ restarts' \in 0 .. MaxRestarts /\ PhonePlaces /\ RequestsInv
  BY DEF HandledGrows, DeliveryInv, MeetingInv
<1>3. MeetingInv'
  BY <1>1, <1>2, MeetingStays
<1> QED
  BY <1>1, <1>2, <1>3, SoundStays, CoversStays DEF RequestsInv

LEMMA DeliveryStep == DeliveryInv /\ PhonePlaces' /\ [DeliveryNext]_deliveryVars => DeliveryInv'
<1> SUFFICES ASSUME DeliveryInv, PhonePlaces', [DeliveryNext]_deliveryVars
             PROVE  (RequestsInv /\ MeetingInv /\ StoreInv /\ CallsInv)'
  BY DeduperInDelivery DEF DeliveryInv
<1>1. /\ mine \in Seq(Requests) /\ late \in Seq(Requests) /\ Len(late) <= MaxLate
      /\ calls \in Seq(Calls) /\ Len(calls) \in Nat /\ Len(calls) <= MaxCalls
      /\ restarts \in 0 .. MaxRestarts /\ MaxCalls \in Nat
  BY LenProperties, DeduperAssumption DEF DeliveryInv, RequestsInv, CallsInv, MeetingInv,
     DeduperFacts, DeduperInv, DeduperTypeOK, Calls
<1>2. CASE PhoneMoves
  <2>1. /\ FateGrows /\ OnlyHandledSent /\ HistoryGrows /\ HistoryBound'
        /\ UNCHANGED <<calls, recent, handled, restarts>>
    BY <1>2, PhoneMovesFate, PhoneMovesHistory DEF DeliveryInv, RequestsInv
  <2>2. MeetingInv'
    BY <1>1, <2>1, MeetingStays
  <2>3. FreshSound'
    BY <2>1, <2>2, FreshAfter DEF MeetingInv
  <2>4. RequestsInv'
    BY <1>2, <2>3, RequestsMove
  <2>5. StoreInv' /\ CallsInv'
    BY <1>1, <2>1, StoreStays, CallsStay
  <2> QED
    BY <2>2, <2>4, <2>5
<1>3. ASSUME UNCHANGED <<phoneVars, handled, restarts, mine>>,
             late' \in Seq(Requests), Len(late') <= MaxLate, Range(late') \subseteq Range(late),
             DOMAIN recent' \cap (Identities \X Sigs) \subseteq DOMAIN recent,
             Len(calls') \in Nat, Len(calls) <= Len(calls'), Len(calls') <= MaxCalls,
             \A m \in 1 .. Len(calls) : calls'[m] = calls[m]
      PROVE  (RequestsInv /\ MeetingInv /\ StoreInv /\ CallsInv)'
  <2>1. /\ MeetingInv'
        /\ \A r \in Range(mine') : SoundRequest(r)' /\ Covers(r)'
        /\ \A r \in Range(late') : SoundRequest(r)'
    BY <1>3, QuietKeepsEvents
  <2>2. RequestsInv'
    BY <1>1, <1>3, <2>1, RequestsStay
  <2>3. HistoryGrows
    BY <1>3, PhoneStays DEF DeliveryInv
  <2>4. StoreInv' /\ CallsInv'
    BY <1>3, <2>3, StoreStays, CallsStay
  <2> QED
    BY <2>1, <2>2, <2>4
<1>4. CASE (\E i \in DOMAIN late : LateRequestLost(i)) \/ TimePasses \/ UNCHANGED deliveryVars
  <2>1. /\ UNCHANGED <<phoneVars, handled, restarts, mine>> /\ recent' = recent /\ calls' = calls
        /\ late' = late \/ \E i \in DOMAIN late : late' = RemoveAt(late, i)
    BY <1>4 DEF LateRequestLost, TimePasses, DeduperTick, deliveryVars, deduperVars
  <2>2. late' \in Seq(Requests) /\ Len(late') <= MaxLate /\ Range(late') \subseteq Range(late)
    BY <1>1, <2>1, LateShrinks DEF DeliveryInv
  <2> QED
    BY <1>1, <1>3, <2>1, <2>2
<1>5. ASSUME NEW i \in DOMAIN UnderWay, Handles(i)
      PROVE  (RequestsInv /\ MeetingInv /\ StoreInv /\ CallsInv)'
  <2>1. PICK e \in Entries, c \in Calls : HandlesEvent(UnderWay[i], e, c)
    BY <1>5, HandlingFacts
  <2> QED
    BY <1>5, <2>1, RequestsHandled, MeetingHandled, StoreHandled, CallsHandled
<1>6. ASSUME NEW sig \in Others, OtherSends(sig)
      PROVE  (RequestsInv /\ MeetingInv /\ StoreInv /\ CallsInv)'
  <2>1. /\ UNCHANGED <<phoneVars, handled, restarts, mine, late>>
        /\ IsDuplicate(sig) /\ Len(calls) < MaxCalls /\ DeduperInv
    BY <1>6 DEF OtherSends, DeliveryInv, DeduperFacts
  <2>2. DOMAIN recent' \subseteq DOMAIN recent \cup {sig}
    BY <2>1, PruneFacts DEF IsDuplicate
  <2>3. sig \notin Identities \X Sigs /\ sig \in Signatures
    BY DeliveryAssumption
  <2>4. PICK c : calls' = Append(calls, c) /\ c \in Calls
    <3>1. PICK dup \in BOOLEAN : dup = (sig \in DOMAIN RecentKept /\ now - RecentKept[sig] < DedupeWindow)
      OBVIOUS
    <3>2. calls' = Append(calls, [sig |-> sig, at |-> now, duplicate |-> dup])
      BY <2>1, <3>1 DEF IsDuplicate
    <3>3. [sig |-> sig, at |-> now, duplicate |-> dup] \in Calls
      BY <2>1, <2>3 DEF Calls, DeduperInv, DeduperTypeOK
    <3> QED
      BY <3>2, <3>3
  <2>5. Len(calls') = Len(calls) + 1 /\ \A m \in 1 .. Len(calls) : calls'[m] = calls[m]
    BY <1>1, <2>4, AppendFacts
  <2>6. Len(calls') \in Nat /\ Len(calls) <= Len(calls') /\ Len(calls') <= MaxCalls
    BY <1>1, <2>1, <2>5
  <2> QED
    BY <1>1, <1>3, <2>1, <2>2, <2>3, <2>5, <2>6
<1>7. CASE GatewayRestarts
  <2>1. /\ UNCHANGED <<phoneVars, handled>> /\ restarts' = restarts + 1 /\ restarts < MaxRestarts
        /\ calls' = <<>> /\ DOMAIN recent' = {}
    BY <1>7 DEF GatewayRestarts
  <2>2. HistoryGrows /\ FateGrows /\ OnlyHandledSent
    BY <2>1, PhoneStays DEF DeliveryInv
  <2>3. restarts' \in 0 .. MaxRestarts
    BY <1>1, <2>1, DeliveryAssumption
  <2> QED
    BY <1>7, <2>1, <2>2, <2>3, RequestsCut, MeetingStays, StoreStays, CallsForgotten
<1> QED
  BY <1>2, <1>4, <1>5, <1>6, <1>7 DEF DeliveryNext, PhoneMoves

LEMMA DeliveryCorrect == DeliverySpec => []DeliveryInv
BY DeliveryStarts, DeliveryStep, PhoneInDelivery, PTL DEF DeliverySpec

-----------------------------------------------------------------------------
\* The gateway first meets the phone's events in the order in which they were
\* accepted, whatever requests and answers are lost, late or cut off.
THEOREM FirstMetInOrder == DeliverySpec => []MetInOrder
<1>1. DeliveryInv => MetInOrder
  BY DEF DeliveryInv, MeetingInv
<1> QED
  BY <1>1, DeliveryCorrect, PTL

\* Whatever the phone counts as sent the gateway stored: the event itself, or
\* the one that made it a duplicate.
THEOREM NothingSentIsMissing == DeliverySpec => []SentIsStored
<1>1. DeliveryInv => SentIsStored
  <2> SUFFICES ASSUME DeliveryInv, NEW id \in DOMAIN fate, fate[id] = "sent"
               PROVE  \E i \in DOMAIN handled :
                         handled[i].stored /\ history[handled[i].id].sig = history[id].sig
    BY DEF SentIsStored
  <2>1. PICK j \in DOMAIN handled : handled[j].id = id
    BY DEF DeliveryInv, MeetingInv, SentIsMet, Met
  <2>2. PICK i \in DOMAIN handled : handled[i].stored /\ SigOf(i) = SigOf(j)
    BY DEF DeliveryInv, StoreInv
  <2> QED
    BY <2>1, <2>2 DEF SigOf
<1> QED
  BY <1>1, DeliveryCorrect, PTL

\* An event is stored twice only across identities, restarts, a whole window or
\* a flood.
THEOREM RetriesAreStoredOnce == DeliverySpec => []StoredTwiceOnlyIf
<1>1. DeliveryInv => StoredTwiceOnlyIf
  <2> SUFFICES ASSUME DeliveryInv, NEW i \in DOMAIN handled, NEW j \in DOMAIN handled,
                      i < j, handled[i].id = handled[j].id,
                      handled[i].stored, handled[j].stored,
                      handled[i].who = handled[j].who, handled[i].epoch = handled[j].epoch,
                      ~(handled[j].at - handled[i].at >= DedupeWindow),
                      ~(handled[j].epoch < restarts)
               PROVE  \E m \in handled[i].call + 1 .. handled[j].call :
                         Cardinality(SeenInWindow(m)) > MaxTrackedKeys
    BY DEF StoredTwiceOnlyIf
  <2>1. /\ CallsInv /\ calls \in Seq(Calls) /\ SlipsThroughOnlyUnderFlood
        /\ restarts \in Nat /\ DedupeWindow \in Nat
    BY DeduperAssumption DEF DeliveryInv, DeduperFacts, DeduperInv, DeduperTypeOK, Calls,
       MeetingInv
  <2>2. /\ handled[i] \in Entries /\ handled[j] \in Entries
        /\ handled[i].call \in Nat \ {0} /\ handled[j].call \in Nat \ {0}
        /\ handled[i].epoch \in Nat
    BY HandledFacts DEF DeliveryInv
  <2>3. handled[i].epoch = restarts /\ handled[j].epoch = restarts
    BY <2>1, <2>2 DEF CallsInv
  <2>4. PICK a, b : a = handled[i].call /\ b = handled[j].call
    OBVIOUS
  <2>5. /\ a < b /\ a <= Len(calls) /\ b <= Len(calls)
        /\ IsCall(handled[i], calls[a]) /\ IsCall(handled[j], calls[b])
    BY <2>1, <2>3, <2>4 DEF CallsInv
  <2>6. DOMAIN calls = 1 .. Len(calls) /\ Len(calls) \in Nat
    BY <2>1, LenProperties
  <2>7. a \in DOMAIN calls /\ b \in DOMAIN calls
    BY <2>2, <2>4, <2>5, <2>6
  <2>8. handled[i].at \in Nat /\ handled[j].at \in Nat
    BY <2>2 DEF Entries
  <2>9. Repeats(a, b) /\ ~calls[b].duplicate
    <3>1. calls[a].sig = calls[b].sig /\ calls[b].at - calls[a].at < DedupeWindow
      BY <2>1, <2>5, <2>8 DEF IsCall
    <3>2. ~calls[b].duplicate
      BY <2>5 DEF IsCall
    <3> QED
      BY <2>5, <3>1, <3>2 DEF Repeats
  <2>10. \E m \in a + 1 .. b : Cardinality(SeenInWindow(m)) > MaxTrackedKeys
    BY <2>1, <2>7, <2>9 DEF SlipsThroughOnlyUnderFlood
  <2> QED
    BY <2>4, <2>10
<1> QED
  BY <1>1, DeliveryCorrect, PTL

\* Among all of Delivery's traffic too, a repetition within the window gets
\* past _is_duplicate only after a flood.
THEOREM OnlyFloodsDefeatDelivery == DeliverySpec => []SlipsThroughOnlyUnderFlood
<1>1. DeliveryInv => SlipsThroughOnlyUnderFlood
  BY DEF DeliveryInv, DeduperFacts
<1> QED
  BY <1>1, DeliveryCorrect, PTL

\* The variables keep the shapes DeliveryTypeOK gives them.
THEOREM DeliveryTypes == DeliverySpec => []DeliveryTypeOK
<1>1. DeliverySpec => PhoneFacts!Spec
  <2>1. DeliveryInit => Phone!Init
    BY DEF DeliveryInit
  <2> QED
    BY <2>1, SamePhone, DeliveryClock, PhoneSteps, PTL DEF DeliverySpec, PhoneFacts!Spec
<1>2. PhoneFacts!Spec => []PhoneFacts!TypeOK
  BY PhoneFacts!FlutterTypes, PhoneConstants
<1>3. PhoneFacts!TypeOK /\ DeliveryInv => DeliveryTypeOK
  <2>1. PhoneFacts!TypeOK => Phone!TypeOK
    BY DEF PhoneFacts!TypeOK, Phone!TypeOK, PhoneFacts!DrainStates, Phone!DrainStates
  <2> QED
    BY <2>1 DEF DeliveryInv, DeduperFacts, DeduperInv, RequestsInv, MeetingInv, Entries, DeliveryTypeOK
<1> QED
  BY <1>1, <1>2, <1>3, DeliveryCorrect, PTL
=============================================================================
