--------------------------- MODULE WireEvent_proofs ---------------------------
(***************************************************************************)
(* Proofs about WireEvent, for every limit and every reported event: what  *)
(* the clients send is within the gateway's limits, nothing is given up    *)
(* needlessly, the React client sends no half characters, and a half that  *)
(* the Flutter client leaves at a cut is the only thing refused.           *)
(***************************************************************************)
EXTENDS WireEvent, SequenceTheorems, FiniteSetTheorems, TLAPS

-----------------------------------------------------------------------------
\* Sets of natural numbers.

LEMMA LeastElement ==
  ASSUME NEW S \in SUBSET Nat, S # {}
  PROVE  \E m \in S : \A k \in S : m <= k
<1>1. PICK n \in S : TRUE
  OBVIOUS
<1>2. IsWellFoundedOn(OpToRel(<, Nat), Nat)
  BY NatLessThanWellFounded
<1>3. PICK m \in S : \A k \in S : <<k, m>> \notin OpToRel(<, Nat)
  BY <1>1, <1>2, WFMin
<1>4. \A k \in S : ~(k < m)
  BY <1>3 DEF OpToRel
<1> QED
  BY <1>4

LEMMA GreatestElement ==
  ASSUME NEW n \in Nat, NEW S \in SUBSET (0 .. n), S # {}
  PROVE  \E m \in S : \A k \in S : k <= m
<1> DEFINE T == {n - k : k \in S}
<1>1. PICK s \in S : TRUE
  OBVIOUS
<1>2. n - s \in T
  BY <1>1
<1>3. T \subseteq Nat
  <2>1. \A k \in 0 .. n : n - k \in Nat
    OBVIOUS
  <2> QED
    BY <2>1
<1>4. PICK t \in T : \A k \in T : t <= k
  BY <1>2, <1>3, LeastElement
<1>5. PICK m \in S : t = n - m
  BY <1>4
<1>6. \A k \in S : n - m <= n - k
  BY <1>4, <1>5
<1>7. \A k \in S : k <= m
  BY <1>6
<1> QED
  BY <1>7

-----------------------------------------------------------------------------
\* Text.

LEMMA LengthOf ==
  ASSUME NEW S, NEW t \in Seq(S)
  PROVE  Len(t) \in Nat /\ DOMAIN t = 1 .. Len(t) /\ \A i \in DOMAIN t : t[i] \in S
BY LenProperties, ElementOfSeq

\* A unit takes one byte more, five more, or none.
LEMMA UnitsOf ==
  ASSUME NEW t \in Seq(Units)
  PROVE  /\ IsFiniteSet(Doubled(t)) /\ Cardinality(Doubled(t)) \in Nat
         /\ IsFiniteSet(Escaped(t)) /\ Cardinality(Escaped(t)) \in Nat
         /\ Cardinality(Doubled(t)) + Cardinality(Escaped(t)) <= Len(t)
<1> DEFINE D == Doubled(t)
           X == Escaped(t)
<1>1. Len(t) \in Nat /\ DOMAIN t = 1 .. Len(t)
  BY LengthOf
<1>2. IsFiniteSet(1 .. Len(t)) /\ Cardinality(1 .. Len(t)) = Len(t)
  BY <1>1, FS_Interval
<1>3. D \subseteq 1 .. Len(t) /\ X \subseteq 1 .. Len(t) /\ D \cap X = {}
  BY <1>1 DEF Doubled, Escaped
<1> HIDE DEF D, X
<1>4. IsFiniteSet(D) /\ IsFiniteSet(X)
  BY <1>2, <1>3, FS_Subset
<1>5. Cardinality(D) \in Nat /\ Cardinality(X) \in Nat
  BY <1>4, FS_CardinalityType
<1>6. Cardinality(D \cup X) = Cardinality(D) + Cardinality(X)
  <2>1. Cardinality(D \cup X) = Cardinality(D) + Cardinality(X) - Cardinality({})
    BY <1>3, <1>4, FS_Union
  <2> QED
    BY <2>1, <1>5, FS_EmptySet
<1>7. Cardinality(D \cup X) <= Len(t)
  <2>1. D \cup X \in SUBSET (1 .. Len(t))
    BY <1>3
  <2> QED
    BY <2>1, <1>2, FS_Subset
<1> QED
  BY <1>4, <1>5, <1>6, <1>7 DEF D, X

\* Text takes a byte for each unit at least, and six at most.
LEMMA BytesOf ==
  ASSUME NEW t \in Seq(Units)
  PROVE  TextBytes(t) \in Nat /\ Len(t) <= TextBytes(t) /\ TextBytes(t) <= 6 * Len(t)
<1>1. PICK n, d, x : /\ n = Len(t) /\ n \in Nat
                     /\ d = Cardinality(Doubled(t)) /\ d \in Nat
                     /\ x = Cardinality(Escaped(t)) /\ x \in Nat
                     /\ d + x <= n
  BY LengthOf, UnitsOf
<1>2. TextBytes(t) = n + d + 5 * x
  BY <1>1 DEF TextBytes
<1>3. n + d + 5 * x \in Nat /\ n <= n + d + 5 * x /\ n + d + 5 * x <= 6 * n
  BY <1>1
<1> QED
  BY <1>1, <1>2, <1>3

LEMMA NoBytes == TextBytes(<<>>) = 0
<1>1. PICK t : t = <<>> /\ t \in Seq(Units) /\ Len(t) = 0
  BY EmptySeq
<1>2. TextBytes(t) \in Nat /\ TextBytes(t) <= 6 * 0
  BY <1>1, BytesOf
<1> QED
  BY <1>1, <1>2

\* Python counts no more characters than a client counts units, but at least one.
LEMMA CharactersOf ==
  ASSUME NEW t \in Seq(Units)
  PROVE  /\ Characters(t) \in Nat /\ Characters(t) <= Len(t)
         /\ t # <<>> => Characters(t) >= 1
<1> DEFINE P == {i \in DOMAIN t : Paired(t, i)}
<1>1. Len(t) \in Nat
  BY LengthOf
<1>2. P \subseteq 1 .. Len(t) - 1
  BY DEF Paired
<1>3. /\ IsFiniteSet(1 .. Len(t) - 1)
      /\ Cardinality(1 .. Len(t) - 1) = IF Len(t) = 0 THEN 0 ELSE Len(t) - 1
  <2>1. PICK m \in Int : m = Len(t) - 1
    BY <1>1
  <2>2. /\ IsFiniteSet(1 .. m)
        /\ Cardinality(1 .. m) = IF 1 > m THEN 0 ELSE m - 1 + 1
    BY FS_Interval
  <2>3. IF 1 > m THEN m <= 0 ELSE m - 1 + 1 = m
    OBVIOUS
  <2> QED
    BY <1>1, <2>1, <2>2, <2>3
<1>4. Characters(t) = Len(t) - Cardinality(P)
  BY DEF Characters
<1> HIDE DEF P
<1>5. IsFiniteSet(P) /\ Cardinality(P) <= Cardinality(1 .. Len(t) - 1)
  BY <1>2, <1>3, FS_Subset
<1>6. Cardinality(P) \in Nat
  BY <1>5, FS_CardinalityType
<1>7. t # <<>> => Len(t) # 0
  BY EmptySeq
<1> QED
  BY <1>1, <1>3, <1>4, <1>5, <1>6, <1>7

\* Every unit is whole, but for a first half that Dart may leave at the end.
AtMostCut(t) ==
    \A i \in DOMAIN t : ~Whole(t, i) => ~React /\ i = Len(t) /\ t[i] = "h"

\* Both clients' caps take a beginning of at most n units; TypeScript's may be
\* one unit shorter, and never cuts a character in two.
LEMMA CapFacts ==
  ASSUME NEW S, NEW t \in Seq(S), NEW n \in Nat
  PROVE  /\ Cap(t, n) \in Seq(S) /\ Len(Cap(t, n)) <= n /\ Len(Cap(t, n)) <= Len(t)
         /\ n >= 2 /\ t # <<>> => Cap(t, n) # <<>>
         /\ ~React /\ n < Len(t) => Len(Cap(t, n)) = n /\ \A i \in 1 .. n : Cap(t, n)[i] = t[i]
         /\ n = 0 => Cap(t, n) = <<>>
         /\ AtMostCut(t) => AtMostCut(Cap(t, n))
<1>1. Len(t) \in Nat /\ DOMAIN t = 1 .. Len(t) /\ \A i \in 1 .. Len(t) : t[i] \in S
  BY LengthOf
<1>2. CASE Len(t) <= n
  <2>1. Cap(t, n) = t
    BY <1>2 DEF Cap
  <2>2. n = 0 => t = <<>>
    BY <1>1, <1>2, EmptySeq
  <2>3. ~(n < Len(t))
    BY <1>1, <1>2
  <2> QED
    BY <1>2, <2>1, <2>2, <2>3
<1>3. CASE Len(t) > n
  <2>1. PICK m : m = (IF React /\ n > 0 /\ t[n] = "h" THEN n - 1 ELSE n) /\ m \in 0 .. n
    OBVIOUS
  <2>2. Cap(t, n) = SubSeq(t, 1, m)
    BY <1>1, <1>3, <2>1 DEF Cap
  <2>3. /\ SubSeq(t, 1, m) \in Seq(S) /\ Len(SubSeq(t, 1, m)) = m
        /\ \A i \in 1 .. m : SubSeq(t, 1, m)[i] = t[i]
    <3>1. \A i \in 1 .. m : t[i] \in S
      BY <1>1, <1>3, <2>1
    <3>2. /\ SubSeq(t, 1, m) \in Seq(S)
          /\ Len(SubSeq(t, 1, m)) = IF 1 <= m THEN m - 1 + 1 ELSE 0
          /\ \A i \in 1 .. m - 1 + 1 : SubSeq(t, 1, m)[i] = t[1 + i - 1]
      BY <2>1, <3>1, SubSeqProperties
    <3> QED
      BY <2>1, <3>2
  <2>4. n >= 2 => SubSeq(t, 1, m) # <<>>
    <3>1. n >= 2 => Len(SubSeq(t, 1, m)) # 0
      BY <2>1, <2>3
    <3> QED
      BY <3>1, EmptySeq
  <2>5. n = 0 => SubSeq(t, 1, m) = <<>>
    <3>1. n = 0 => m = 0
      BY <2>1
    <3> QED
      BY <2>3, <3>1, EmptySeq
  <2>6. ASSUME AtMostCut(t) PROVE AtMostCut(SubSeq(t, 1, m))
    <3> DEFINE s == SubSeq(t, 1, m)
    <3> SUFFICES ASSUME NEW i \in 1 .. m, ~Whole(s, i)
                 PROVE  ~React /\ i = m /\ t[i] = "h"
      BY <2>3, LenProperties DEF AtMostCut
    <3> HIDE DEF s
    <3>1. /\ i \in 1 .. Len(t) /\ i # Len(t) /\ i \in DOMAIN t
          /\ s[i] = t[i] /\ Len(s) = m /\ \A j \in 1 .. m : s[j] = t[j]
      <4>1. m \in Nat /\ m <= n /\ n < Len(t)
        BY <1>1, <1>3, <2>1
      <4>2. i \in 1 .. Len(t) /\ i # Len(t)
        <5>1. \A l, k \in Nat : k <= n /\ n < l => \A j \in 1 .. k : j \in 1 .. l /\ j # l
          OBVIOUS
        <5>2. Len(t) \in Nat
          BY <1>1
        <5> QED
          BY <4>1, <5>1, <5>2
      <4>3. Len(s) = m /\ \A j \in 1 .. m : s[j] = t[j]
        BY <2>3 DEF s
      <4> QED
        BY <1>1, <4>2, <4>3
    <3>2. Whole(t, i) /\ t[i] \in {"h", "l"} /\ ~Paired(s, i) /\ ~Paired(s, i - 1)
      BY <2>6, <3>1 DEF AtMostCut, Whole
    <3>3. ~Paired(t, i - 1)
      <4>1. i - 1 \in 1 .. Len(t) - 1 => i - 1 \in 1 .. m - 1 /\ i - 1 \in 1 .. m /\ i - 1 + 1 \in 1 .. m
        BY <1>1, <2>1
      <4> QED
        BY <3>1, <3>2, <4>1 DEF Paired
    <3>4. Paired(t, i)
      BY <3>2, <3>3 DEF Whole
    <3>5. i = m
      <4>1. i # m => i \in 1 .. m - 1 /\ i + 1 \in 1 .. m
        BY <2>1
      <4> QED
        BY <3>1, <3>2, <3>4, <4>1 DEF Paired
    <3>6. t[i] = "h" /\ t[i + 1] = "l"
      BY <3>4 DEF Paired
    <3>7. ~React
      <4> SUFFICES ASSUME React PROVE FALSE
        OBVIOUS
      <4>1. CASE t[n] = "h" /\ n > 0
        <5>1. m = n - 1 /\ i + 1 = n
          BY <2>1, <3>5, <4>1
        <5> QED
          BY <3>6, <4>1, <5>1
      <4>2. CASE ~(t[n] = "h" /\ n > 0)
        <5>1. m = n /\ n > 0
          BY <2>1, <3>5, <4>2
        <5> QED
          BY <3>5, <3>6, <4>2, <5>1
      <4> QED
        BY <4>1, <4>2
    <3> QED
      BY <3>5, <3>6, <3>7
  <2>7. ~React => m = n
    BY <2>1
  <2>8. m <= n /\ m <= Len(t)
    BY <1>1, <1>3, <2>1
  <2>9. ~React => Len(SubSeq(t, 1, m)) = n /\ \A i \in 1 .. n : SubSeq(t, 1, m)[i] = t[i]
    BY <2>3, <2>7
  <2> QED
    BY <2>2, <2>3, <2>4, <2>5, <2>6, <2>8, <2>9
<1> QED
  BY <1>1, <1>2, <1>3

LEMMA FewerBytes ==
  ASSUME NEW m \in Nat, NEW n \in Nat, NEW d \in Nat, NEW e \in Nat, NEW x \in Nat, NEW y \in Nat,
         e <= d, y <= x, NEW p, p = m + d + 5 * x, NEW q, q = n + e + 5 * y
  PROVE  q <= p - (m - n)
OBVIOUS

\* Of a text without wide characters, a cut takes a byte for each unit at least.
LEMMA CutBytes ==
  ASSUME NEW t \in Seq(Units), \A i \in DOMAIN t : ~Paired(t, i),
         NEW s \in Seq(Units), Len(s) <= Len(t), \A i \in 1 .. Len(s) : s[i] = t[i]
  PROVE  TextBytes(s) <= TextBytes(t) - (Len(t) - Len(s))
<1>1. PICK m, n : /\ m = Len(t) /\ m \in Nat /\ DOMAIN t = 1 .. m
                  /\ n = Len(s) /\ n \in Nat /\ DOMAIN s = 1 .. n /\ n <= m
  BY LengthOf
<1>2. \A i : ~Paired(t, i)
  BY <1>1 DEF Paired
<1>3. \A i : ~Paired(s, i)
  <2> SUFFICES ASSUME NEW i, Paired(s, i) PROVE FALSE
    OBVIOUS
  <2>1. i \in 1 .. n - 1 /\ s[i] = "h" /\ s[i + 1] = "l"
    BY <1>1 DEF Paired
  <2>2. i \in 1 .. m - 1 /\ i \in 1 .. n /\ i + 1 \in 1 .. n
    BY <1>1, <2>1
  <2> QED
    BY <1>1, <1>2, <2>1, <2>2 DEF Paired
<1>4. Doubled(s) \in SUBSET Doubled(t) /\ Escaped(s) \in SUBSET Escaped(t)
  BY <1>1, <1>2, <1>3 DEF Doubled, Escaped
<1>5. /\ Cardinality(Doubled(s)) <= Cardinality(Doubled(t))
      /\ Cardinality(Escaped(s)) <= Cardinality(Escaped(t))
  BY <1>4, UnitsOf, FS_Subset
<1>6. PICK d, x, e, y : /\ d = Cardinality(Doubled(t)) /\ d \in Nat
                        /\ x = Cardinality(Escaped(t)) /\ x \in Nat
                        /\ e = Cardinality(Doubled(s)) /\ e \in Nat
                        /\ y = Cardinality(Escaped(s)) /\ y \in Nat
                        /\ e <= d /\ y <= x
  BY <1>5, UnitsOf
<1>7. TextBytes(t) = m + d + 5 * x /\ TextBytes(s) = n + e + 5 * y
  BY <1>1, <1>6 DEF TextBytes
<1>8. m \in Nat /\ n \in Nat /\ d \in Nat /\ e \in Nat /\ x \in Nat /\ y \in Nat /\ e <= d /\ y <= x
  BY <1>1, <1>6
<1>9. TextBytes(s) <= TextBytes(t) - (m - n)
  BY <1>7, <1>8, FewerBytes
<1> QED
  BY <1>1, <1>9

-----------------------------------------------------------------------------
\* The context.

IsContext(c) ==
    /\ IsFiniteSet(DOMAIN c)
    /\ \A k \in DOMAIN c : k \in Seq(Units) /\ c[k] \in Seq(Units)

\* Within the limits of the gateway.
IsShortContext(c) ==
    /\ IsContext(c) /\ Cardinality(DOMAIN c) <= MaxEntries
    /\ \A k \in DOMAIN c : k # <<>> /\ Len(k) <= MaxKey /\ Len(c[k]) <= MaxValue

LEMMA ContextBytesOf ==
  ASSUME NEW c, IsContext(c)
  PROVE  ContextBytes(c) \in Nat
<1> DEFINE part == [k \in DOMAIN c |-> {k} \X (1 .. TextBytes(k) + TextBytes(c[k]) + FieldBytes)]
           parts == {part[k] : k \in DOMAIN c}
<1>1. part \in Surjection(DOMAIN c, parts)
  BY DEF Surjection
<1>2. IsFiniteSet(parts)
  <2> HIDE DEF parts, part
  <2> QED
    BY <1>1, FS_Surjection DEF IsContext
<1>3. \A T \in parts : IsFiniteSet(T)
  <2> SUFFICES ASSUME NEW k \in DOMAIN c PROVE IsFiniteSet(part[k])
    OBVIOUS
  <2>1. PICK n : n = TextBytes(k) + TextBytes(c[k]) + FieldBytes /\ n \in Nat
    <3>1. k \in Seq(Units) /\ c[k] \in Seq(Units)
      BY DEF IsContext
    <3>2. TextBytes(k) \in Nat /\ TextBytes(c[k]) \in Nat /\ FieldBytes \in Nat
      BY <3>1, BytesOf, WireAssumption
    <3> QED
      BY <3>2
  <2>2. IsFiniteSet({k}) /\ IsFiniteSet(1 .. n)
    <3>1. IsFiniteSet(1 .. n)
      BY <2>1, FS_Interval
    <3> QED
      BY <3>1, FS_Singleton
  <2>3. IsFiniteSet({k} \X (1 .. n))
    BY <2>2, FS_Product
  <2> QED
    BY <2>1, <2>3
<1>4. ContextBytes(c) = Cardinality(UNION parts)
  <2>1. parts = {{k} \X (1 .. TextBytes(k) + TextBytes(c[k]) + FieldBytes) : k \in DOMAIN c}
    OBVIOUS
  <2> QED
    BY <2>1 DEF ContextBytes
<1> HIDE DEF parts
<1> QED
  BY <1>2, <1>3, <1>4, FS_UNION, FS_CardinalityType

LEMMA NoContextFacts == IsShortContext(NoContext) /\ ContextBytes(NoContext) = 0
<1>1. DOMAIN NoContext = {}
  BY DEF NoContext
<1>2. IsShortContext(NoContext)
  BY <1>1, FS_EmptySet, WireAssumption DEF IsShortContext, IsContext
<1>3. UNION {{k} \X (1 .. TextBytes(k) + TextBytes(NoContext[k]) + FieldBytes) :
             k \in DOMAIN NoContext} = {}
  BY <1>1
<1> QED
  BY <1>2, <1>3, FS_EmptySet DEF ContextBytes

\* What CappedContext makes of a list of entries: the indices it keeps, and the
\* keys they get.
LEMMA CappedContextFacts ==
  ASSUME NEW entries \in Seq([key : Seq(Units), value : Seq(Units)])
  PROVE  /\ IsShortContext(CappedContext(entries))
         /\ \A k \in DOMAIN CappedContext(entries) : \E i, j \in DOMAIN entries :
               /\ k = Cap(entries[i].key, MaxKey)
               /\ CappedContext(entries)[k] = Cap(entries[j].value, MaxValue)
<1> DEFINE named == {i \in DOMAIN entries : entries[i].key # <<>>}
           kept == {i \in named : Cardinality({j \in named : j <= i}) <= MaxEntries}
           At(k) == {i \in kept : Cap(entries[i].key, MaxKey) = k}
           keys == {Cap(entries[i].key, MaxKey) : i \in kept}
           c == CappedContext(entries)
<1>1. Len(entries) \in Nat /\ DOMAIN entries = 1 .. Len(entries)
  BY LenProperties
<1>2. \A i \in DOMAIN entries : entries[i].key \in Seq(Units) /\ entries[i].value \in Seq(Units)
  <2>1. \A i \in DOMAIN entries : entries[i] \in [key : Seq(Units), value : Seq(Units)]
    BY LenProperties, ElementOfSeq
  <2> QED
    BY <2>1
<1>3. DOMAIN c = keys /\ \A k \in keys : c[k] = Cap(entries[Max(At(k))].value, MaxValue)
  BY DEF CappedContext
<1>4. named \subseteq DOMAIN entries /\ kept \subseteq named /\ \A i \in named : entries[i].key # <<>>
  OBVIOUS
<1>5. \A k \in keys : At(k) # {} /\ At(k) \subseteq kept
  OBVIOUS
<1>6. IsFiniteSet(kept) /\ Cardinality(kept) \in Nat /\ Cardinality(kept) <= MaxEntries
  <2>1. \A i \in kept : Cardinality({j \in named : j <= i}) <= MaxEntries
    OBVIOUS
  <2> HIDE DEF named, kept
  <2>2. named \in SUBSET (1 .. Len(entries)) /\ kept \in SUBSET named
    BY <1>1, <1>4
  <2>3. IsFiniteSet(named) /\ IsFiniteSet(kept)
    <3>1. IsFiniteSet(1 .. Len(entries))
      BY <1>1, FS_Interval
    <3>2. IsFiniteSet(named)
      BY <2>2, <3>1, FS_Subset
    <3> QED
      BY <2>2, <3>2, FS_Subset
  <2>4. Cardinality(kept) \in Nat
    BY <2>3, FS_CardinalityType
  <2>5. CASE kept = {}
    BY <2>3, <2>4, <2>5, FS_EmptySet, WireAssumption
  <2>6. CASE kept # {}
    <3>1. kept \in SUBSET (0 .. Len(entries))
      BY <1>1, <2>2
    <3>2. PICK m \in kept : \A i \in kept : i <= m
      BY <1>1, <2>6, <3>1, GreatestElement
    <3>3. PICK S : S = {j \in named : j <= m}
      OBVIOUS
    <3>4. kept \in SUBSET S /\ S \in SUBSET named
      BY <2>2, <3>2, <3>3
    <3>5. IsFiniteSet(S) /\ Cardinality(kept) <= Cardinality(S)
      BY <2>3, <3>4, FS_Subset
    <3>6. Cardinality(S) \in Nat
      BY <3>5, FS_CardinalityType
    <3>7. Cardinality(S) <= MaxEntries
      BY <2>1, <3>3
    <3> QED
      BY <2>3, <2>4, <3>5, <3>6, <3>7, WireAssumption
  <2> QED
    BY <2>5, <2>6
<1>7. IsFiniteSet(keys) /\ Cardinality(keys) <= MaxEntries
  <2> DEFINE f == [i \in kept |-> Cap(entries[i].key, MaxKey)]
  <2>1. f \in Surjection(kept, keys)
    BY DEF Surjection
  <2> HIDE DEF f, kept, keys
  <2>2. IsFiniteSet(keys) /\ Cardinality(keys) <= Cardinality(kept)
    BY <1>6, <2>1, FS_Surjection
  <2>3. Cardinality(keys) \in Nat
    BY <2>2, FS_CardinalityType
  <2> QED
    BY <1>6, <2>2, <2>3, WireAssumption
<1>8. \A k \in keys : Max(At(k)) \in DOMAIN entries
  <2> SUFFICES ASSUME NEW k \in keys PROVE Max(At(k)) \in DOMAIN entries
    OBVIOUS
  <2>1. PICK A : A = At(k)
    OBVIOUS
  <2>2. A # {} /\ A \subseteq kept
    BY <1>5, <2>1
  <2> HIDE DEF named, kept, keys, At
  <2>3. A \in SUBSET (0 .. Len(entries)) /\ A \subseteq DOMAIN entries /\ A \subseteq Int
    BY <1>1, <1>4, <2>2
  <2>4. PICK m \in A : \A i \in A : i <= m
    BY <1>1, <2>2, <2>3, GreatestElement
  <2>5. \A i \in A : m >= i
    BY <2>3, <2>4
  <2>6. Max(A) \in A
    BY <2>4, <2>5 DEF Max
  <2> QED
    BY <2>1, <2>3, <2>6
<1>9. ASSUME NEW k \in keys
      PROVE  \E i, j \in DOMAIN entries :
               /\ entries[i].key # <<>> /\ k = Cap(entries[i].key, MaxKey)
               /\ c[k] = Cap(entries[j].value, MaxValue)
  <2>1. PICK i \in kept : k = Cap(entries[i].key, MaxKey)
    OBVIOUS
  <2>2. i \in DOMAIN entries /\ entries[i].key # <<>>
    BY <1>4, <2>1
  <2>3. PICK j : j = Max(At(k)) /\ j \in DOMAIN entries
    BY <1>8
  <2>4. c[k] = Cap(entries[j].value, MaxValue)
    BY <1>3, <2>3
  <2> HIDE DEF named, kept, keys, At, c
  <2> QED
    BY <2>1, <2>2, <2>3, <2>4
<1> HIDE DEF named, kept, keys, At
<1>10. ASSUME NEW k \in DOMAIN c
       PROVE  /\ k \in Seq(Units) /\ k # <<>> /\ Len(k) <= MaxKey
              /\ c[k] \in Seq(Units) /\ Len(c[k]) <= MaxValue
  <2>1. PICK i, j \in DOMAIN entries : /\ entries[i].key # <<>> /\ k = Cap(entries[i].key, MaxKey)
                                       /\ c[k] = Cap(entries[j].value, MaxValue)
    BY <1>3, <1>9
  <2> HIDE DEF c
  <2>2. MaxKey \in Nat /\ MaxKey >= 2 /\ MaxValue \in Nat
    BY WireAssumption
  <2>3. entries[i].key \in Seq(Units) /\ entries[j].value \in Seq(Units)
    BY <1>2
  <2>4. k \in Seq(Units) /\ k # <<>> /\ Len(k) <= MaxKey
    <3>1. PICK t \in Seq(Units) : t = entries[i].key /\ t # <<>> /\ k = Cap(t, MaxKey)
      BY <2>1, <2>3
    <3>2. PICK n \in Nat : n = MaxKey /\ n >= 2
      BY <2>2
    <3>3. Cap(t, n) \in Seq(Units) /\ Len(Cap(t, n)) <= n /\ (n >= 2 /\ t # <<>> => Cap(t, n) # <<>>)
      BY CapFacts
    <3> QED
      BY <3>1, <3>2, <3>3
  <2>5. c[k] \in Seq(Units) /\ Len(c[k]) <= MaxValue
    <3>1. PICK t \in Seq(Units) : t = entries[j].value /\ c[k] = Cap(t, MaxValue)
      BY <2>1, <2>3
    <3>2. Cap(t, MaxValue) \in Seq(Units) /\ Len(Cap(t, MaxValue)) <= MaxValue
      BY <2>2, CapFacts
    <3> QED
      BY <3>1, <3>2
  <2> QED
    BY <2>4, <2>5
<1>11. IsShortContext(c)
  <2>1. IsFiniteSet(DOMAIN c) /\ Cardinality(DOMAIN c) <= MaxEntries
    BY <1>3, <1>7
  <2> HIDE DEF c
  <2> QED
    BY <1>10, <2>1 DEF IsShortContext, IsContext
<1> QED
  BY <1>3, <1>9, <1>11

-----------------------------------------------------------------------------
\* The object being built.

\* Within every limit of the gateway but that of the whole event.
IsShort(w) ==
    /\ w = [text |-> w.text, context |-> w.context, app |-> w.app, id |-> w.id]
    /\ w.text = [f \in DOMAIN w.text |-> w.text[f]]
    /\ "message" \in DOMAIN w.text /\ DOMAIN w.text \subseteq Fields
    /\ \A f \in DOMAIN w.text : w.text[f] \in Seq(Units) /\ Len(w.text[f]) <= MaxLength[f]
    /\ IsShortContext(w.context)
    /\ w.app \in Seq({"a"}) /\ Len(w.app) <= MaxApp
    /\ w.id \in {"none", "valid"}

LEMMA SizeOf ==
  ASSUME NEW w, IsShort(w)
  PROVE  /\ Size(w) \in Nat /\ Len(w.app) \in Nat /\ ContextBytes(w.context) \in Nat
         /\ \A f : FieldSize(w, f) \in Nat
<1>1. Len(w.app) \in Nat
  BY LengthOf DEF IsShort
<1>2. ContextBytes(w.context) \in Nat
  BY ContextBytesOf DEF IsShort, IsShortContext
<1>3. \A f : FieldSize(w, f) \in Nat
  <2> SUFFICES ASSUME NEW f PROVE FieldSize(w, f) \in Nat
    OBVIOUS
  <2>1. CASE f \in DOMAIN w.text
    <3>1. TextBytes(w.text[f]) \in Nat
      BY <2>1, BytesOf DEF IsShort
    <3> QED
      BY <2>1, <3>1, WireAssumption DEF FieldSize
  <2>2. CASE f \notin DOMAIN w.text
    BY <2>2 DEF FieldSize
  <2> QED
    BY <2>1, <2>2
<1>4. Size(w) \in Nat
  <2>1. PICK a, c, m, e, t, u, x :
          /\ a = Len(w.app) /\ c = ContextBytes(w.context) /\ {a, c} \subseteq Nat
          /\ m = FieldSize(w, "message") /\ e = FieldSize(w, "error") /\ {m, e} \subseteq Nat
          /\ t = FieldSize(w, "stack") /\ u = FieldSize(w, "url") /\ {t, u} \subseteq Nat
          /\ x = FieldSize(w, "app_version") /\ x \in Nat
    BY <1>1, <1>2, <1>3
  <2>2. Size(w) = Overhead + a + c + m + e + t + u + x
    BY <2>1 DEF Size
  <2>3. {a, c, m, e, t, u, x, Overhead} \subseteq Nat
    BY <2>1, WireAssumption
  <2> QED
    BY <2>2, <2>3
<1> QED
  BY <1>1, <1>2, <1>3, <1>4

\* The size depends on nothing else.
LEMMA SameSize ==
  ASSUME NEW v, NEW w, v.app = w.app, v.context = w.context, DOMAIN v.text = DOMAIN w.text,
         \A f \in DOMAIN w.text : v.text[f] = w.text[f]
  PROVE  Size(v) = Size(w)
<1>1. \A f : FieldSize(v, f) = FieldSize(w, f)
  BY DEF FieldSize
<1> QED
  BY <1>1 DEF Size

LEMMA FieldNames == Fields = {"message", "error", "stack", "url", "app_version"}
BY WireAssumption

LEMMA AppFacts ==
  ASSUME NEW app \in Seq(Units)
  PROVE  App(app) \in Seq({"a"}) /\ Len(App(app)) <= MaxApp
<1>1. MaxApp \in Nat /\ MaxApp >= 1
  BY WireAssumption
<1>2. CASE React
  <2>1. PICK t : t = [i \in DOMAIN app |-> "a"]
    OBVIOUS
  <2>2. t \in Seq({"a"})
    BY <2>1, LengthOf
  <2>3. Cap(t, MaxApp) \in Seq({"a"}) /\ Len(Cap(t, MaxApp)) <= MaxApp
    BY <1>1, <2>2, CapFacts
  <2>4. <<"a">> \in Seq({"a"}) /\ Len(<<"a">>) = 1
    OBVIOUS
  <2>5. App(app) = Cap(t, MaxApp) \/ App(app) = <<"a">>
    BY <1>2, <2>1 DEF App
  <2> QED
    BY <1>1, <2>3, <2>4, <2>5
<1>3. CASE ~React
  <2>1. CASE Range(app) = {"a"}
    <3>1. app \in Seq({"a"})
      <4>1. \A i \in DOMAIN app : app[i] \in {"a"}
        BY <2>1 DEF Range
      <4>2. \A i \in 1 .. Len(app) : app[i] \in {"a"}
        BY <4>1, LengthOf
      <4>3. app = [i \in 1 .. Len(app) |-> app[i]] /\ Len(app) \in Nat
        BY LenProperties
      <4> QED
        BY <4>2, <4>3
    <3> QED
      BY <1>1, <1>3, <2>1, <3>1, CapFacts DEF App
  <2>2. CASE Range(app) # {"a"}
    <3>1. App(app) = <<>>
      BY <1>3, <2>2 DEF App
    <3>2. <<>> \in Seq({"a"}) /\ Len(<<>>) = 0
      BY EmptySeq
    <3> QED
      BY <1>1, <3>1, <3>2
  <2> QED
    BY <2>1, <2>2
<1> QED
  BY <1>2, <1>3

LEMMA ReportOf == event \in Inputs => IsReport(event)
BY WireAssumption

LEMMA FullFacts ==
  ASSUME event \in Inputs
  PROVE  IsShort(Full) /\ DOMAIN Full.text = DOMAIN event.text
<1>1. /\ Full.text = [f \in DOMAIN event.text |-> Cap(event.text[f], MaxLength[f])]
      /\ Full.context = CappedContext(event.context) /\ Full.app = App(event.app)
      /\ Full.id = WireId(event.id)
      /\ Full = [text |-> Full.text, context |-> Full.context, app |-> Full.app, id |-> Full.id]
  BY DEF Full
<1>2. /\ "message" \in DOMAIN event.text /\ DOMAIN event.text \subseteq Fields
      /\ \A f \in DOMAIN event.text : event.text[f] \in Seq(Units) /\ MaxLength[f] \in Nat
  BY ReportOf, WireAssumption DEF IsReport
<1>3. \A f \in DOMAIN event.text :
         Cap(event.text[f], MaxLength[f]) \in Seq(Units) /\ Len(Cap(event.text[f], MaxLength[f])) <= MaxLength[f]
  BY <1>2, CapFacts
<1>4. IsShortContext(CappedContext(event.context))
  BY ReportOf, CappedContextFacts DEF IsReport
<1>5. App(event.app) \in Seq({"a"}) /\ Len(App(event.app)) <= MaxApp
  BY ReportOf, AppFacts DEF IsReport
<1>6. WireId(event.id) \in {"none", "valid"}
  BY DEF WireId
<1> QED
  BY <1>1, <1>2, <1>3, <1>4, <1>5, <1>6 DEF IsShort

\* A field is cut further, or the context dropped: what stays is within the limits.
LEMMA ContextDropped ==
  ASSUME NEW w, IsShort(w), NEW v, v = [w EXCEPT !.context = NoContext]
  PROVE  /\ IsShort(v) /\ v.context = NoContext
         /\ v.text = w.text /\ v.app = w.app
<1>1. w = [text |-> w.text, context |-> w.context, app |-> w.app, id |-> w.id]
  BY DEF IsShort
<1>2. v = [text |-> w.text, context |-> NoContext, app |-> w.app, id |-> w.id]
  BY <1>1
<1>3. v.text = w.text /\ v.context = NoContext /\ v.app = w.app /\ v.id = w.id
  BY <1>2
<1> QED
  BY <1>2, <1>3, NoContextFacts DEF IsShort

LEMMA FieldCut ==
  ASSUME NEW w, IsShort(w), NEW f \in DOMAIN w.text, NEW n \in Nat,
         NEW v, v = [w EXCEPT !.text[f] = Cap(@, n)]
  PROVE  /\ IsShort(v) /\ v.context = w.context /\ v.app = w.app
         /\ DOMAIN v.text = DOMAIN w.text /\ v.text[f] = Cap(w.text[f], n)
         /\ \A g \in DOMAIN w.text : g # f => v.text[g] = w.text[g]
<1>1. w = [text |-> w.text, context |-> w.context, app |-> w.app, id |-> w.id]
  BY DEF IsShort
<1>2. PICK t : t = [w.text EXCEPT ![f] = Cap(@, n)]
  OBVIOUS
<1>3. v = [text |-> t, context |-> w.context, app |-> w.app, id |-> w.id]
  BY <1>1, <1>2
<1>4. v.text = t /\ v.context = w.context /\ v.app = w.app /\ v.id = w.id
  BY <1>3
<1>5. /\ DOMAIN t = DOMAIN w.text /\ t[f] = Cap(w.text[f], n)
      /\ \A g \in DOMAIN w.text : g # f => t[g] = w.text[g]
      /\ t = [g \in DOMAIN t |-> t[g]]
  BY <1>2 DEF IsShort
<1>6. w.text[f] \in Seq(Units) /\ Len(w.text[f]) <= MaxLength[f]
  BY DEF IsShort
<1>7. Cap(w.text[f], n) \in Seq(Units) /\ Len(Cap(w.text[f], n)) <= Len(w.text[f])
  BY <1>6, CapFacts
<1>8. Len(Cap(w.text[f], n)) <= MaxLength[f]
  <2>1. Len(w.text[f]) \in Nat /\ Len(Cap(w.text[f], n)) \in Nat
    BY <1>6, <1>7, LengthOf
  <2>2. MaxLength[f] \in Nat
    BY WireAssumption DEF IsShort
  <2> QED
    BY <1>6, <1>7, <2>1, <2>2
<1>9. \A g \in DOMAIN t : t[g] \in Seq(Units) /\ Len(t[g]) <= MaxLength[g]
  BY <1>5, <1>7, <1>8 DEF IsShort
<1> QED
  BY <1>3, <1>4, <1>5, <1>9 DEF IsShort

\* What a field may be cut for: the size of the event without all that goes before.
NeededFor(f) == Size(Without(Before(f))) > MaxEventBytes

TooLarge == Size(Full) > MaxEventBytes

\* All of this depends on the reported event alone, which stays.
LEMMA EventKept ==
  ASSUME event' = event
  PROVE  /\ Full' = Full /\ React' = React
         /\ StackHasWide' = StackHasWide /\ TooLarge' = TooLarge
         /\ \A f : NeededFor(f)' = NeededFor(f)
         /\ \A f : Before(f)' = Before(f)
<1>1. React' = React
  BY DEF React
<1>2. \A t, n : Cap(t, n)' = Cap(t, n)
  BY DEF Cap, React
<1>3. CappedContext(event.context)' = CappedContext(event.context)
  BY DEF CappedContext, Cap, React
<1>4. App(event.app)' = App(event.app)
  BY DEF App, Cap, React
<1>5. WireId(event.id)' = WireId(event.id)
  BY DEF WireId, React
<1>6. [f \in DOMAIN event.text |-> Cap(event.text[f], MaxLength[f])]'
        = [f \in DOMAIN event.text |-> Cap(event.text[f], MaxLength[f])]
  BY DEF Cap, React
<1>7. Full' = Full
  BY <1>3, <1>4, <1>5, <1>6 DEF Full
<1>8. StackHasWide' = StackHasWide
  BY <1>7 DEF StackHasWide, Paired
<1>9. \A f : Before(f)' = Before(f)
  BY DEF Before, React
<1>10. \A S : Without(S)' = Without(S)
  BY <1>7 DEF Without
<1>11. \A f : NeededFor(f)' = NeededFor(f)
  BY <1>9, <1>10 DEF NeededFor
<1>12. TooLarge' = TooLarge
  BY <1>7 DEF TooLarge
<1> QED
  BY <1>1, <1>7, <1>8, <1>9, <1>11, <1>12

\* The size of a field is bounded by its length.
LEMMA FieldAtMost ==
  ASSUME NEW w, IsShort(w), NEW f, NEW n \in Nat, f \in DOMAIN w.text => Len(w.text[f]) <= n
  PROVE  FieldSize(w, f) \in Nat /\ FieldSize(w, f) <= FieldBytes + 6 * n
<1>1. FieldBytes \in Nat
  BY WireAssumption
<1>2. CASE f \in DOMAIN w.text
  <2>1. PICK b, k : /\ b = TextBytes(w.text[f]) /\ b \in Nat
                    /\ k = Len(w.text[f]) /\ k \in Nat /\ k <= n
                    /\ b <= 6 * k
    BY <1>2, BytesOf, LengthOf DEF IsShort
  <2>2. FieldSize(w, f) = FieldBytes + b
    BY <1>2, <2>1 DEF FieldSize
  <2> QED
    BY <1>1, <2>1, <2>2
<1>3. CASE f \notin DOMAIN w.text
  BY <1>1, <1>3 DEF FieldSize
<1> QED
  BY <1>2, <1>3

\* The sums of the next two lemmas.
LEMMA SumsFit ==
  ASSUME NEW o \in Nat, NEW a \in Nat, NEW b \in Nat, NEW c \in Nat, NEW v \in Nat, NEW limit \in Nat,
         NEW A \in Nat, a <= A, o + A + 3 * b + 6 * (2 * c + v) <= limit,
         NEW m \in Nat, NEW e \in Nat, NEW x \in Nat, x <= b + 6 * v
  PROVE  /\ \A t, u \in Nat : b <= 6 * c /\ m <= b /\ e <= b /\ t <= b /\ u <= b
                => o + a + 0 + m + e + t + u + x <= limit
         /\ m <= b + 6 * c /\ e <= b + 6 * c => o + a + 0 + m + e + 0 + 0 + x <= limit
OBVIOUS

\* Once TypeScript has nothing left to cut, the event fits.
LEMMA NothingLeftFits ==
  ASSUME NEW w, IsShort(w), w.context = NoContext,
         \A f \in {"message", "error", "stack", "url"} : f \in DOMAIN w.text => w.text[f] = <<>>
  PROVE  Size(w) <= MaxEventBytes
<1>1. PICK v : v = MaxLength["app_version"] /\ v \in Nat
  BY WireAssumption
<1>2. ASSUME NEW f \in {"message", "error", "stack", "url"}
      PROVE  FieldSize(w, f) \in Nat /\ FieldSize(w, f) <= FieldBytes
  <2>1. FieldBytes \in Nat
    BY WireAssumption
  <2>2. CASE f \in DOMAIN w.text
    BY <2>1, <2>2, NoBytes DEF FieldSize
  <2>3. CASE f \notin DOMAIN w.text
    BY <2>1, <2>3 DEF FieldSize
  <2> QED
    BY <2>2, <2>3
<1>3. FieldSize(w, "app_version") \in Nat /\ FieldSize(w, "app_version") <= FieldBytes + 6 * v
  BY <1>1, FieldAtMost DEF IsShort
<1>4. PICK m, e, t, u, x :
        /\ m = FieldSize(w, "message") /\ e = FieldSize(w, "error") /\ t = FieldSize(w, "stack")
        /\ u = FieldSize(w, "url") /\ x = FieldSize(w, "app_version")
        /\ m \in Nat /\ e \in Nat /\ t \in Nat /\ u \in Nat /\ x \in Nat
        /\ m <= FieldBytes /\ e <= FieldBytes /\ t <= FieldBytes /\ u <= FieldBytes
        /\ x <= FieldBytes + 6 * v
  BY <1>2, <1>3
<1>5. PICK a : a = Len(w.app) /\ a \in Nat /\ a <= MaxApp
  BY LengthOf DEF IsShort
<1>6. Size(w) = Overhead + a + 0 + m + e + t + u + x
  BY <1>4, <1>5, NoContextFacts DEF Size
<1>7. /\ {Overhead, MaxApp, FieldBytes, FinalCap, MaxEventBytes} \subseteq Nat
      /\ FieldBytes <= 6 * FinalCap
      /\ Overhead + MaxApp + 3 * FieldBytes + 6 * (2 * FinalCap + v) <= MaxEventBytes
  BY <1>1, WireAssumption
<1>8. Overhead + a + 0 + m + e + t + u + x <= MaxEventBytes
  <2>1. /\ m \in Nat /\ e \in Nat /\ t \in Nat /\ u \in Nat /\ x \in Nat
        /\ m <= FieldBytes /\ e <= FieldBytes /\ t <= FieldBytes /\ u <= FieldBytes
        /\ x <= FieldBytes + 6 * v /\ a \in Nat /\ a <= MaxApp /\ v \in Nat
    BY <1>1, <1>4, <1>5
  <2>2. /\ Overhead \in Nat /\ MaxApp \in Nat /\ FieldBytes \in Nat /\ FinalCap \in Nat
        /\ MaxEventBytes \in Nat /\ FieldBytes <= 6 * FinalCap
        /\ Overhead + MaxApp + 3 * FieldBytes + 6 * (2 * FinalCap + v) <= MaxEventBytes
    BY <1>7
  <2> QED
    BY <2>1, <2>2, SumsFit
<1> QED
  BY <1>6, <1>8

\* Dart's last resort makes any event fit.
LEMMA LastResortFits ==
  ASSUME NEW w, IsShort(w), w.context = NoContext,
         "stack" \notin DOMAIN w.text, "url" \notin DOMAIN w.text,
         \A f \in {"message", "error"} : f \in DOMAIN w.text => Len(w.text[f]) <= FinalCap
  PROVE  Size(w) <= MaxEventBytes
<1>1. PICK v : v = MaxLength["app_version"] /\ v \in Nat
  BY WireAssumption
<1>2. FieldSize(w, "stack") = 0 /\ FieldSize(w, "url") = 0
  BY DEF FieldSize
<1>3. \A f \in {"message", "error"} :
        FieldSize(w, f) \in Nat /\ FieldSize(w, f) <= FieldBytes + 6 * FinalCap
  BY FieldAtMost, WireAssumption
<1>4. FieldSize(w, "app_version") \in Nat /\ FieldSize(w, "app_version") <= FieldBytes + 6 * v
  BY <1>1, FieldAtMost DEF IsShort
<1>5. PICK m, e, x :
        /\ m = FieldSize(w, "message") /\ e = FieldSize(w, "error") /\ x = FieldSize(w, "app_version")
        /\ m \in Nat /\ e \in Nat /\ x \in Nat
        /\ m <= FieldBytes + 6 * FinalCap /\ e <= FieldBytes + 6 * FinalCap
        /\ x <= FieldBytes + 6 * v
  BY <1>3, <1>4
<1>6. PICK a : a = Len(w.app) /\ a \in Nat /\ a <= MaxApp
  BY LengthOf DEF IsShort
<1>7. Size(w) = Overhead + a + 0 + m + e + 0 + 0 + x
  BY <1>2, <1>5, <1>6, NoContextFacts DEF Size
<1>8. /\ {Overhead, MaxApp, FieldBytes, FinalCap, MaxEventBytes} \subseteq Nat
      /\ Overhead + MaxApp + 3 * FieldBytes + 6 * (2 * FinalCap + v) <= MaxEventBytes
  BY <1>1, WireAssumption
<1>9. Overhead + a + 0 + m + e + 0 + 0 + x <= MaxEventBytes
  <2>1. /\ m \in Nat /\ e \in Nat /\ x \in Nat
        /\ m <= FieldBytes + 6 * FinalCap /\ e <= FieldBytes + 6 * FinalCap
        /\ x <= FieldBytes + 6 * v /\ a \in Nat /\ a <= MaxApp /\ v \in Nat
    BY <1>1, <1>5, <1>6
  <2>2. /\ Overhead \in Nat /\ MaxApp \in Nat /\ FieldBytes \in Nat /\ FinalCap \in Nat
        /\ MaxEventBytes \in Nat
        /\ Overhead + MaxApp + 3 * FieldBytes + 6 * (2 * FinalCap + v) <= MaxEventBytes
    BY <1>8
  <2> QED
    BY <2>1, <2>2, SumsFit
<1> QED
  BY <1>7, <1>9

\* Python's counts of characters are no larger than the clients' of units.
LEMMA ShortIsWithinLimits ==
  ASSUME IsShort(wire), Size(wire) <= MaxEventBytes
  PROVE  WithinLimits
<1>1. \A f \in DOMAIN wire.text : Characters(wire.text[f]) <= MaxLength[f]
  <2> SUFFICES ASSUME NEW f \in DOMAIN wire.text PROVE Characters(wire.text[f]) <= MaxLength[f]
    OBVIOUS
  <2>1. PICK t \in Seq(Units) : t = wire.text[f] /\ Len(t) <= MaxLength[f]
    BY DEF IsShort
  <2>2. Len(t) \in Nat /\ MaxLength[f] \in Nat
    BY LengthOf, WireAssumption DEF IsShort
  <2>3. Characters(t) \in Nat /\ Characters(t) <= Len(t)
    BY CharactersOf
  <2> QED
    BY <2>1, <2>2, <2>3
<1>2. Range(wire.app) \subseteq {"a"}
  BY LengthOf DEF IsShort, Range
<1>3. ASSUME NEW k \in DOMAIN wire.context
      PROVE  Characters(k) \in 1 .. MaxKey /\ Characters(wire.context[k]) <= MaxValue
  <2>1. PICK t \in Seq(Units) : t = wire.context[k] /\ Len(t) <= MaxValue
    BY DEF IsShort, IsShortContext, IsContext
  <2>2. k \in Seq(Units) /\ k # <<>> /\ Len(k) <= MaxKey
    BY DEF IsShort, IsShortContext, IsContext
  <2>3. Len(t) \in Nat /\ Len(k) \in Nat /\ MaxValue \in Nat /\ MaxKey \in Nat
    BY <2>2, LengthOf, WireAssumption
  <2>4. Characters(k) \in Nat /\ Characters(k) <= Len(k) /\ Characters(k) >= 1
    BY <2>2, CharactersOf
  <2>5. Characters(t) \in Nat /\ Characters(t) <= Len(t)
    BY CharactersOf
  <2> QED
    BY <2>1, <2>2, <2>3, <2>4, <2>5
<1>4. GatewayBytes <= MaxEventBytes
  <2>1. Size(wire) \in Nat /\ MaxEventBytes \in Nat /\ FieldBytes \in Nat
    BY SizeOf, WireAssumption
  <2> QED
    BY <2>1 DEF GatewayBytes
<1> QED
  BY <1>1, <1>2, <1>3, <1>4 DEF WithinLimits, IsShort, IsShortContext

-----------------------------------------------------------------------------
\* The inductive invariant.

Uncut(f) == f \in DOMAIN wire.text /\ wire.text[f] = Full.text[f]

\* While fields are shortened: the context went only if it had to, a field was
\* cut only when it was its turn, and in TypeScript nothing is left before it.
\* After toJson has cut the stack, what is still too large has no stack, but for
\* a wide character in it.
ShorteningInv ==
    /\ wire.app = Full.app /\ DOMAIN wire.text = DOMAIN Full.text
    /\ \/ TooLarge /\ wire.context = NoContext
       \/ ~TooLarge /\ wire.context = Full.context /\ \A f \in DOMAIN Full.text : Uncut(f)
    /\ "app_version" \in DOMAIN Full.text => Uncut("app_version")
    /\ \A f \in DOMAIN Full.text : ~Uncut(f) => NeededFor(f)
    /\ React => \A f \in DOMAIN Full.text : ~Uncut(f) =>
                   \A g \in Before(f) : g \in DOMAIN wire.text => wire.text[g] = <<>>
    /\ ~React => \A f \in DOMAIN Full.text : ~Uncut(f) => f = "stack" /\ pc = "last"
    /\ pc = "last" /\ Size(wire) > MaxEventBytes =>
          NeededFor("stack") /\ (StackHasWide \/ NeededFor("message"))

\* OnlyAsNeeded, of what is built.
NeededInv ==
    /\ wire.context # Full.context => TooLarge
    /\ \A f \in DOMAIN Full.text :
          ~Uncut(f) => NeededFor(f) \/ (~React /\ f # "stack" /\ StackHasWide)

WireInv ==
    /\ event \in Inputs /\ pc \in {"start", "capped", "shortening", "last", "done"}
    /\ pc = "start" => wire.text = event.text /\ wire.context = NoContext /\ wire.app = <<>>
    /\ pc # "start" => IsShort(wire)
    /\ pc = "capped" => wire = Full
    /\ pc \in {"shortening", "last"} => ShorteningInv
    /\ pc = "last" => ~React
    /\ pc = "done" => Size(wire) <= MaxEventBytes /\ NeededInv

LEMMA WithoutFacts ==
  ASSUME IsShort(Full), NEW S
  PROVE  /\ Without(S).context = NoContext /\ Without(S).app = Full.app
         /\ DOMAIN Without(S).text = DOMAIN Full.text
         /\ \A f \in DOMAIN Full.text :
               Without(S).text[f] = IF f \in S THEN <<>> ELSE Full.text[f]
<1>1. Full = [text |-> Full.text, context |-> Full.context, app |-> Full.app, id |-> Full.id]
  BY DEF IsShort
<1>2. PICK t : t = [f \in DOMAIN Full.text |-> IF f \in S THEN <<>> ELSE Full.text[f]]
  OBVIOUS
<1>3. Without(S) = [text |-> t, context |-> NoContext, app |-> Full.app, id |-> Full.id]
  <2>1. PICK v : v = [Full EXCEPT !.context = NoContext]
    OBVIOUS
  <2>2. v = [text |-> Full.text, context |-> NoContext, app |-> Full.app, id |-> Full.id]
    BY <1>1, <2>1
  <2>3. [v EXCEPT !.text = t] = [text |-> t, context |-> NoContext, app |-> Full.app, id |-> Full.id]
    BY <2>2
  <2>4. v.text = Full.text
    BY <2>2
  <2>5. Without(S) = [v EXCEPT !.text = [f \in DOMAIN @ |-> IF f \in S THEN <<>> ELSE @[f]]]
    BY <2>1 DEF Without
  <2> QED
    BY <1>2, <2>3, <2>4, <2>5
<1>4. Without(S).text = t /\ Without(S).context = NoContext /\ Without(S).app = Full.app
  BY <1>3
<1> QED
  BY <1>2, <1>4

LEMMA BeforeFacts ==
  /\ Before("stack") = {}
  /\ ~React => \A f : f # "stack" => Before(f) = {"stack"}
  /\ React => /\ Before("error") = {"stack"} /\ Before("url") = {"stack", "error"}
              /\ \A f : f \notin {"stack", "error", "url"} => Before(f) = {"stack", "error", "url"}
BY DEF Before

\* Of what is like Without(Before(f)) the size says whether f has to be cut.
LEMMA SizeSaysNeeded ==
  ASSUME IsShort(Full), NEW w, IsShort(w), NEW f,
         w.context = NoContext, w.app = Full.app, DOMAIN w.text = DOMAIN Full.text,
         \A g \in DOMAIN Full.text : w.text[g] = IF g \in Before(f) THEN <<>> ELSE Full.text[g]
  PROVE  NeededFor(f) <=> Size(w) > MaxEventBytes
<1>1. PICK v : v = Without(Before(f))
  OBVIOUS
<1>2. /\ v.context = NoContext /\ v.app = Full.app /\ DOMAIN v.text = DOMAIN Full.text
      /\ \A g \in DOMAIN Full.text : v.text[g] = IF g \in Before(f) THEN <<>> ELSE Full.text[g]
  BY <1>1, WithoutFacts
<1>3. Size(v) = Size(w)
  BY <1>2, SameSize
<1> QED
  BY <1>1, <1>3 DEF NeededFor

LEMMA OverflowFacts ==
  ASSUME IsShort(wire)
  PROVE  /\ Size(wire) \in Nat /\ MaxEventBytes \in Nat /\ Overflow = Size(wire) - MaxEventBytes
         /\ Overflow \in Int /\ (Overflow > 0 <=> Size(wire) > MaxEventBytes)
         /\ (Overflow <= 0 <=> Size(wire) <= MaxEventBytes)
         /\ ~(Overflow > 0) <=> Overflow <= 0
<1>1. Size(wire) \in Nat /\ MaxEventBytes \in Nat
  BY SizeOf, WireAssumption
<1> QED
  BY <1>1 DEF Overflow

LEMMA WireInit == Init => WireInv
BY DEF Init, WireInv, NoContext

LEMMA CapFieldsStep == WireInv /\ CapFields => WireInv'
<1> SUFFICES ASSUME WireInv, CapFields PROVE WireInv'
  OBVIOUS
<1>1. event \in Inputs /\ event' = event /\ pc' = "capped" /\ wire' = Full
  BY DEF WireInv, CapFields
<1>2. IsShort(Full)
  BY <1>1, FullFacts
<1>3. Full' = Full
  BY <1>1, EventKept
<1>4. IsShort(wire)'
  BY <1>1, <1>2 DEF IsShort
<1> QED
  BY <1>1, <1>3, <1>4 DEF WireInv

LEMMA DropContextStep == WireInv /\ DropContext => WireInv'
<1> SUFFICES ASSUME WireInv, DropContext PROVE WireInv'
  OBVIOUS
<1>1. event \in Inputs /\ event' = event /\ pc = "capped" /\ IsShort(wire) /\ wire = Full
  BY DEF WireInv, DropContext
<1>2. /\ Full' = Full /\ React' = React /\ TooLarge' = TooLarge
      /\ StackHasWide' = StackHasWide /\ \A f : NeededFor(f)' = NeededFor(f)
  BY <1>1, EventKept
<1>3. /\ Overflow > 0 <=> TooLarge
      /\ ~(Overflow > 0) <=> Overflow <= 0
      /\ Overflow <= 0 <=> Size(wire) <= MaxEventBytes
  BY <1>1, OverflowFacts DEF TooLarge
<1>4. CASE Overflow > 0
  <2>1. wire' = [wire EXCEPT !.context = NoContext] /\ pc' = "shortening"
    BY <1>3, <1>4 DEF DropContext
  <2>2. IsShort(wire') /\ wire'.context = NoContext /\ wire'.text = wire.text /\ wire'.app = wire.app
    BY <1>1, <2>1, ContextDropped
  <2>3. IsShort(wire)'
    BY <2>2 DEF IsShort
  <2>4. \A f \in DOMAIN Full.text : Uncut(f)'
    BY <1>1, <1>2, <2>2 DEF Uncut
  <2>5. ShorteningInv'
    BY <1>1, <1>2, <1>3, <1>4, <2>1, <2>2, <2>4 DEF ShorteningInv
  <2> QED
    BY <1>1, <1>2, <2>1, <2>3, <2>5 DEF WireInv
<1>5. CASE Overflow <= 0
  <2>1. wire' = wire /\ pc' = IF React THEN "done" ELSE "shortening"
    BY <1>3, <1>5 DEF DropContext
  <2>2. IsShort(wire)' /\ (Size(wire) <= MaxEventBytes)'
    BY <1>1, <1>3, <1>5, <2>1 DEF IsShort
  <2>3. \A f \in DOMAIN Full.text : Uncut(f)'
    BY <1>1, <1>2, <2>1 DEF Uncut, IsShort
  <2>4. ShorteningInv' /\ NeededInv'
    BY <1>1, <1>2, <1>3, <1>5, <2>1, <2>3 DEF ShorteningInv, NeededInv
  <2> QED
    BY <1>1, <1>2, <2>1, <2>2, <2>4 DEF WireInv
<1> QED
  BY <1>3, <1>4, <1>5

\* Nothing has been cut yet from an event that was not too large.
LEMMA TooLargeOnly ==
  ASSUME ShorteningInv, IsShort(wire), Size(wire) > MaxEventBytes
  PROVE  TooLarge /\ wire.context = NoContext
<1> SUFFICES ASSUME ~TooLarge, wire.context = Full.context, \A f \in DOMAIN Full.text : Uncut(f)
             PROVE  FALSE
  BY DEF ShorteningInv
<1>1. Size(wire) = Size(Full)
  BY SameSize DEF ShorteningInv, Uncut
<1> QED
  BY <1>1 DEF TooLarge

\* The first field in order that still has text, and what is left around it.
LEMMA FirstCuttable ==
  ASSUME Cuttable # {}, "message" \in DOMAIN wire.text, DOMAIN wire.text \subseteq Fields
  PROVE  \E f \in DOMAIN wire.text :
            /\ f = Order[Min(Cuttable)] /\ wire.text[f] # <<>>
            /\ f \in {"stack", "error", "url", "message"}
            /\ React => \A g \in Before(f) : g \in DOMAIN wire.text => wire.text[g] = <<>>
            /\ React => \A g \in Fields : \/ g \in Before(f) \/ g = f \/ f \in Before(g)
                                         \/ g = "app_version"
<1>1. PICK C : C = Cuttable /\ C # {}
  OBVIOUS
<1>2. /\ DOMAIN Order = 1 .. 4 /\ Order[1] = "stack" /\ Order[2] = "error"
      /\ Order[3] = "url" /\ Order[4] = "message"
  BY DEF Order
<1>3. C \subseteq 1 .. 4 /\ \A i \in 1 .. 4 : i \in C <=> Order[i] \in DOMAIN wire.text /\ wire.text[Order[i]] # <<>>
  BY <1>1, <1>2 DEF Cuttable
<1>4. PICK m \in C : \A k \in C : m <= k
  <2>1. CASE 1 \in C
    BY <1>3, <2>1
  <2>2. CASE 1 \notin C /\ 2 \in C
    BY <1>3, <2>2
  <2>3. CASE 1 \notin C /\ 2 \notin C /\ 3 \in C
    BY <1>3, <2>3
  <2>4. CASE 1 \notin C /\ 2 \notin C /\ 3 \notin C
    <3>1. \A k \in C : k = 4
      BY <1>3, <2>4
    <3>2. 4 \in C
      BY <1>1, <3>1
    <3> QED
      BY <3>1, <3>2
  <2> QED
    BY <2>1, <2>2, <2>3, <2>4
<1>5. Min(C) = m
  <2>1. C \subseteq Int
    BY <1>3
  <2>2. \A x \in C : (\A y \in C : x <= y) => x = m
    BY <1>4, <2>1
  <2> QED
    BY <1>4, <2>2 DEF Min
<1>6. m \in 1 .. 4 /\ \A i \in 1 .. 4 : i < m => i \notin C
  BY <1>3, <1>4
<1>7. Order[m] \in DOMAIN wire.text /\ wire.text[Order[m]] # <<>>
  BY <1>3, <1>6
<1>8. Order[m] \in {"stack", "error", "url", "message"}
  BY <1>2, <1>6
<1>9. ASSUME React PROVE \A g \in Before(Order[m]) : g \in DOMAIN wire.text => wire.text[g] = <<>>
  <2>1. m = 1 \/ m = 2 \/ m = 3 \/ m = 4
    BY <1>6
  <2>2. \A g \in Before(Order[m]) : \E i \in 1 .. 4 : i < m /\ g = Order[i]
    <3>1. CASE m = 1
      BY <1>2, <3>1, BeforeFacts
    <3>2. CASE m = 2
      BY <1>2, <1>9, <3>2, BeforeFacts
    <3>3. CASE m = 3
      BY <1>2, <1>9, <3>3, BeforeFacts
    <3>4. CASE m = 4
      BY <1>2, <1>9, <3>4, BeforeFacts
    <3> QED
      BY <2>1, <3>1, <3>2, <3>3, <3>4
  <2> QED
    BY <1>3, <1>6, <2>2
<1>10. ASSUME React, NEW f \in {"stack", "error", "url", "message"}, NEW g \in Fields
       PROVE  g \in Before(f) \/ g = f \/ f \in Before(g) \/ g = "app_version"
  BY <1>10, FieldNames, BeforeFacts
<1> QED
  BY <1>1, <1>5, <1>7, <1>8, <1>9, <1>10

LEMMA ReactShortenStep == WireInv /\ ReactShorten => WireInv'
<1> SUFFICES ASSUME WireInv, ReactShorten PROVE WireInv'
  OBVIOUS
<1>1. /\ event \in Inputs /\ event' = event /\ pc = "shortening" /\ React
      /\ IsShort(wire) /\ ShorteningInv
  BY DEF WireInv, ReactShorten
<1>2. /\ Full' = Full /\ React' = React /\ TooLarge' = TooLarge
      /\ StackHasWide' = StackHasWide /\ \A f : NeededFor(f)' = NeededFor(f)
      /\ \A f : Before(f)' = Before(f)
  BY <1>1, EventKept
<1>3. IsShort(Full)
  BY <1>1, FullFacts
<1>4. CASE Overflow > 0 /\ Cuttable # {}
  <2>1. PICK f \in DOMAIN wire.text :
            /\ f = Order[Min(Cuttable)] /\ wire.text[f] # <<>>
            /\ f \in {"stack", "error", "url", "message"}
            /\ \A g \in Before(f) : g \in DOMAIN wire.text => wire.text[g] = <<>>
            /\ \A g \in Fields : g \in Before(f) \/ g = f \/ f \in Before(g) \/ g = "app_version"
    BY <1>1, <1>4, FirstCuttable DEF IsShort
  <2>2. PICK n : n = Larger(0, Len(wire.text[f]) - Overflow) /\ n \in Nat
    <3>1. Len(wire.text[f]) \in Nat /\ Overflow \in Int
      BY <1>1, OverflowFacts, LengthOf DEF IsShort
    <3> QED
      BY <3>1 DEF Larger
  <2>3. pc' = pc /\ wire' = [wire EXCEPT !.text[f] = Cap(@, n)]
    <3>1. wire' = [wire EXCEPT !.text[f] = Cap(@, Larger(0, Len(@) - Overflow))]
      BY <1>4, <2>1 DEF ReactShorten
    <3>2. wire' = [wire EXCEPT !.text[f] = Cap(wire.text[f], Larger(0, Len(wire.text[f]) - Overflow))]
      BY <3>1
    <3> QED
      BY <1>4, <2>2, <3>2 DEF ReactShorten
  <2>4. /\ IsShort(wire') /\ wire'.context = wire.context /\ wire'.app = wire.app
        /\ DOMAIN wire'.text = DOMAIN wire.text
        /\ \A g \in DOMAIN wire.text : g # f => wire'.text[g] = wire.text[g]
    BY <1>1, <2>2, <2>3, FieldCut
  <2>5. TooLarge /\ wire.context = NoContext /\ DOMAIN wire.text = DOMAIN Full.text /\ wire.app = Full.app
    BY <1>1, <1>4, OverflowFacts, TooLargeOnly DEF ShorteningInv
  <2>6. \A g \in DOMAIN Full.text : f \in Before(g) => Uncut(g)
    BY <1>1, <2>1 DEF ShorteningInv
  <2>7. NeededFor(f)
    <3>1. CASE ~Uncut(f)
      BY <1>1, <2>5, <3>1 DEF ShorteningInv
    <3>2. CASE Uncut(f)
      <4>1. ASSUME NEW g \in DOMAIN Full.text
            PROVE  wire.text[g] = IF g \in Before(f) THEN <<>> ELSE Full.text[g]
        <5>1. g \in Fields /\ g \in DOMAIN wire.text
          BY <1>3, <2>5 DEF IsShort
        <5>2. CASE g \in Before(f)
          BY <2>1, <5>1, <5>2
        <5>3. CASE g \notin Before(f)
          <6>1. g = f \/ f \in Before(g) \/ g = "app_version"
            BY <2>1, <5>1, <5>3
          <6>2. Uncut(g)
            BY <1>1, <2>6, <3>2, <6>1 DEF ShorteningInv
          <6> QED
            BY <5>3, <6>2 DEF Uncut
        <5> QED
          BY <5>2, <5>3
      <4>2. Size(wire) > MaxEventBytes
        BY <1>1, <1>4, OverflowFacts
      <4> QED
        BY <1>1, <1>3, <2>5, <4>1, <4>2, SizeSaysNeeded
    <3> QED
      BY <3>1, <3>2
  <2>8. \A g \in DOMAIN Full.text : g # f => Uncut(g)' = Uncut(g)
    BY <1>2, <2>4, <2>5 DEF Uncut
  <2>9. "app_version" # f /\ f \notin Before(f)
    BY <1>1, <2>1, BeforeFacts
  <2>10. ASSUME NEW g \in DOMAIN Full.text, ~Uncut(g)', NEW h \in Before(g), h \in DOMAIN wire'.text
         PROVE  wire'.text[h] = <<>>
    <3>1. h \in DOMAIN wire.text
      BY <2>4, <2>10
    <3>2. h # f /\ wire.text[h] = <<>>
      <4>1. CASE g = f
        BY <2>1, <2>9, <2>10, <3>1, <4>1
      <4>2. CASE g # f
        BY <1>1, <2>1, <2>8, <2>10, <3>1, <4>2 DEF ShorteningInv
      <4> QED
        BY <4>1, <4>2
    <3> QED
      BY <2>4, <3>1, <3>2
  <2>11. \A g \in DOMAIN Full.text : ~Uncut(g)' => NeededFor(g)
    BY <1>1, <2>7, <2>8 DEF ShorteningInv
  <2>12. ShorteningInv'
    <3>1. "app_version" \in DOMAIN Full.text => Uncut("app_version")'
      BY <1>1, <2>8, <2>9 DEF ShorteningInv
    <3>2. React' => \A g \in DOMAIN Full'.text : ~Uncut(g)' =>
                   \A h \in Before(g)' : h \in DOMAIN wire'.text => wire'.text[h] = <<>>
      BY <1>2, <2>10
    <3> QED
      BY <1>1, <1>2, <2>3, <2>4, <2>5, <2>11, <3>1, <3>2 DEF ShorteningInv
  <2>13. IsShort(wire)'
    BY <2>4 DEF IsShort
  <2> QED
    BY <1>1, <1>2, <2>3, <2>12, <2>13 DEF WireInv
<1>5. CASE ~(Overflow > 0 /\ Cuttable # {})
  <2>1. pc' = "done" /\ wire' = wire
    BY <1>5 DEF ReactShorten
  <2>2. Size(wire) <= MaxEventBytes
    <3>1. CASE Overflow <= 0
      BY <1>1, <3>1, OverflowFacts
    <3>2. CASE Overflow > 0
      <4>1. \A f \in {"message", "error", "stack", "url"} : f \in DOMAIN wire.text => wire.text[f] = <<>>
        <5>1. DOMAIN Order = 1 .. 4 /\ \A f \in {"message", "error", "stack", "url"} : \E i \in 1 .. 4 : f = Order[i]
          <6>1. /\ DOMAIN Order = 1 .. 4 /\ Order[1] = "stack" /\ Order[2] = "error"
                /\ Order[3] = "url" /\ Order[4] = "message"
            BY DEF Order
          <6> QED
            BY <6>1
        <5>2. Cuttable = {}
          BY <1>5, <3>2
        <5> QED
          BY <5>1, <5>2 DEF Cuttable
      <4>2. wire.context = NoContext
        BY <1>1, <3>2, OverflowFacts, TooLargeOnly
      <4> QED
        BY <1>1, <4>1, <4>2, NothingLeftFits
    <3> QED
      BY <1>1, <3>1, <3>2, OverflowFacts
  <2>3. \A f \in DOMAIN Full.text : Uncut(f)' = Uncut(f)
    BY <1>2, <2>1 DEF Uncut
  <2>4. NeededInv'
    <3>1. wire'.context # Full'.context => TooLarge'
      BY <1>1, <1>2, <2>1 DEF ShorteningInv
    <3>2. \A f \in DOMAIN Full.text : ~Uncut(f)' => NeededFor(f)'
      BY <1>1, <1>2, <2>3 DEF ShorteningInv
    <3>3. \A f \in DOMAIN Full'.text :
            ~Uncut(f)' => NeededFor(f)' \/ (~React' /\ f # "stack" /\ StackHasWide')
      BY <1>2, <3>2
    <3> QED
      BY <3>1, <3>3 DEF NeededInv
  <2>5. IsShort(wire)' /\ (Size(wire) <= MaxEventBytes)'
    BY <1>1, <2>1, <2>2 DEF IsShort
  <2> QED
    BY <1>1, <1>2, <2>1, <2>4, <2>5 DEF WireInv
<1> QED
  BY <1>4, <1>5

\* In Dart every field but the stack comes after the stack alone.
LEMMA NeededAlike ==
  ASSUME ~React, NEW f, f # "stack"
  PROVE  NeededFor(f) <=> NeededFor("message")
<1>1. Before(f) = Before("message")
  BY BeforeFacts
<1> QED
  BY <1>1 DEF NeededFor

LEMMA StackSum ==
  ASSUME NEW o \in Nat, NEW x \in Nat, NEW y \in Nat, NEW m \in Nat, NEW e \in Nat,
         NEW u \in Nat, NEW z \in Nat, NEW k \in Nat, NEW a \in Nat, NEW b \in Nat, NEW d \in Int,
         a <= b - d
  PROVE  o + x + y + m + e + (k + a) + u + z <= o + x + y + m + e + (k + b) + u + z - d
OBVIOUS

\* Objects that differ in their stack differ in size as their stacks do.
LEMMA StackSize ==
  ASSUME NEW v, IsShort(v), NEW w, IsShort(w), v.context = w.context, v.app = w.app,
         DOMAIN v.text = DOMAIN w.text, "stack" \in DOMAIN w.text,
         \A g \in DOMAIN w.text : g # "stack" => v.text[g] = w.text[g],
         NEW d \in Int, TextBytes(v.text["stack"]) <= TextBytes(w.text["stack"]) - d
  PROVE  Size(v) <= Size(w) - d
<1>1. \A f : f # "stack" => FieldSize(v, f) = FieldSize(w, f)
  BY DEF FieldSize
<1>2. PICK a : a = TextBytes(v.text["stack"]) /\ a \in Nat
  BY BytesOf DEF IsShort
<1>3. PICK b : b = TextBytes(w.text["stack"]) /\ b \in Nat
  BY BytesOf DEF IsShort
<1>4. FieldSize(v, "stack") = FieldBytes + a /\ FieldSize(w, "stack") = FieldBytes + b
  BY <1>2, <1>3 DEF FieldSize
<1>5. PICK x : x = Len(w.app) /\ x \in Nat
  BY SizeOf
<1>6. PICK y : y = ContextBytes(w.context) /\ y \in Nat
  BY SizeOf
<1>7. PICK m : m = FieldSize(w, "message") /\ m \in Nat
  BY SizeOf
<1>8. PICK e : e = FieldSize(w, "error") /\ e \in Nat
  BY SizeOf
<1>9. PICK u : u = FieldSize(w, "url") /\ u \in Nat
  BY SizeOf
<1>10. PICK z : z = FieldSize(w, "app_version") /\ z \in Nat
  BY SizeOf
<1> DEFINE P == Overhead + x + y + m + e + (FieldBytes + a) + u + z
           Q == Overhead + x + y + m + e + (FieldBytes + b) + u + z
<1>11. Size(w) = Q
  BY <1>4, <1>5, <1>6, <1>7, <1>8, <1>9, <1>10 DEF Size
<1>12. Size(v) = P
  BY <1>1, <1>4, <1>5, <1>6, <1>7, <1>8, <1>9, <1>10 DEF Size
<1>13. P <= Q - d
  <2>1. a <= b - d
    BY <1>2, <1>3
  <2>2. /\ x \in Nat /\ y \in Nat /\ m \in Nat /\ e \in Nat /\ u \in Nat /\ z \in Nat
        /\ a \in Nat /\ b \in Nat
    BY <1>2, <1>3, <1>5, <1>6, <1>7, <1>8, <1>9, <1>10
  <2>3. Overhead \in Nat /\ FieldBytes \in Nat
    BY WireAssumption
  <2> QED
    BY <2>1, <2>2, <2>3, StackSum
<1> HIDE DEF P, Q
<1> QED
  BY <1>11, <1>12, <1>13

\* Dart's cut of the stack is enough, or leaves no stack, but for wide characters.
LEMMA CutIsEnough ==
  ASSUME IsShort(Full), ~React, NEW w, IsShort(w), Size(w) > MaxEventBytes,
         "stack" \in DOMAIN w.text, w.text["stack"] = Full.text["stack"],
         DOMAIN w.text = DOMAIN Full.text, ~StackHasWide,
         NEW n, n = Larger(0, Len(w.text["stack"]) - (Size(w) - MaxEventBytes)),
         NEW v, v = [w EXCEPT !.text["stack"] = Cap(@, n)]
  PROVE  Size(v) <= MaxEventBytes \/ v.text["stack"] = <<>>
<1>1. PICK t \in Seq(Units) : t = w.text["stack"] /\ \A i \in DOMAIN t : ~Paired(t, i)
  BY DEF IsShort, StackHasWide
<1>2. PICK o, k : /\ o = Size(w) - MaxEventBytes /\ o \in Nat /\ o > 0
                  /\ k = Len(t) /\ k \in Nat
  <2>1. Size(w) \in Nat /\ MaxEventBytes \in Nat
    BY SizeOf, WireAssumption
  <2>2. Size(w) - MaxEventBytes \in Nat /\ Size(w) - MaxEventBytes > 0
    BY <2>1
  <2> QED
    BY <2>2, LengthOf
<1>3. n \in Nat
  BY <1>1, <1>2 DEF Larger
<1>4. /\ IsShort(v) /\ v.context = w.context /\ v.app = w.app
      /\ DOMAIN v.text = DOMAIN w.text /\ v.text["stack"] = Cap(t, n)
      /\ \A g \in DOMAIN w.text : g # "stack" => v.text[g] = w.text[g]
  BY <1>1, <1>3, FieldCut
<1>5. CASE k - o <= 0
  <2>1. n = 0
    BY <1>1, <1>2, <1>5 DEF Larger
  <2>2. Cap(t, n) = <<>>
    BY <1>3, <2>1, CapFacts
  <2> QED
    BY <1>4, <2>2
<1>6. CASE k - o > 0
  <2>1. n = k - o /\ n < Len(t)
    BY <1>1, <1>2, <1>6 DEF Larger
  <2>2. PICK s : s = Cap(t, n)
    OBVIOUS
  <2>3. s \in Seq(Units) /\ Len(s) = n /\ \A i \in 1 .. n : s[i] = t[i]
    BY <1>3, <2>1, <2>2, CapFacts
  <2>4. TextBytes(s) <= TextBytes(t) - (Len(t) - Len(s))
    <3>1. Len(s) <= Len(t)
      BY <1>2, <2>1, <2>3
    <3> QED
      BY <1>1, <2>3, <3>1, CutBytes
  <2>5. Len(t) - Len(s) = o
    BY <1>2, <2>1, <2>3
  <2>6. Size(v) <= Size(w) - o
    <3>1. TextBytes(s) <= TextBytes(t) - o
      BY <2>4, <2>5
    <3>2. v.text["stack"] = s /\ w.text["stack"] = t /\ o \in Int
      BY <1>1, <1>2, <1>4, <2>2
    <3>3. TextBytes(v.text["stack"]) <= TextBytes(w.text["stack"]) - o
      BY <3>1, <3>2
    <3> QED
      BY <1>4, <3>2, <3>3, StackSize
  <2>7. Size(w) \in Nat /\ MaxEventBytes \in Nat
    BY SizeOf, WireAssumption
  <2>8. Size(w) - o = MaxEventBytes
    BY <1>2, <2>7
  <2> QED
    BY <2>6, <2>8
<1> QED
  BY <1>2, <1>5, <1>6

LEMMA FlutterCutStackStep == WireInv /\ FlutterCutStack => WireInv'
<1> SUFFICES ASSUME WireInv, FlutterCutStack PROVE WireInv'
  OBVIOUS
<1>1. /\ event \in Inputs /\ event' = event /\ pc = "shortening" /\ pc' = "last" /\ ~React
      /\ IsShort(wire) /\ ShorteningInv
  BY DEF WireInv, FlutterCutStack
<1>2. /\ Full' = Full /\ React' = React /\ TooLarge' = TooLarge
      /\ StackHasWide' = StackHasWide /\ \A f : NeededFor(f)' = NeededFor(f)
  BY <1>1, EventKept
<1>3. IsShort(Full)
  BY <1>1, FullFacts
<1>4. /\ DOMAIN wire.text = DOMAIN Full.text /\ wire.app = Full.app
      /\ \A f \in DOMAIN Full.text : Uncut(f) /\ wire.text[f] = Full.text[f]
  BY <1>1 DEF ShorteningInv, Uncut
<1>5. ASSUME Size(wire) > MaxEventBytes
      PROVE  TooLarge /\ wire.context = NoContext /\ NeededFor("stack")
  <2>1. TooLarge /\ wire.context = NoContext
    BY <1>1, <1>5, TooLargeOnly
  <2>2. \A g \in DOMAIN Full.text : wire.text[g] = IF g \in Before("stack") THEN <<>> ELSE Full.text[g]
    BY <1>4, BeforeFacts
  <2> QED
    BY <1>1, <1>3, <1>4, <1>5, <2>1, <2>2, SizeSaysNeeded
<1>6. \A v : /\ IsShort(v) /\ v.context = NoContext /\ v.app = Full.app
             /\ DOMAIN v.text = DOMAIN Full.text /\ Size(v) > MaxEventBytes
             /\ \A g \in DOMAIN Full.text : g # "stack" => v.text[g] = Full.text[g]
             /\ "stack" \in DOMAIN v.text => v.text["stack"] = <<>>
             => NeededFor("message")
  <2> SUFFICES ASSUME NEW v, IsShort(v), v.context = NoContext, v.app = Full.app,
                      DOMAIN v.text = DOMAIN Full.text, Size(v) > MaxEventBytes,
                      \A g \in DOMAIN Full.text : g # "stack" => v.text[g] = Full.text[g],
                      "stack" \in DOMAIN v.text => v.text["stack"] = <<>>
               PROVE  NeededFor("message")
    OBVIOUS
  <2>1. Before("message") = {"stack"}
    BY <1>1, BeforeFacts
  <2>2. \A g \in DOMAIN Full.text : v.text[g] = IF g \in Before("message") THEN <<>> ELSE Full.text[g]
    BY <2>1
  <2> QED
    BY <1>3, <2>2, SizeSaysNeeded
<1>7. CASE Overflow > 0 /\ "stack" \in DOMAIN wire.text
  <2>1. Size(wire) > MaxEventBytes /\ Overflow = Size(wire) - MaxEventBytes /\ Overflow \in Int
    BY <1>1, <1>7, OverflowFacts
  <2>2. PICK n : n = Larger(0, Len(wire.text["stack"]) - Overflow) /\ n \in Nat
    <3>1. Len(wire.text["stack"]) \in Nat
      BY <1>1, <1>7, LengthOf DEF IsShort
    <3> QED
      BY <2>1, <3>1 DEF Larger
  <2>3. wire' = [wire EXCEPT !.text["stack"] = Cap(@, n)]
    <3>1. wire' = [wire EXCEPT !.text["stack"] = Cap(@, Larger(0, Len(@) - Overflow))]
      BY <1>7 DEF FlutterCutStack
    <3>2. wire' = [wire EXCEPT !.text["stack"] =
                      Cap(wire.text["stack"], Larger(0, Len(wire.text["stack"]) - Overflow))]
      BY <3>1
    <3> QED
      BY <2>2, <3>2
  <2>4. /\ IsShort(wire') /\ wire'.context = wire.context /\ wire'.app = wire.app
        /\ DOMAIN wire'.text = DOMAIN wire.text
        /\ \A g \in DOMAIN wire.text : g # "stack" => wire'.text[g] = wire.text[g]
    BY <1>1, <1>7, <2>2, <2>3, FieldCut
  <2>5. TooLarge /\ wire.context = NoContext /\ NeededFor("stack")
    BY <1>5, <2>1
  <2>6. \A g \in DOMAIN Full.text : g # "stack" => Uncut(g)' /\ wire'.text[g] = Full.text[g]
    BY <1>2, <1>4, <2>4 DEF Uncut
  <2>7. ASSUME Size(wire') > MaxEventBytes PROVE StackHasWide \/ NeededFor("message")
    <3> SUFFICES ASSUME ~StackHasWide PROVE NeededFor("message")
      OBVIOUS
    <3>1. wire'.text["stack"] = <<>>
      <4>1. n = Larger(0, Len(wire.text["stack"]) - (Size(wire) - MaxEventBytes))
        BY <2>1, <2>2
      <4>2. Size(wire') <= MaxEventBytes \/ wire'.text["stack"] = <<>>
        BY <1>1, <1>3, <1>4, <1>7, <2>1, <2>3, <4>1, CutIsEnough
      <4>3. Size(wire') \in Nat /\ MaxEventBytes \in Nat
        BY <2>4, SizeOf, WireAssumption
      <4> QED
        BY <2>7, <4>2, <4>3
    <3> QED
      BY <1>4, <1>6, <2>4, <2>5, <2>6, <2>7, <3>1
  <2>8. ShorteningInv'
    <3>1. "app_version" \in DOMAIN Full.text => Uncut("app_version")'
      BY <2>6
    <3> QED
      BY <1>1, <1>2, <1>4, <2>4, <2>5, <2>6, <2>7, <3>1 DEF ShorteningInv
  <2>9. IsShort(wire)'
    BY <2>4 DEF IsShort
  <2> QED
    BY <1>1, <1>2, <2>8, <2>9 DEF WireInv
<1>8. CASE ~(Overflow > 0 /\ "stack" \in DOMAIN wire.text)
  <2>1. wire' = wire
    BY <1>8 DEF FlutterCutStack
  <2>2. ASSUME Size(wire) > MaxEventBytes PROVE NeededFor("stack") /\ NeededFor("message")
    <3>1. "stack" \notin DOMAIN wire.text
      BY <1>1, <1>8, <2>2, OverflowFacts
    <3>2. TooLarge /\ wire.context = NoContext /\ NeededFor("stack")
      BY <1>5, <2>2
    <3> QED
      BY <1>1, <1>4, <1>6, <2>2, <3>1, <3>2
  <2>3. \A f \in DOMAIN Full.text : Uncut(f)'
    BY <1>2, <1>4, <2>1 DEF Uncut
  <2>4. ShorteningInv'
    BY <1>1, <1>2, <1>4, <2>1, <2>2, <2>3 DEF ShorteningInv
  <2>5. IsShort(wire)'
    BY <1>1, <2>1 DEF IsShort
  <2> QED
    BY <1>1, <1>2, <2>4, <2>5 DEF WireInv
<1> QED
  BY <1>7, <1>8

\* What toJson never gives up, capped once more, is within the limits.
LEMMA LastCut ==
  ASSUME NEW w, IsShort(w), NEW v,
         v = [w EXCEPT !.text = [f \in DOMAIN @ \ {"stack", "url"} |->
                 IF f \in {"message", "error"} THEN Cap(@[f], FinalCap) ELSE @[f]]]
  PROVE  /\ IsShort(v) /\ v.context = w.context /\ v.app = w.app
         /\ "stack" \notin DOMAIN v.text /\ "url" \notin DOMAIN v.text
         /\ \A f \in {"message", "error"} : f \in DOMAIN v.text => Len(v.text[f]) <= FinalCap
<1>1. w = [text |-> w.text, context |-> w.context, app |-> w.app, id |-> w.id]
  BY DEF IsShort
<1>2. PICK t : t = [f \in DOMAIN w.text \ {"stack", "url"} |->
                       IF f \in {"message", "error"} THEN Cap(w.text[f], FinalCap) ELSE w.text[f]]
  OBVIOUS
<1>3. v = [text |-> t, context |-> w.context, app |-> w.app, id |-> w.id]
  <2>1. [w EXCEPT !.text = t] = [text |-> t, context |-> w.context, app |-> w.app, id |-> w.id]
    BY <1>1
  <2> QED
    BY <1>2, <2>1
<1>4. v.text = t /\ v.context = w.context /\ v.app = w.app /\ v.id = w.id
  BY <1>3
<1>5. FinalCap \in Nat
  BY WireAssumption
<1>6. ASSUME NEW f \in DOMAIN t
      PROVE  /\ t[f] \in Seq(Units) /\ Len(t[f]) <= MaxLength[f]
             /\ f \in {"message", "error"} => Len(t[f]) <= FinalCap
  <2>1. f \in DOMAIN w.text /\ w.text[f] \in Seq(Units) /\ Len(w.text[f]) <= MaxLength[f]
    BY <1>2 DEF IsShort
  <2>2. CASE f \in {"message", "error"}
    <3>1. t[f] = Cap(w.text[f], FinalCap)
      BY <1>2, <2>2
    <3>2. /\ Cap(w.text[f], FinalCap) \in Seq(Units) /\ Len(Cap(w.text[f], FinalCap)) <= FinalCap
          /\ Len(Cap(w.text[f], FinalCap)) <= Len(w.text[f])
      BY <1>5, <2>1, CapFacts
    <3>3. Len(w.text[f]) \in Nat /\ Len(Cap(w.text[f], FinalCap)) \in Nat /\ MaxLength[f] \in Nat
      BY <2>1, <3>2, LengthOf, WireAssumption DEF IsShort
    <3>4. Len(Cap(w.text[f], FinalCap)) <= MaxLength[f]
      BY <2>1, <3>2, <3>3
    <3> QED
      BY <3>1, <3>2, <3>4
  <2>3. CASE f \notin {"message", "error"}
    BY <1>2, <2>1, <2>3
  <2> QED
    BY <2>2, <2>3
<1>7. DOMAIN t = DOMAIN w.text \ {"stack", "url"} /\ t = [f \in DOMAIN t |-> t[f]]
  BY <1>2
<1> QED
  BY <1>3, <1>4, <1>6, <1>7 DEF IsShort

\* It leaves a text alone or cuts it, and adds none.
LEMMA LastCutTexts ==
  ASSUME NEW w, IsShort(w), NEW v,
         v = [w EXCEPT !.text = [f \in DOMAIN @ \ {"stack", "url"} |->
                 IF f \in {"message", "error"} THEN Cap(@[f], FinalCap) ELSE @[f]]]
  PROVE  /\ v.context = w.context
         /\ \A f \in DOMAIN v.text :
               /\ f \in DOMAIN w.text
               /\ v.text[f] = w.text[f] \/ v.text[f] = Cap(w.text[f], FinalCap)
<1>1. w = [text |-> w.text, context |-> w.context, app |-> w.app, id |-> w.id]
  BY DEF IsShort
<1>2. PICK t : t = [f \in DOMAIN w.text \ {"stack", "url"} |->
                       IF f \in {"message", "error"} THEN Cap(w.text[f], FinalCap) ELSE w.text[f]]
  OBVIOUS
<1>3. v = [text |-> t, context |-> w.context, app |-> w.app, id |-> w.id]
  <2>1. [w EXCEPT !.text = t] = [text |-> t, context |-> w.context, app |-> w.app, id |-> w.id]
    BY <1>1
  <2> QED
    BY <1>2, <2>1
<1>4. v.text = t /\ v.context = w.context
  BY <1>3
<1>5. \A f \in DOMAIN t :
         f \in DOMAIN w.text /\ (t[f] = w.text[f] \/ t[f] = Cap(w.text[f], FinalCap))
  BY <1>2
<1> QED
  BY <1>4, <1>5

LEMMA FlutterCutRestStep == WireInv /\ FlutterCutRest => WireInv'
<1> SUFFICES ASSUME WireInv, FlutterCutRest PROVE WireInv'
  OBVIOUS
<1>1. /\ event \in Inputs /\ event' = event /\ pc = "last" /\ pc' = "done" /\ ~React
      /\ IsShort(wire) /\ ShorteningInv
  BY DEF WireInv, FlutterCutRest
<1>2. /\ Full' = Full /\ React' = React /\ TooLarge' = TooLarge
      /\ StackHasWide' = StackHasWide /\ \A f : NeededFor(f)' = NeededFor(f)
  BY <1>1, EventKept
<1>3. CASE Overflow > 0
  <2>1. wire' = [wire EXCEPT !.text = [f \in DOMAIN @ \ {"stack", "url"} |->
                     IF f \in {"message", "error"} THEN Cap(@[f], FinalCap) ELSE @[f]]]
    BY <1>3 DEF FlutterCutRest
  <2>2. Size(wire) > MaxEventBytes
    BY <1>1, <1>3, OverflowFacts
  <2>3. TooLarge /\ wire.context = NoContext
    BY <1>1, <2>2, TooLargeOnly
  <2>4. /\ IsShort(wire') /\ wire'.context = NoContext
        /\ "stack" \notin DOMAIN wire'.text /\ "url" \notin DOMAIN wire'.text
        /\ \A f \in {"message", "error"} : f \in DOMAIN wire'.text => Len(wire'.text[f]) <= FinalCap
    BY <1>1, <2>1, <2>3, LastCut
  <2>5. Size(wire') <= MaxEventBytes
    BY <2>4, LastResortFits
  <2>6. NeededInv'
    <3>1. NeededFor("stack") /\ (StackHasWide \/ NeededFor("message"))
      BY <1>1, <2>2 DEF ShorteningInv
    <3>2. \A f : f # "stack" => StackHasWide \/ NeededFor(f)
      BY <1>1, <3>1, NeededAlike
    <3> QED
      BY <1>1, <1>2, <2>3, <3>1, <3>2 DEF NeededInv
  <2>7. IsShort(wire)' /\ (Size(wire) <= MaxEventBytes)'
    BY <2>4, <2>5 DEF IsShort
  <2> QED
    BY <1>1, <1>2, <2>6, <2>7 DEF WireInv
<1>4. CASE ~(Overflow > 0)
  <2>1. wire' = wire
    BY <1>4 DEF FlutterCutRest
  <2>2. Size(wire) <= MaxEventBytes
    BY <1>1, <1>4, OverflowFacts
  <2>3. \A f \in DOMAIN Full.text : Uncut(f)' = Uncut(f)
    BY <1>2, <2>1 DEF Uncut
  <2>4. NeededInv'
    BY <1>1, <1>2, <2>1, <2>3 DEF NeededInv, ShorteningInv
  <2>5. IsShort(wire)' /\ (Size(wire) <= MaxEventBytes)'
    BY <1>1, <2>1, <2>2 DEF IsShort
  <2> QED
    BY <1>1, <1>2, <2>4, <2>5 DEF WireInv
<1> QED
  BY <1>3, <1>4

LEMMA WireUnchanged == WireInv /\ UNCHANGED vars => WireInv'
<1> SUFFICES ASSUME WireInv, UNCHANGED vars PROVE WireInv'
  OBVIOUS
<1>1. event' = event /\ wire' = wire /\ pc' = pc
  BY DEF vars
<1>2. /\ event \in Inputs => /\ Full' = Full /\ React' = React /\ TooLarge' = TooLarge
                             /\ StackHasWide' = StackHasWide /\ \A f : NeededFor(f)' = NeededFor(f)
                             /\ \A f : Before(f)' = Before(f)
  BY <1>1, EventKept
<1>3. event \in Inputs
  BY DEF WireInv
<1>4. \A f : Uncut(f)' = Uncut(f)
  BY <1>1, <1>2, <1>3 DEF Uncut
<1>5. ShorteningInv => ShorteningInv'
  BY <1>1, <1>2, <1>3, <1>4 DEF ShorteningInv
<1>6. NeededInv => NeededInv'
  BY <1>1, <1>2, <1>3, <1>4 DEF NeededInv
<1>7. IsShort(wire) => IsShort(wire)'
  BY <1>1 DEF IsShort
<1> QED
  BY <1>1, <1>2, <1>3, <1>5, <1>6, <1>7 DEF WireInv

LEMMA WireStep == WireInv /\ [Next]_vars => WireInv'
<1> SUFFICES ASSUME WireInv, [Next]_vars PROVE WireInv'
  OBVIOUS
<1>1. CASE CapFields
  BY <1>1, CapFieldsStep
<1>2. CASE DropContext
  BY <1>2, DropContextStep
<1>3. CASE ReactShorten
  BY <1>3, ReactShortenStep
<1>4. CASE FlutterCutStack
  BY <1>4, FlutterCutStackStep
<1>5. CASE FlutterCutRest
  BY <1>5, FlutterCutRestStep
<1>6. CASE UNCHANGED vars
  BY <1>6, WireUnchanged
<1> QED
  BY <1>1, <1>2, <1>3, <1>4, <1>5, <1>6 DEF Next, Done

THEOREM WireCorrect == Spec => []WireInv
<1> USE DEF vars
<1>1. Init => WireInv
  BY WireInit
<1>2. WireInv /\ [Next]_vars => WireInv'
  BY WireStep
<1> QED
  BY <1>1, <1>2, PTL DEF Spec

\* The context is dropped, and a field cut further, only when nothing that goes
\* before it could have made the event small enough.
THEOREM WireOnlyAsNeeded == Spec => []OnlyAsNeeded
<1>1. ASSUME WireInv PROVE OnlyAsNeeded
  <2> SUFFICES ASSUME pc = "done"
               PROVE  /\ wire.context # Full.context => Size(Full) > MaxEventBytes
                      /\ \A f \in DOMAIN Full.text :
                           ~(f \in DOMAIN wire.text /\ wire.text[f] = Full.text[f])
                             => \/ Size(Without(Before(f))) > MaxEventBytes
                                \/ (~React /\ f # "stack" /\ StackHasWide)
    BY DEF OnlyAsNeeded
  <2>1. NeededInv
    BY <1>1 DEF WireInv
  <2> QED
    BY <2>1 DEF NeededInv, Uncut, NeededFor, TooLarge
<1> QED
  BY <1>1, WireCorrect, PTL

THEOREM WireTypes == Spec => []WireTypeOK
<1>1. ASSUME WireInv PROVE WireTypeOK
  <2>1. CASE pc = "start"
    <3>1. IsReport(event) /\ wire.text = event.text /\ wire.context = NoContext /\ wire.app = <<>>
      BY <1>1, <2>1, ReportOf DEF WireInv
    <3>2. <<>> \in Seq({"a"}) /\ DOMAIN wire.context = {}
      BY <3>1, EmptySeq DEF NoContext
    <3> QED
      BY <2>1, <3>1, <3>2 DEF WireTypeOK, IsReport
  <2>2. CASE pc # "start"
    BY <1>1, <2>2 DEF WireInv, WireTypeOK, IsShort, IsShortContext, IsContext
  <2> QED
    BY <2>1, <2>2
<1> QED
  BY <1>1, WireCorrect, PTL

-----------------------------------------------------------------------------
\* Half characters.

\* What is reported has no half characters of its own: a Dart or JavaScript
\* string that encodes.
WellFormedReport(e) ==
    /\ \A f \in DOMAIN e.text : Encodable(e.text[f])
    /\ \A i \in DOMAIN e.context : Encodable(e.context[i].key) /\ Encodable(e.context[i].value)

CutInv ==
    pc # "start" =>
        /\ \A f \in DOMAIN wire.text : AtMostCut(wire.text[f])
        /\ \A k \in DOMAIN wire.context : AtMostCut(k) /\ AtMostCut(wire.context[k])

\* A step leaves a text alone, caps it, or drops it.
LEMMA TextsKept ==
  ASSUME WireInv, CutInv, pc # "start", NEW v,
         v.context = wire.context \/ v.context = NoContext,
         \A f \in DOMAIN v.text :
            /\ f \in DOMAIN wire.text
            /\ v.text[f] = wire.text[f] \/ \E n \in Nat : v.text[f] = Cap(wire.text[f], n)
  PROVE  /\ \A f \in DOMAIN v.text : AtMostCut(v.text[f])
         /\ \A k \in DOMAIN v.context : AtMostCut(k) /\ AtMostCut(v.context[k])
<1>1. \A f \in DOMAIN wire.text : wire.text[f] \in Seq(Units) /\ AtMostCut(wire.text[f])
  BY DEF WireInv, IsShort, CutInv
<1>2. \A f \in DOMAIN wire.text, n \in Nat : AtMostCut(Cap(wire.text[f], n))
  BY <1>1, CapFacts
<1>3. DOMAIN NoContext = {}
  BY DEF NoContext
<1> QED
  BY <1>1, <1>2, <1>3 DEF CutInv

LEMMA CutStep ==
  ASSUME \A e \in Inputs : WellFormedReport(e), WireInv, CutInv, [Next]_vars
  PROVE  CutInv'
<1>1. event' = event /\ event \in Inputs /\ React' = React
  BY DEF WireInv, Next, vars, CapFields, DropContext, ReactShorten, FlutterCutStack, FlutterCutRest,
         Done, React
<1>0. \A t : AtMostCut(t)' <=> AtMostCut(t)
  BY <1>1 DEF AtMostCut, Whole, Paired
<1> SUFFICES ASSUME pc' # "start"
             PROVE  /\ \A f \in DOMAIN wire'.text : AtMostCut(wire'.text[f])
                    /\ \A k \in DOMAIN wire'.context : AtMostCut(k) /\ AtMostCut(wire'.context[k])
  BY <1>0 DEF CutInv
<1>2. CASE CapFields
  <2>1. wire'.text = [f \in DOMAIN event.text |-> Cap(event.text[f], MaxLength[f])]
    BY <1>2 DEF CapFields, Full
  <2>2. wire'.context = CappedContext(event.context)
    BY <1>2 DEF CapFields, Full
  <2>3. WellFormedReport(event) /\ IsReport(event)
    BY <1>1, ReportOf
  <2>4. ASSUME NEW f \in DOMAIN wire'.text PROVE AtMostCut(wire'.text[f])
    <3>1. event.text[f] \in Seq(Units) /\ AtMostCut(event.text[f]) /\ MaxLength[f] \in Nat
      BY <2>1, <2>3, WireAssumption DEF WellFormedReport, Encodable, AtMostCut, IsReport
    <3>2. AtMostCut(Cap(event.text[f], MaxLength[f]))
      BY <3>1, CapFacts
    <3> QED
      BY <2>1, <3>2
  <2>5. ASSUME NEW k \in DOMAIN wire'.context PROVE AtMostCut(k) /\ AtMostCut(wire'.context[k])
    <3>1. event.context \in Seq([key : Seq(Units), value : Seq(Units)])
      BY <2>3 DEF IsReport
    <3>2. PICK i, j \in DOMAIN event.context :
             k = Cap(event.context[i].key, MaxKey) /\ wire'.context[k] = Cap(event.context[j].value, MaxValue)
      <4>1. PICK es : es = event.context /\ es \in Seq([key : Seq(Units), value : Seq(Units)])
        BY <3>1
      <4>2. wire'.context = CappedContext(es)
        BY <2>2, <4>1
      <4>3. \A h \in DOMAIN CappedContext(es) : \E i, j \in DOMAIN es :
               /\ h = Cap(es[i].key, MaxKey)
               /\ CappedContext(es)[h] = Cap(es[j].value, MaxValue)
        BY <4>1, CappedContextFacts
      <4>4. k \in DOMAIN CappedContext(es)
        BY <2>5, <4>2
      <4>5. \E i, j \in DOMAIN es : /\ k = Cap(es[i].key, MaxKey)
                                    /\ CappedContext(es)[k] = Cap(es[j].value, MaxValue)
        BY <4>3, <4>4
      <4> QED
        BY <4>1, <4>2, <4>5
    <3>3. PICK s : s = event.context[i].key /\ s \in Seq(Units) /\ AtMostCut(s)
      <4>1. event.context[i] \in [key : Seq(Units), value : Seq(Units)]
        BY <3>1, LengthOf
      <4> QED
        BY <2>3, <4>1 DEF WellFormedReport, Encodable, AtMostCut
    <3>4. PICK t : t = event.context[j].value /\ t \in Seq(Units) /\ AtMostCut(t)
      <4>1. event.context[j] \in [key : Seq(Units), value : Seq(Units)]
        BY <3>1, LengthOf
      <4> QED
        BY <2>3, <4>1 DEF WellFormedReport, Encodable, AtMostCut
    <3>5. MaxKey \in Nat /\ MaxValue \in Nat
      BY WireAssumption
    <3>6. AtMostCut(Cap(s, MaxKey)) /\ AtMostCut(Cap(t, MaxValue))
      BY <3>3, <3>4, <3>5, CapFacts
    <3> QED
      BY <3>2, <3>3, <3>4, <3>6
  <2> QED
    BY <2>4, <2>5
<1>3. CASE DropContext
  <2>1. pc = "capped" /\ IsShort(wire)
    BY <1>3 DEF DropContext, WireInv
  <2>2. wire' = wire \/ wire' = [wire EXCEPT !.context = NoContext]
    BY <1>3 DEF DropContext
  <2>3. wire'.text = wire.text /\ (wire'.context = wire.context \/ wire'.context = NoContext)
    BY <2>1, <2>2, ContextDropped
  <2> QED
    BY <2>1, <2>3, TextsKept
<1>4. CASE ReactShorten
  <2>1. pc = "shortening" /\ IsShort(wire)
    BY <1>4 DEF ReactShorten, WireInv
  <2>2. CASE Overflow > 0 /\ Cuttable # {}
    <3>1. PICK f \in DOMAIN wire.text : f = Order[Min(Cuttable)]
      BY <2>1, <2>2, FirstCuttable DEF IsShort
    <3>2. PICK n : n = Larger(0, Len(wire.text[f]) - Overflow) /\ n \in Nat
      <4>1. Len(wire.text[f]) \in Nat /\ Overflow \in Int
        BY <2>1, OverflowFacts, LengthOf DEF IsShort
      <4> QED
        BY <4>1 DEF Larger
    <3>3. wire' = [wire EXCEPT !.text[f] = Cap(@, n)]
      <4>1. wire' = [wire EXCEPT !.text[f] = Cap(@, Larger(0, Len(@) - Overflow))]
        BY <1>4, <2>2, <3>1 DEF ReactShorten
      <4>2. wire' = [wire EXCEPT !.text[f] = Cap(wire.text[f], Larger(0, Len(wire.text[f]) - Overflow))]
        BY <4>1
      <4> QED
        BY <3>2, <4>2
    <3>4. /\ wire'.context = wire.context /\ DOMAIN wire'.text = DOMAIN wire.text
          /\ wire'.text[f] = Cap(wire.text[f], n)
          /\ \A g \in DOMAIN wire.text : g # f => wire'.text[g] = wire.text[g]
      BY <2>1, <3>2, <3>3, FieldCut
    <3> QED
      BY <2>1, <3>2, <3>4, TextsKept
  <2>3. CASE ~(Overflow > 0 /\ Cuttable # {})
    <3>1. wire' = wire
      BY <1>4, <2>3 DEF ReactShorten
    <3> QED
      BY <2>1, <3>1, TextsKept
  <2> QED
    BY <2>2, <2>3
<1>5. CASE FlutterCutStack
  <2>1. pc = "shortening" /\ IsShort(wire)
    BY <1>5 DEF FlutterCutStack, WireInv
  <2>2. CASE Overflow > 0 /\ "stack" \in DOMAIN wire.text
    <3>1. PICK n : n = Larger(0, Len(wire.text["stack"]) - Overflow) /\ n \in Nat
      <4>1. Len(wire.text["stack"]) \in Nat /\ Overflow \in Int
        BY <2>1, <2>2, OverflowFacts, LengthOf DEF IsShort
      <4> QED
        BY <4>1 DEF Larger
    <3>2. wire' = [wire EXCEPT !.text["stack"] = Cap(@, n)]
      <4>1. wire' = [wire EXCEPT !.text["stack"] = Cap(@, Larger(0, Len(@) - Overflow))]
        BY <1>5, <2>2 DEF FlutterCutStack
      <4>2. wire' = [wire EXCEPT !.text["stack"] =
                        Cap(wire.text["stack"], Larger(0, Len(wire.text["stack"]) - Overflow))]
        BY <4>1
      <4> QED
        BY <3>1, <4>2
    <3>3. /\ wire'.context = wire.context /\ DOMAIN wire'.text = DOMAIN wire.text
          /\ wire'.text["stack"] = Cap(wire.text["stack"], n)
          /\ \A g \in DOMAIN wire.text : g # "stack" => wire'.text[g] = wire.text[g]
      BY <2>1, <2>2, <3>1, <3>2, FieldCut
    <3> QED
      BY <2>1, <3>1, <3>3, TextsKept
  <2>3. CASE ~(Overflow > 0 /\ "stack" \in DOMAIN wire.text)
    <3>1. wire' = wire
      BY <1>5, <2>3 DEF FlutterCutStack
    <3> QED
      BY <2>1, <3>1, TextsKept
  <2> QED
    BY <2>2, <2>3
<1>6. CASE FlutterCutRest
  <2>1. pc = "last" /\ IsShort(wire)
    BY <1>6 DEF FlutterCutRest, WireInv
  <2>2. CASE Overflow > 0
    <3>1. wire' = [wire EXCEPT !.text = [f \in DOMAIN @ \ {"stack", "url"} |->
                      IF f \in {"message", "error"} THEN Cap(@[f], FinalCap) ELSE @[f]]]
      BY <1>6, <2>2 DEF FlutterCutRest
    <3>2. /\ wire'.context = wire.context
          /\ \A f \in DOMAIN wire'.text :
                /\ f \in DOMAIN wire.text
                /\ wire'.text[f] = wire.text[f] \/ wire'.text[f] = Cap(wire.text[f], FinalCap)
      BY <2>1, <3>1, LastCutTexts
    <3>3. FinalCap \in Nat
      BY WireAssumption
    <3> QED
      BY <2>1, <3>2, <3>3, TextsKept
  <2>3. CASE ~(Overflow > 0)
    <3>1. wire' = wire
      BY <1>6, <2>3 DEF FlutterCutRest
    <3> QED
      BY <2>1, <3>1, TextsKept
  <2> QED
    BY <2>2, <2>3
<1>7. CASE UNCHANGED vars
  BY <1>7 DEF vars, CutInv
<1> QED
  BY <1>2, <1>3, <1>4, <1>5, <1>6, <1>7 DEF Next, Done

LEMMA CutsOnly ==
  ASSUME \A e \in Inputs : WellFormedReport(e)
  PROVE  Spec => []CutInv
<1>1. Init => CutInv
  BY DEF Init, CutInv
<1>2. WireInv /\ CutInv /\ [Next]_vars => CutInv'
  BY CutStep
<1> QED
  BY <1>1, <1>2, WireCorrect, PTL DEF Spec

LEMMA SentTextsCut == WireInv /\ CutInv /\ pc # "start" => \A t \in SentTexts : AtMostCut(t)
BY DEF CutInv, SentTexts, Range

\* An application that reports whole characters is refused an event only for the
\* half character that Dart's substring leaves at the end of a text.
THEOREM WireRefusedOnlyForACut ==
  ASSUME \A e \in Inputs : WellFormedReport(e)
  PROVE  Spec => []RefusedOnlyForACut
<1>1. WireInv /\ CutInv => RefusedOnlyForACut
  <2> SUFFICES ASSUME WireInv, CutInv, pc = "done" PROVE RefusedOnlyForACut
    BY DEF RefusedOnlyForACut
  <2>1. WithinLimits
    BY ShortIsWithinLimits DEF WireInv
  <2>2. \A t \in SentTexts : AtMostCut(t)
    BY SentTextsCut
  <2> QED
    BY <2>1, <2>2 DEF RefusedOnlyForACut, AtMostCut
<1> QED
  BY <1>1, CutsOnly, WireCorrect, PTL

\* "a single event can never cause the batch to be rejected" (models.ts), of the
\* React client: the gateway accepts every event it sends.
ReactNeverRejected == React /\ pc = "done" => GatewayAccepts

THEOREM WireReactNeverRejected ==
  ASSUME \A e \in Inputs : WellFormedReport(e)
  PROVE  Spec => []ReactNeverRejected
<1>1. RefusedOnlyForACut => ReactNeverRejected
  BY DEF RefusedOnlyForACut, ReactNeverRejected, GatewayAccepts, Encodable
<1> QED
  BY <1>1, WireRefusedOnlyForACut, PTL

\* TypeScript's cuts never leave half a character.
THEOREM WireNoHalfCharacter ==
  ASSUME \A e \in Inputs : WellFormedReport(e)
  PROVE  Spec => []NoHalfCharacter
<1>1. ASSUME WireInv, CutInv PROVE NoHalfCharacter
  <2> SUFFICES ASSUME React, pc # "start", NEW t \in SentTexts, t # <<>>, t[Len(t)] = "h"
               PROVE  FALSE
    BY DEF NoHalfCharacter
  <2>1. AtMostCut(t) /\ t \in Seq(Units)
    BY <1>1, SentTextsCut DEF WireInv, SentTexts, Range, IsShort, IsShortContext, IsContext
  <2>2. Len(t) \in Nat /\ Len(t) # 0 /\ DOMAIN t = 1 .. Len(t)
    BY <2>1, LengthOf, EmptySeq
  <2>3. Len(t) \in DOMAIN t /\ Len(t) \notin 1 .. Len(t) - 1 /\ Len(t) - 1 + 1 = Len(t)
    BY <2>2
  <2>4. Whole(t, Len(t))
    BY <2>1, <2>3 DEF AtMostCut
  <2> QED
    BY <2>3, <2>4 DEF Whole, Paired
<1> QED
  BY <1>1, CutsOnly, WireCorrect, PTL

-----------------------------------------------------------------------------
\* A turn of the loops of toWire that is not the last takes something from one
\* field and leaves the others alone, so the number of turns is bounded by the
\* length of the text: the argument for CappingEnds.
EachTurnShortens ==
    [][ReactShorten /\ pc' = "shortening" =>
          \E f \in DOMAIN wire.text :
             /\ Len(wire'.text[f]) < Len(wire.text[f]) /\ DOMAIN wire'.text = DOMAIN wire.text
             /\ \A g \in DOMAIN wire.text : g # f => wire'.text[g] = wire.text[g]]_vars

THEOREM WireEachTurnShortens == Spec => EachTurnShortens
<1>1. ASSUME WireInv, ReactShorten, pc' = "shortening"
      PROVE  \E f \in DOMAIN wire.text :
               /\ Len(wire'.text[f]) < Len(wire.text[f]) /\ DOMAIN wire'.text = DOMAIN wire.text
               /\ \A g \in DOMAIN wire.text : g # f => wire'.text[g] = wire.text[g]
  <2>1. pc = "shortening" /\ IsShort(wire) /\ Overflow > 0 /\ Cuttable # {}
    BY <1>1 DEF WireInv, ReactShorten
  <2>2. PICK f \in DOMAIN wire.text : f = Order[Min(Cuttable)] /\ wire.text[f] # <<>>
    BY <2>1, FirstCuttable DEF IsShort
  <2>3. PICK k \in Nat : k = Len(wire.text[f]) /\ k > 0
    <3>1. wire.text[f] \in Seq(Units) /\ Len(wire.text[f]) \in Nat
      BY <2>1, LengthOf DEF IsShort
    <3> QED
      BY <2>2, <3>1, EmptySeq
  <2>4. PICK n \in Nat : n = Larger(0, k - Overflow) /\ n < k
    <3>1. Overflow \in Int /\ Overflow > 0
      BY <2>1, OverflowFacts
    <3> QED
      BY <2>3, <3>1 DEF Larger
  <2>5. wire' = [wire EXCEPT !.text[f] = Cap(@, n)]
    <3>1. wire' = [wire EXCEPT !.text[f] = Cap(@, Larger(0, Len(@) - Overflow))]
      BY <1>1, <2>1, <2>2 DEF ReactShorten
    <3>2. wire' = [wire EXCEPT !.text[f] = Cap(wire.text[f], Larger(0, Len(wire.text[f]) - Overflow))]
      BY <3>1
    <3> QED
      BY <2>3, <2>4, <3>2
  <2>6. /\ DOMAIN wire'.text = DOMAIN wire.text /\ wire'.text[f] = Cap(wire.text[f], n)
        /\ \A g \in DOMAIN wire.text : g # f => wire'.text[g] = wire.text[g]
    BY <2>1, <2>5, FieldCut
  <2>7. Len(wire'.text[f]) < Len(wire.text[f])
    <3>1. PICK t \in Seq(Units) : t = wire.text[f]
      BY <2>1 DEF IsShort
    <3>2. Cap(t, n) \in Seq(Units) /\ Len(Cap(t, n)) <= n
      BY CapFacts
    <3>3. Len(Cap(t, n)) \in Nat
      BY <3>2, LengthOf
    <3> QED
      BY <2>3, <2>4, <2>6, <3>1, <3>2, <3>3
  <2> QED
    BY <2>6, <2>7
<1> QED
  BY <1>1, WireCorrect, PTL DEF EachTurnShortens
=============================================================================
