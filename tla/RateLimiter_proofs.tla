------------------------- MODULE RateLimiter_proofs -------------------------
(***************************************************************************)
(* Proofs about RateLimiter, for every number of clients and every limit,  *)
(* window and table size: although windows are popped, whole entries are   *)
(* pruned and entries are created again, each decision is the one the      *)
(* complete log of admissions would give.                                  *)
(***************************************************************************)
EXTENDS RateLimiter, SequenceTheorems, FiniteSetTheorems, TLAPS

\* What the table remembers of a client.
Remembered(c) == IF c \in DOMAIN hits THEN hits[c] ELSE <<>>

\* The window w holds the end of the client's log; what it lacks has expired.
EndOfLog(w, c) ==
    /\ Len(w) <= Len(log[c])
    /\ \A i \in 1 .. Len(log[c]) - Len(w) : now - log[c][i] > Window
    /\ \A i \in 1 .. Len(w) : w[i] = log[c][Len(log[c]) - Len(w) + i]

Chronological(c) ==
    /\ \A i \in 1 .. Len(log[c]) : log[c][i] <= now
    /\ \A i, j \in 1 .. Len(log[c]) : i <= j => log[c][i] <= log[c][j]

\* The inductive invariant.
LimiterInv ==
    /\ LimiterTypeOK
    /\ \A c \in Clients : EndOfLog(Remembered(c), c)
    /\ \A c \in Clients : Chronological(c)

\* The instance counts with the same operator.
LEMMA SameCount == \A S : Promise!Cardinality(S) = Cardinality(S)
BY DEF Promise!Cardinality, Cardinality

-----------------------------------------------------------------------------
\* Sets of natural numbers.

LEMMA LeastElement ==
  ASSUME NEW S \in SUBSET Nat, S # {}
  PROVE  \E m \in S : \A k \in S : m <= k
<1>1. PICK n \in S : TRUE
  OBVIOUS
<1>2. IsWellFoundedOn(OpToRel(<, Nat), Nat)
  BY NatLessThanWellFounded
<1>3. PICK m \in S : \A k \in S : <<k, m>> \notin OpToRel(<, Nat)
  BY <1>1, <1>2, WFMin
<1>4. \A k \in S : ~(k < m)
  BY <1>3 DEF OpToRel
<1> QED
  BY <1>4

-----------------------------------------------------------------------------
\* The table after the prune: the entries kept are untouched, and a client
\* without an entry has nothing left in its window.
LEMMA KeptFacts ==
  ASSUME LimiterInv, NEW c \in Clients
  PROVE  /\ DOMAIN Kept \subseteq DOMAIN hits
         /\ c \in DOMAIN Kept => Kept[c] = hits[c] /\ hits[c] \in Seq(Nat)
         /\ c \notin DOMAIN Kept => EndOfLog(<<>>, c)
<1>1. /\ DOMAIN Kept \subseteq DOMAIN hits
      /\ \A d \in DOMAIN Kept : Kept[d] = hits[d]
      /\ \A d \in DOMAIN hits \ DOMAIN Kept : ~Live(hits[d])
  BY DEF Kept, Restrict
<1>2. ASSUME c \notin DOMAIN hits
      PROVE  EndOfLog(<<>>, c)
  BY <1>2 DEF LimiterInv, Remembered
<1>3. ASSUME c \in DOMAIN hits, ~Live(hits[c])
      PROVE  EndOfLog(<<>>, c)
  <2> DEFINE w == hits[c]
             L == Len(log[c])
  <2>1. w \in Seq(Nat) /\ log[c] \in Seq(Nat) /\ EndOfLog(w, c) /\ Chronological(c)
    BY <1>3 DEF LimiterInv, LimiterTypeOK, Remembered
  <2>2. L \in Nat /\ Len(w) \in Nat /\ \A i \in 1 .. L : log[c][i] \in Nat
    BY <2>1, LenProperties
  <2>3. CASE w = <<>>
    BY <2>1, <2>3
  <2>4. CASE w # <<>>
    <3>1. Len(w) >= 1 /\ w[Len(w)] = log[c][L]
      <4>1. Len(w) \in Nat \ {0}
        BY <2>1, <2>4, EmptySeq
      <4>2. \A i \in 1 .. Len(w) : w[i] = log[c][L - Len(w) + i]
        BY <2>1 DEF EndOfLog
      <4> HIDE DEF w, L
      <4>3. Len(w) \in 1 .. Len(w) /\ L - Len(w) + Len(w) = L
        BY <2>2, <4>1
      <4> QED
        BY <4>1, <4>2, <4>3
    <3>2. ~(now - log[c][L] <= Window)
      BY <1>3, <2>4, <3>1 DEF Live
    <3>3. L \in 1 .. L /\ Len(w) <= L
      BY <2>1, <2>2, <3>1 DEF EndOfLog
    <3>4. \A i \in 1 .. L : log[c][i] <= log[c][L]
      BY <2>1, <3>3 DEF Chronological
    <3>5. now \in Nat /\ Window \in Nat
      BY LimiterAssumption DEF LimiterInv, LimiterTypeOK
    <3>6. \A i \in 1 .. L : now - log[c][i] > Window
      <4> HIDE DEF w, L
      <4> QED
        BY <2>2, <3>2, <3>3, <3>4, <3>5
    <3>7. Len(<<>>) = 0 /\ 0 <= L /\ L - 0 = L
      BY <2>2
    <3> QED
      BY <3>6, <3>7 DEF EndOfLog
  <2> QED
    BY <2>3, <2>4
<1> QED
  BY <1>1, <1>2, <1>3 DEF LimiterInv, LimiterTypeOK

\* The popleft loop of a window ends, at the first entry still in the window.
LEMMA FirstInWindowFacts ==
  ASSUME now \in Nat, NEW w \in Seq(Nat)
  PROVE  /\ FirstInWindow(w) \in 1 .. Len(w) + 1
         /\ \A j \in 1 .. FirstInWindow(w) - 1 : now - w[j] > Window
         /\ FirstInWindow(w) <= Len(w) => now - w[FirstInWindow(w)] <= Window
<1> DEFINE S == {i \in 1 .. Len(w) + 1 : i <= Len(w) => now - w[i] <= Window}
<1>1. Len(w) \in Nat /\ (\A i \in 1 .. Len(w) : w[i] \in Nat) /\ Window \in Nat
  BY LenProperties, LimiterAssumption
<1>2. S \in SUBSET Nat /\ Len(w) + 1 \in S
  BY <1>1
<1>3. PICK m \in S : \A k \in S : m <= k
  <2> HIDE DEF S
  <2> QED
    BY <1>2, LeastElement
<1>4. \A j \in 1 .. m - 1 : now - w[j] > Window
  <2>1. \A j \in 1 .. m - 1 : j \in 1 .. Len(w) /\ j \notin S
    BY <1>1, <1>3
  <2>2. \A j \in 1 .. m - 1 : ~(now - w[j] <= Window)
    BY <1>1, <2>1
  <2> QED
    BY <1>1, <2>1, <2>2
<1>5. m \in 1 .. Len(w) + 1 /\ (m <= Len(w) => now - w[m] <= Window)
  BY <1>3
<1> QED
  BY <1>4, <1>5 DEF FirstInWindow

\* The window a call counts is the end of the log, and all of it is in the
\* window; its length is the number of admissions the complete log counts.
LEMMA WindowOfFacts ==
  ASSUME LimiterInv, NEW c \in Clients
  PROVE  /\ WindowOf(c) \in Seq(Nat)
         /\ EndOfLog(WindowOf(c), c)
         /\ Len(WindowOf(c)) = Cardinality(Promise!InWindow(c))
<1> DEFINE L == Len(log[c])
           n == Len(WindowOf(c))
<1>1. /\ log[c] \in Seq(Nat) /\ L \in Nat /\ DOMAIN log[c] = 1 .. L
      /\ \A i \in 1 .. L : log[c][i] \in Nat
  BY LenProperties DEF LimiterInv, LimiterTypeOK
<1>2. Chronological(c) /\ now \in Nat /\ Window \in Nat
  BY LimiterAssumption DEF LimiterInv, LimiterTypeOK
<1>3. /\ WindowOf(c) \in Seq(Nat)
      /\ EndOfLog(WindowOf(c), c)
      /\ \A i \in L - n + 1 .. L : now - log[c][i] <= Window
  <2>1. CASE c \notin DOMAIN Kept
    <3>1. WindowOf(c) = <<>> /\ n = 0
      BY <2>1 DEF WindowOf
    <3>2. \A i \in L - n + 1 .. L : FALSE
      BY <1>1, <3>1
    <3> QED
      BY <2>1, <3>1, <3>2, KeptFacts
  <2>2. CASE c \in DOMAIN Kept
    <3> DEFINE w == hits[c]
               f == FirstInWindow(w)
               p == SubSeq(w, f, Len(w))
    <3>1. w \in Seq(Nat) /\ c \in DOMAIN hits /\ WindowOf(c) = p
      BY <2>2, KeptFacts DEF WindowOf, Popped
    <3>2. EndOfLog(w, c)
      BY <3>1 DEF LimiterInv, Remembered
    <3>3. Len(w) \in Nat /\ (\A i \in 1 .. Len(w) : w[i] \in Nat)
      BY <3>1, LenProperties
    <3>4. /\ f \in 1 .. Len(w) + 1
          /\ \A j \in 1 .. f - 1 : now - w[j] > Window
          /\ f <= Len(w) => now - w[f] <= Window
      BY <1>2, <3>1, FirstInWindowFacts
    <3> HIDE DEF f
    <3>5. \A i \in f .. Len(w) : w[i] \in Nat
      BY <3>3, <3>4
    <3> HIDE DEF w
    <3>6. /\ p \in Seq(Nat) /\ Len(p) = Len(w) - f + 1
          /\ \A i \in 1 .. Len(w) - f + 1 : p[i] = w[f + i - 1]
      BY <3>3, <3>4, <3>5, SubSeqProperties
    <3> HIDE DEF p
    <3>7. n = Len(w) - f + 1
      BY <3>1, <3>6
    <3>8. Len(w) <= L
      BY <3>2 DEF EndOfLog
    <3>9. \A i \in 1 .. Len(w) : w[i] = log[c][L - Len(w) + i]
      BY <3>2 DEF EndOfLog
    <3> HIDE DEF n, L
    <3>10. \A i \in 1 .. L - n : now - log[c][i] > Window
      <4> SUFFICES ASSUME NEW i \in 1 .. L - n
                   PROVE  now - log[c][i] > Window
        OBVIOUS
      <4>1. CASE i <= L - Len(w)
        BY <1>1, <3>2, <3>3, <4>1 DEF EndOfLog, L
      <4>2. CASE i > L - Len(w)
        <5>1. i - (L - Len(w)) \in 1 .. f - 1 /\ i - (L - Len(w)) \in 1 .. Len(w)
          BY <1>1, <3>3, <3>4, <3>7, <3>8, <4>2
        <5>2. w[i - (L - Len(w))] = log[c][L - Len(w) + (i - (L - Len(w)))]
          BY <3>9, <5>1
        <5>3. L - Len(w) + (i - (L - Len(w))) = i
          BY <1>1, <3>3
        <5> QED
          BY <3>4, <5>1, <5>2, <5>3
      <4> QED
        BY <1>1, <3>3, <4>1, <4>2
    <3>11. \A i \in 1 .. n : p[i] = log[c][L - n + i]
      <4> SUFFICES ASSUME NEW i \in 1 .. n
                   PROVE  p[i] = log[c][L - n + i]
        OBVIOUS
      <4>1. f + i - 1 \in 1 .. Len(w) /\ L - Len(w) + (f + i - 1) = L - n + i
        BY <1>1, <3>3, <3>4, <3>7
      <4>2. p[i] = w[f + i - 1]
        BY <3>6, <3>7
      <4> QED
        BY <3>9, <4>1, <4>2
    <3>12. \A i \in L - n + 1 .. L : now - log[c][i] <= Window
      <4> SUFFICES ASSUME NEW i \in L - n + 1 .. L
                   PROVE  now - log[c][i] <= Window
        OBVIOUS
      <4>1. f <= Len(w) /\ L - n + 1 \in 1 .. L /\ i \in 1 .. L /\ L - Len(w) + f = L - n + 1
        BY <1>1, <3>3, <3>4, <3>7, <3>8
      <4>2. f \in 1 .. Len(w)
        BY <3>3, <3>4, <4>1
      <4>3. now - log[c][L - n + 1] <= Window
        BY <3>4, <3>9, <4>1, <4>2
      <4>4. log[c][L - n + 1] <= log[c][i]
        BY <1>1, <1>2, <4>1 DEF Chronological, L
      <4>5. /\ now \in Int /\ Window \in Int
            /\ log[c][L - n + 1] \in Int /\ log[c][i] \in Int
        BY <1>1, <1>2, <4>1
      <4> HIDE DEF L, n
      <4> QED
        BY <4>3, <4>4, <4>5
    <3>13. EndOfLog(p, c)
      <4>1. Len(p) = n /\ n <= L
        BY <1>1, <3>3, <3>4, <3>6, <3>7, <3>8
      <4> QED
        BY <3>10, <3>11, <4>1 DEF EndOfLog, L
    <3> QED
      BY <3>1, <3>6, <3>12, <3>13
  <2> QED
    BY <2>1, <2>2
<1>4. n \in Nat /\ n <= L /\ \A i \in 1 .. L - n : now - log[c][i] > Window
  BY <1>3, LenProperties DEF EndOfLog
<1> HIDE DEF n, L
<1>5. {i \in 1 .. L : now - log[c][i] <= Window} = L - n + 1 .. L
  <2>1. \A i \in 1 .. L : i <= L - n => ~(now - log[c][i] <= Window)
    BY <1>1, <1>2, <1>4
  <2> QED
    BY <1>1, <1>3, <1>4, <2>1
<1>6. Promise!InWindow(c) = L - n + 1 .. L
  BY <1>1, <1>5 DEF Promise!InWindow
<1>7. Cardinality(L - n + 1 .. L) = n
  <2>1. L - n + 1 \in Int /\ L \in Int
    BY <1>1, <1>4
  <2>2. Cardinality(L - n + 1 .. L) = IF L - n + 1 > L THEN 0 ELSE L - (L - n + 1) + 1
    BY <2>1, FS_Interval
  <2> QED
    BY <1>1, <1>4, <2>2
<1> QED
  BY <1>3, <1>6, <1>7 DEF n

-----------------------------------------------------------------------------
LEMMA LimiterInitInv == LimiterInit => LimiterInv
<1> SUFFICES ASSUME LimiterInit PROVE LimiterInv
  OBVIOUS
<1>1. <<>> \in Seq(Nat) /\ Len(<<>>) = 0
  BY EmptySeq
<1>2. /\ hits = [c \in {} |-> <<>>] /\ now = 0 /\ calledAt = 0
      /\ log = [c \in Clients |-> <<>>] /\ verdict \in {<<c, TRUE>> : c \in Clients}
  BY DEF LimiterInit
<1>3. LimiterTypeOK
  <2>1. DOMAIN hits = {} /\ now \in Nat /\ calledAt \in Nat
    BY <1>2
  <2>2. log \in [Clients -> Seq(Nat)]
    BY <1>1, <1>2
  <2>3. verdict \in Clients \X BOOLEAN
    <3>1. PICK d \in Clients : verdict = <<d, TRUE>>
      BY <1>2
    <3> QED
      BY <3>1
  <2> QED
    BY <2>1, <2>2, <2>3 DEF LimiterTypeOK
<1>4. ASSUME NEW c \in Clients
      PROVE  EndOfLog(Remembered(c), c) /\ Chronological(c)
  BY <1>1, <1>2 DEF EndOfLog, Remembered, Chronological
<1> QED
  BY <1>3, <1>4 DEF LimiterInv

\* The clock only makes entries older.
LEMMA LimiterTickInv ==
  ASSUME LimiterInv, LimiterTick
  PROVE  LimiterInv'
<1>1. now \in Nat /\ now' = now + 1 /\ UNCHANGED <<hits, log, verdict, calledAt>>
  BY DEF LimiterInv, LimiterTypeOK, LimiterTick
<1>2. LimiterTypeOK'
  BY <1>1 DEF LimiterInv, LimiterTypeOK
<1>3. ASSUME NEW c \in Clients
      PROVE  EndOfLog(Remembered(c), c)' /\ Chronological(c)'
  <2>1. /\ Len(log[c]) \in Nat /\ (\A i \in 1 .. Len(log[c]) : log[c][i] \in Nat)
        /\ Window \in Nat
    BY LenProperties, LimiterAssumption DEF LimiterInv, LimiterTypeOK
  <2>2. EndOfLog(Remembered(c), c) /\ Chronological(c) /\ Remembered(c)' = Remembered(c)
    BY <1>1 DEF LimiterInv, Remembered
  <2>3. Len(Remembered(c)) \in Nat
    <3>1. Remembered(c) \in Seq(Nat)
      BY EmptySeq DEF Remembered, LimiterInv, LimiterTypeOK
    <3> QED
      BY <3>1, LenProperties
  <2>4. \A i \in 1 .. Len(log[c]) - Len(Remembered(c)) : i \in 1 .. Len(log[c])
    BY <2>1, <2>3
  <2>5. \A i \in 1 .. Len(log[c]) - Len(Remembered(c)) : now' - log[c][i] > Window
    BY <1>1, <2>1, <2>2, <2>4 DEF EndOfLog
  <2>6. \A i \in 1 .. Len(log[c]) : log[c][i] <= now'
    BY <1>1, <2>1, <2>2 DEF Chronological
  <2> QED
    BY <1>1, <2>2, <2>5, <2>6 DEF EndOfLog, Chronological
<1> QED
  BY <1>2, <1>3 DEF LimiterInv

\* A call records exactly what the complete log of admissions would.
LEMMA CallFacts ==
  ASSUME LimiterInv, NEW c \in Clients, RateLimited(c)
  PROVE  /\ LimiterInv'
         /\ Promise!Admit(c) \/ Promise!Refuse(c)
<1> DEFINE w == WindowOf(c)
           ok == Len(w) < Limit
<1>1. w \in Seq(Nat) /\ EndOfLog(w, c) /\ Len(w) = Cardinality(Promise!InWindow(c))
  BY WindowOfFacts
<1>2. /\ hits' = [d \in DOMAIN Kept \cup {c} |->
                    IF d # c THEN Kept[d] ELSE IF ok THEN Append(w, now) ELSE w]
      /\ log' = IF ok THEN [log EXCEPT ![c] = Append(@, now)] ELSE log
      /\ verdict' = <<c, ok>> /\ calledAt' = now /\ now' = now
  BY DEF RateLimited
<1>3. Len(w) \in Nat /\ Limit \in Nat /\ Window \in Nat /\ ok \in BOOLEAN
  BY <1>1, LenProperties, LimiterAssumption
<1>4. now \in Nat /\ log \in [Clients -> Seq(Nat)] /\ DOMAIN hits \subseteq Clients
  BY DEF LimiterInv, LimiterTypeOK
<1>5. /\ Append(w, now) \in Seq(Nat) /\ Len(Append(w, now)) = Len(w) + 1
      /\ \A i \in 1 .. Len(w) : Append(w, now)[i] = w[i]
      /\ Append(w, now)[Len(w) + 1] = now
  BY <1>1, <1>4, AppendProperties
<1>6. log[c] \in Seq(Nat)
  BY <1>4
<1>7. /\ Append(log[c], now) \in Seq(Nat) /\ Len(Append(log[c], now)) = Len(log[c]) + 1
      /\ \A i \in 1 .. Len(log[c]) : Append(log[c], now)[i] = log[c][i]
      /\ Append(log[c], now)[Len(log[c]) + 1] = now
  BY <1>4, <1>6, AppendProperties
<1>8. Len(log[c]) \in Nat /\ \A i \in 1 .. Len(log[c]) : log[c][i] \in Nat
  BY <1>6, LenProperties
<1> HIDE DEF ok, w
<1>9. Promise!Admit(c) \/ Promise!Refuse(c)
  <2>1. CASE ok
    <3>1. Cardinality(Promise!InWindow(c)) < Limit
      BY <1>1, <2>1 DEF ok
    <3>2. verdict' = <<c, TRUE>>
      BY <1>2, <1>3, <2>1
    <3>3. log' = [log EXCEPT ![c] = Append(@, now)] /\ now' = now
      BY <1>2, <2>1
    <3> QED
      BY SameCount, <3>1, <3>2, <3>3 DEF Promise!Admit
  <2>2. CASE ~ok
    <3>1. Cardinality(Promise!InWindow(c)) >= Limit
      BY <1>1, <1>3, <2>2 DEF ok
    <3>2. verdict' = <<c, FALSE>>
      BY <1>2, <1>3, <2>2
    <3>3. log' = log /\ now' = now
      BY <1>2, <2>2
    <3> QED
      BY SameCount, <3>1, <3>2, <3>3 DEF Promise!Refuse
  <2> QED
    BY <2>1, <2>2
<1>10. LimiterTypeOK'
  <2>1. DOMAIN hits' \subseteq Clients /\ \A d \in DOMAIN hits' : hits'[d] \in Seq(Nat)
    <3>1. DOMAIN hits' = DOMAIN Kept \cup {c}
      BY <1>2
    <3>2. \A d \in DOMAIN Kept : d \in Clients /\ Kept[d] \in Seq(Nat)
      BY <1>4, KeptFacts
    <3> QED
      BY <1>1, <1>2, <1>5, <3>1, <3>2
  <2>2. log' \in [Clients -> Seq(Nat)]
    BY <1>2, <1>4, <1>7
  <2> QED
    BY <1>2, <1>3, <1>4, <2>1, <2>2 DEF LimiterTypeOK
<1>11. \A d \in Clients \ {c} : log'[d] = log[d]
  BY <1>2, <1>4
<1>12. ASSUME NEW d \in Clients \ {c}
       PROVE  EndOfLog(Remembered(d), d)' /\ Chronological(d)'
  <2>1. Chronological(d)'
    BY <1>2, <1>11 DEF LimiterInv, Chronological
  <2>2. d \in DOMAIN Kept => Remembered(d)' = hits[d] /\ EndOfLog(hits[d], d)
    <3>1. d \in DOMAIN Kept => d \in DOMAIN hits /\ Kept[d] = hits[d]
      BY KeptFacts
    <3>2. d \in DOMAIN Kept => d \in DOMAIN hits' /\ hits'[d] = Kept[d]
      BY <1>2
    <3> QED
      BY <3>1, <3>2 DEF Remembered, LimiterInv
  <2>3. d \notin DOMAIN Kept => Remembered(d)' = <<>> /\ EndOfLog(<<>>, d)
    BY <1>2, KeptFacts DEF Remembered
  <2>4. EndOfLog(Remembered(d)', d)
    BY <2>2, <2>3
  <2> QED
    BY <1>2, <1>11, <2>1, <2>4 DEF EndOfLog
<1>13. Remembered(c)' = IF ok THEN Append(w, now) ELSE w
  BY <1>2 DEF Remembered
<1>14. Chronological(c)'
  <2>1. CASE ~ok
    BY <1>2, <2>1 DEF LimiterInv, Chronological
  <2>2. CASE ok
    <3>1. log'[c] = Append(log[c], now)
      BY <1>2, <1>4, <2>2
    <3>2. \A i \in 1 .. Len(log[c]) + 1 : log'[c][i] <= now
      BY <1>4, <1>7, <1>8, <3>1 DEF LimiterInv, Chronological
    <3>3. \A i, j \in 1 .. Len(log[c]) + 1 : i <= j => log'[c][i] <= log'[c][j]
      <4> SUFFICES ASSUME NEW i \in 1 .. Len(log[c]) + 1, NEW j \in 1 .. Len(log[c]) + 1, i <= j
                   PROVE  log'[c][i] <= log'[c][j]
        OBVIOUS
      <4>1. CASE j = Len(log[c]) + 1
        BY <1>7, <3>1, <3>2, <4>1
      <4>2. CASE j # Len(log[c]) + 1
        <5>1. i \in 1 .. Len(log[c]) /\ j \in 1 .. Len(log[c])
          BY <1>8, <4>2
        <5>2. log[c][i] <= log[c][j]
          BY <5>1 DEF LimiterInv, Chronological
        <5> QED
          BY <1>7, <3>1, <5>1, <5>2
      <4> QED
        BY <4>1, <4>2
    <3> QED
      BY <1>2, <1>7, <3>1, <3>2, <3>3 DEF Chronological
  <2> QED
    BY <1>3, <2>1, <2>2
<1>15. EndOfLog(Remembered(c), c)'
  <2>1. CASE ~ok
    BY <1>1, <1>2, <1>13, <2>1 DEF EndOfLog
  <2>2. CASE ok
    <3>1. log'[c] = Append(log[c], now) /\ Remembered(c)' = Append(w, now)
      BY <1>2, <1>4, <1>13, <2>2
    <3> DEFINE L == Len(log[c])
               n == Len(w)
    <3>2. /\ n <= L /\ (\A i \in 1 .. L - n : now - log[c][i] > Window)
          /\ \A i \in 1 .. n : w[i] = log[c][L - n + i]
      BY <1>1 DEF EndOfLog
    <3>3. n + 1 <= L + 1 /\ (L + 1) - (n + 1) = L - n /\ \A i \in 1 .. L - n : i \in 1 .. L
      BY <1>3, <1>8, <3>2
    <3>4. \A i \in 1 .. L - n : now' - log'[c][i] > Window
      BY <1>2, <1>7, <3>1, <3>2, <3>3
    <3>5. ASSUME NEW i \in 1 .. n + 1
          PROVE  Append(w, now)[i] = log'[c][L - n + i]
      <4>1. CASE i = n + 1
        <5>1. L - n + i = L + 1
          <6>1. L \in Nat /\ n \in Nat
            BY <1>3, <1>8
          <6> HIDE DEF L, n
          <6> QED
            BY <4>1, <6>1
        <5> QED
          BY <1>5, <1>7, <3>1, <4>1, <5>1
      <4>2. CASE i # n + 1
        <5>1. i \in 1 .. n /\ L - n + i \in 1 .. L
          BY <1>3, <1>8, <3>2, <4>2
        <5> QED
          BY <1>5, <1>7, <3>1, <3>2, <5>1
      <4> QED
        BY <4>1, <4>2
    <3>6. Len(Remembered(c)') = n + 1 /\ Len(log'[c]) = L + 1
      BY <1>5, <1>7, <3>1
    <3> HIDE DEF n, L
    <3>7. /\ Len(Remembered(c)') <= Len(log'[c])
          /\ Len(log'[c]) - Len(Remembered(c)') = L - n
      BY <3>3, <3>6
    <3>8. \A i \in 1 .. Len(log'[c]) - Len(Remembered(c)') : now' - log'[c][i] > Window
      BY <3>4, <3>7
    <3>9. \A i \in 1 .. Len(Remembered(c)') :
             Remembered(c)'[i] = log'[c][Len(log'[c]) - Len(Remembered(c)') + i]
      BY <3>1, <3>5, <3>6, <3>7
    <3> QED
      BY <3>7, <3>8, <3>9 DEF EndOfLog
  <2> QED
    BY <1>3, <2>1, <2>2
<1>16. \A d \in Clients : EndOfLog(Remembered(d), d)' /\ Chronological(d)'
  BY <1>12, <1>14, <1>15
<1> QED
  BY <1>9, <1>10, <1>16 DEF LimiterInv

-----------------------------------------------------------------------------
LEMMA LimiterStep == LimiterInv /\ [LimiterNext]_limiterVars => LimiterInv'
<1> SUFFICES ASSUME LimiterInv, [LimiterNext]_limiterVars PROVE LimiterInv'
  OBVIOUS
<1>1. CASE LimiterTick
  BY <1>1, LimiterTickInv
<1>2. ASSUME NEW c \in Clients, RateLimited(c) PROVE LimiterInv'
  BY <1>2, CallFacts
<1>3. CASE UNCHANGED limiterVars
  BY <1>3 DEF limiterVars, LimiterInv, LimiterTypeOK, EndOfLog, Remembered, Chronological
<1> QED
  BY <1>1, <1>2, <1>3 DEF LimiterNext

\* Type correctness of the limiter, with the facts it is proved together with.
THEOREM LimiterCorrect == LimiterSpec => []LimiterInv
BY LimiterInitInv, LimiterStep, PTL DEF LimiterSpec

\* The variables keep the shapes LimiterTypeOK gives them.
THEOREM LimiterTypes == LimiterSpec => []LimiterTypeOK
<1>1. LimiterInv => LimiterTypeOK
  BY DEF LimiterInv
<1> QED
  BY <1>1, LimiterCorrect, PTL

\* _rate_limited decides every request as a limiter with an unbounded log
\* would: pruning, popping and re-creating entries is never observable.
THEOREM LimiterImplementsSlidingWindow == LimiterSpec => ImplementsSlidingWindow
<1>1. LimiterInit => Promise!Init
  BY DEF LimiterInit, Promise!Init
<1>2. LimiterInv /\ [LimiterNext]_limiterVars => [Promise!Next]_(Promise!vars)
  <2> SUFFICES ASSUME LimiterInv, [LimiterNext]_limiterVars
               PROVE  [Promise!Next]_(Promise!vars)
    OBVIOUS
  <2>1. CASE LimiterTick
    BY <2>1 DEF LimiterTick, LimiterInv, LimiterTypeOK, Promise!Next, Promise!Tick
  <2>2. ASSUME NEW c \in Clients, RateLimited(c) PROVE Promise!Next
    BY <2>2, CallFacts DEF Promise!Next
  <2>3. CASE UNCHANGED limiterVars
    BY <2>3 DEF limiterVars, Promise!vars
  <2> QED
    BY <2>1, <2>2, <2>3 DEF LimiterNext
<1> QED
  BY <1>1, <1>2, LimiterCorrect, PTL DEF LimiterSpec, ImplementsSlidingWindow, Promise!Spec

\* One call keeps the gap between an admission and the Limit-th one before it.
LEMMA CallKeepsGap ==
  ASSUME LimiterInv, NeverOverLimit, NEW c \in Clients, RateLimited(c)
  PROVE  NeverOverLimit'
<1> DEFINE w == WindowOf(c)
           L == Len(log[c])
<1>1. w \in Seq(Nat) /\ EndOfLog(w, c) /\ Len(w) \in Nat /\ Limit \in Nat /\ Window \in Nat
  BY WindowOfFacts, LenProperties, LimiterAssumption
<1>2. /\ log' = IF Len(w) < Limit THEN [log EXCEPT ![c] = Append(@, now)] ELSE log
      /\ now' = now
  BY DEF RateLimited
<1>3. now \in Nat /\ log \in [Clients -> Seq(Nat)] /\ log[c] \in Seq(Nat) /\ L \in Nat
  BY LenProperties DEF LimiterInv, LimiterTypeOK
<1>4. CASE ~(Len(w) < Limit)
  BY <1>2, <1>4 DEF NeverOverLimit
<1>5. CASE Len(w) < Limit
  <2>1. log'[c] = Append(log[c], now) /\ \A d \in Clients \ {c} : log'[d] = log[d]
    BY <1>2, <1>3, <1>5
  <2>2. /\ DOMAIN log'[c] = 1 .. L + 1
        /\ \A i \in 1 .. L : log'[c][i] = log[c][i]
        /\ log'[c][L + 1] = now
    <3>1. /\ Append(log[c], now) \in Seq(Nat) /\ Len(Append(log[c], now)) = L + 1
          /\ \A i \in 1 .. L : Append(log[c], now)[i] = log[c][i]
          /\ Append(log[c], now)[L + 1] = now
      BY <1>3, AppendProperties
    <3>2. DOMAIN Append(log[c], now) = 1 .. L + 1
      BY <3>1, LenProperties
    <3> QED
      BY <2>1, <3>1, <3>2
  <2>3. DOMAIN log[c] = 1 .. L
    BY <1>3, LenProperties
  <2>4. \A i \in 1 .. L - Len(w) : now - log[c][i] > Window
    BY <1>1 DEF EndOfLog
  <2>5. ASSUME NEW i \in 1 .. L + 1, NEW j \in 1 .. L + 1, j - i >= Limit
        PROVE  log'[c][j] - log'[c][i] > Window
    <3>1. CASE j = L + 1
      <4>1. CASE i = L + 1
        <5>1. FALSE
          BY <1>1, <1>5, <2>5, <3>1, <4>1
        <5> QED
          BY <5>1
      <4>2. CASE i # L + 1
        <5>1. i \in 1 .. L - Len(w) /\ i \in 1 .. L
          BY <1>1, <1>3, <1>5, <2>5, <3>1, <4>2
        <5> QED
          BY <2>2, <2>4, <3>1, <5>1
      <4> QED
        BY <4>1, <4>2
    <3>2. CASE j # L + 1
      <4>1. i \in 1 .. L /\ j \in 1 .. L
        BY <1>1, <1>3, <2>5, <3>2
      <4> QED
        BY <2>2, <2>3, <2>5, <4>1 DEF NeverOverLimit
    <3> QED
      BY <3>1, <3>2
  <2>6. ASSUME NEW d \in Clients \ {c}, NEW i \in DOMAIN log'[d], NEW j \in DOMAIN log'[d],
               j - i >= Limit
        PROVE  log'[d][j] - log'[d][i] > Window
    BY <2>1, <2>6 DEF NeverOverLimit
  <2> QED
    BY <2>2, <2>5, <2>6 DEF NeverOverLimit
<1> QED
  BY <1>4, <1>5

\* A client is admitted at most Limit times in any span of Window seconds.
THEOREM AtMostLimitPerWindow == LimiterSpec => []NeverOverLimit
<1>1. LimiterInit => NeverOverLimit
  <2>1. DOMAIN <<>> = {}
    BY EmptySeq, LenProperties
  <2> QED
    BY <2>1 DEF LimiterInit, NeverOverLimit
<1>2. LimiterInv /\ NeverOverLimit /\ [LimiterNext]_limiterVars => NeverOverLimit'
  <2> SUFFICES ASSUME LimiterInv, NeverOverLimit, [LimiterNext]_limiterVars
               PROVE  NeverOverLimit'
    OBVIOUS
  <2>1. ASSUME NEW c \in Clients, RateLimited(c) PROVE NeverOverLimit'
    BY <2>1, CallKeepsGap
  <2>2. CASE LimiterTick \/ UNCHANGED limiterVars
    BY <2>2 DEF LimiterTick, limiterVars, NeverOverLimit
  <2> QED
    BY <2>1, <2>2 DEF LimiterNext
<1> QED
  BY <1>1, <1>2, LimiterCorrect, PTL DEF LimiterSpec

\* A table that has outgrown its limit was pruned by the last call.
LEMMA CallOutgrows ==
  ASSUME LimiterInv, NEW c \in Clients, RateLimited(c)
  PROVE  OutgrownOnlyByLiveClients'
<1>1. /\ DOMAIN hits' = DOMAIN Kept \cup {c} /\ verdict'[1] = c /\ calledAt' = now
      /\ \A d \in Clients \ {c} : log'[d] = log[d]
  BY DEF RateLimited, LimiterInv, LimiterTypeOK
<1>2. SUFFICES ASSUME Cardinality(DOMAIN hits') > MaxTrackedKeys + 1,
                      NEW d \in DOMAIN hits' \ {c}
               PROVE  \E i \in DOMAIN log'[d] : now - log'[d][i] <= Window
  BY <1>1 DEF OutgrownOnlyByLiveClients
<1>3. d \in DOMAIN Kept /\ d \in Clients \ {c} /\ d \in DOMAIN hits
  BY <1>1, <1>2, KeptFacts DEF LimiterInv, LimiterTypeOK
<1>4. Cardinality(DOMAIN hits) > MaxTrackedKeys
  <2>1. IsFiniteSet(DOMAIN hits) /\ IsFiniteSet(DOMAIN Kept)
    BY FS_Subset, LimiterAssumption, KeptFacts DEF LimiterInv, LimiterTypeOK
  <2>2. /\ Cardinality(DOMAIN Kept) <= Cardinality(DOMAIN hits)
        /\ Cardinality(DOMAIN Kept) \in Nat /\ Cardinality(DOMAIN hits) \in Nat
    BY <2>1, FS_Subset, FS_CardinalityType, KeptFacts
  <2>3. Cardinality(DOMAIN hits') <= Cardinality(DOMAIN Kept) + 1
    <3>1. Cardinality(DOMAIN Kept \cup {c})
            = IF c \in DOMAIN Kept THEN Cardinality(DOMAIN Kept) ELSE Cardinality(DOMAIN Kept) + 1
      BY <2>1, FS_AddElement
    <3> QED
      BY <1>1, <2>2, <3>1
  <2>4. Cardinality(DOMAIN hits') \in Nat
    BY <1>1, <2>1, FS_AddElement, FS_CardinalityType
  <2>5. MaxTrackedKeys \in Nat
    BY LimiterAssumption
  <2> QED
    BY <1>2, <2>2, <2>3, <2>4, <2>5
<1>5. Live(hits[d])
  BY <1>3, <1>4 DEF Kept, Restrict
<1>6. hits[d] \in Seq(Nat) /\ log[d] \in Seq(Nat) /\ EndOfLog(hits[d], d)
  BY <1>3 DEF LimiterInv, LimiterTypeOK, Remembered
<1> DEFINE w == hits[d]
           L == Len(log[d])
<1>7. /\ Len(w) \in Nat \ {0} /\ L \in Nat /\ DOMAIN log[d] = 1 .. L
      /\ now - w[Len(w)] <= Window
  BY <1>5, <1>6, EmptySeq, LenProperties DEF Live
<1>8. Len(w) <= L /\ \A i \in 1 .. Len(w) : w[i] = log[d][L - Len(w) + i]
  BY <1>6 DEF EndOfLog
<1>9. L \in DOMAIN log[d] /\ w[Len(w)] = log[d][L]
  <2> HIDE DEF w, L
  <2>1. L \in 1 .. L /\ Len(w) \in 1 .. Len(w) /\ L - Len(w) + Len(w) = L
    BY <1>7, <1>8
  <2> QED
    BY <1>7, <1>8, <2>1
<1> QED
  BY <1>1, <1>3, <1>7, <1>9

\* Memory beyond MaxTrackedKeys + 1 windows is held only for live clients.
THEOREM OnlyLiveClientsOutgrow == LimiterSpec => []OutgrownOnlyByLiveClients
<1>1. LimiterInit => OutgrownOnlyByLiveClients
  <2> SUFFICES ASSUME LimiterInit PROVE OutgrownOnlyByLiveClients
    OBVIOUS
  <2>1. DOMAIN hits = {}
    BY DEF LimiterInit
  <2> QED
    BY <2>1 DEF OutgrownOnlyByLiveClients
<1>2. LimiterInv /\ OutgrownOnlyByLiveClients /\ [LimiterNext]_limiterVars
        => OutgrownOnlyByLiveClients'
  <2> SUFFICES ASSUME LimiterInv, OutgrownOnlyByLiveClients, [LimiterNext]_limiterVars
               PROVE  OutgrownOnlyByLiveClients'
    OBVIOUS
  <2>1. ASSUME NEW c \in Clients, RateLimited(c) PROVE OutgrownOnlyByLiveClients'
    BY <2>1, CallOutgrows
  <2>2. CASE LimiterTick \/ UNCHANGED limiterVars
    BY <2>2 DEF LimiterTick, limiterVars, OutgrownOnlyByLiveClients
  <2> QED
    BY <2>1, <2>2 DEF LimiterNext
<1> QED
  BY <1>1, <1>2, LimiterCorrect, PTL DEF LimiterSpec
=============================================================================
