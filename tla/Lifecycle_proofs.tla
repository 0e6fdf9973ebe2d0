--------------------------- MODULE Lifecycle_proofs ---------------------------
(***************************************************************************)
(* Proofs about Emitter, for every set of apps and every limit, and about  *)
(* Lifecycle, for every number of clients, proxies and components, every   *)
(* body limit and every size of body.                                      *)
(***************************************************************************)
EXTENDS Lifecycle, SequenceTheorems, FiniteSetTheorems, TLAPS

-----------------------------------------------------------------------------
\* The emitter.

\* The inductive invariant: the table is finite and within its bound, and what
\* was logged under a service name has its provider in the table.
EmitterInv == EmitterTypeOK /\ IsFiniteSet(loggers) /\ ProvidersBounded /\ Attributed

-----------------------------------------------------------------------------
\* Registering the logger of an app keeps the table within its bound.
LEMMA RegisterFacts ==
  ASSUME EmitterTypeOK, IsFiniteSet(loggers), ProvidersBounded, NEW app \in Services
  PROVE  LET table == loggers \cup {LoggerFor(app)} IN
         /\ LoggerFor(app) \in Services /\ table \subseteq Services
         /\ IsFiniteSet(table)
         /\ Cardinality(table) <= MaxAppServices + 1
         /\ Cardinality(table \ {FallbackService}) <= MaxAppServices
<1> DEFINE s == LoggerFor(app)
           table == loggers \cup {s}
           own == loggers \ {FallbackService}
<1>1. /\ s \in Services /\ table \subseteq Services
      /\ s = app \/ s = FallbackService
      /\ s \in loggers \/ Cardinality(loggers) < MaxAppServices \/ s = FallbackService
  <2>1. MaxAppServices \in Nat /\ Cardinality(loggers) \in Nat
    BY FS_CardinalityType, EmitterAssumption
  <2> QED
    BY <2>1 DEF LoggerFor, Services, EmitterTypeOK
<1>2. MaxAppServices \in Nat /\ Cardinality(loggers) \in Nat
  BY FS_CardinalityType, EmitterAssumption
<1>3. /\ IsFiniteSet(own) /\ Cardinality(own) \in Nat
      /\ Cardinality(own) = IF FallbackService \in loggers THEN Cardinality(loggers) - 1
                                                          ELSE Cardinality(loggers)
  BY FS_RemoveElement, FS_CardinalityType
<1>4. Cardinality(loggers) <= MaxAppServices + 1 /\ Cardinality(own) <= MaxAppServices
  BY DEF ProvidersBounded
<1>5. /\ IsFiniteSet(table)
      /\ Cardinality(table) = IF s \in loggers THEN Cardinality(loggers) ELSE Cardinality(loggers) + 1
  BY FS_AddElement
<1> HIDE DEF s
<1>6. CASE s \in loggers
  <2>1. table = loggers
    BY <1>6
  <2> QED
    BY <1>1, <1>4, <1>5, <1>6, <2>1 DEF s
<1>7. CASE s \notin loggers /\ s = FallbackService
  <2>1. table \ {FallbackService} = own /\ Cardinality(own) = Cardinality(loggers)
    BY <1>3, <1>7
  <2> HIDE DEF own, table
  <2>2. Cardinality(loggers) <= MaxAppServices
    BY <1>4, <2>1
  <2>3. Cardinality(table) <= MaxAppServices + 1
    BY <1>2, <1>5, <1>7, <2>2
  <2>4. Cardinality(table \ {FallbackService}) <= MaxAppServices
    BY <1>4, <2>1
  <2> QED
    BY <1>1, <1>5, <2>3, <2>4 DEF s, table
<1>8. CASE s \notin loggers /\ s # FallbackService
  <2>1. Cardinality(loggers) < MaxAppServices
    BY <1>1, <1>8
  <2>2. table \ {FallbackService} \subseteq table
    OBVIOUS
  <2> HIDE DEF own, table
  <2>3. /\ Cardinality(table \ {FallbackService}) <= Cardinality(table)
        /\ Cardinality(table) \in Nat /\ Cardinality(table \ {FallbackService}) \in Nat
    BY <1>5, <2>2, FS_Subset, FS_CardinalityType
  <2>4. Cardinality(table) <= MaxAppServices + 1 /\ Cardinality(table \ {FallbackService}) <= MaxAppServices
    BY <1>2, <1>5, <1>8, <2>1, <2>3
  <2> QED
    BY <1>1, <1>5, <2>4 DEF s, table
<1> QED
  BY <1>6, <1>7, <1>8

LEMMA EmitterInitInv == EmitterInit => EmitterInv
<1> SUFFICES ASSUME EmitterInit PROVE EmitterInv
  OBVIOUS
<1>1. loggers = {} /\ loggers \ {FallbackService} = {} /\ records = <<>> /\ wasFull = FALSE
  BY DEF EmitterInit
<1>2. IsFiniteSet({}) /\ Cardinality({}) = 0 /\ MaxAppServices \in Nat
  BY FS_EmptySet, EmitterAssumption
<1>3. <<>> \in Seq([app : Services, service : Outcomes])
  BY EmptySeq
<1>4. ProvidersBounded
  <2>1. Cardinality(loggers) = 0 /\ Cardinality(loggers \ {FallbackService}) = 0
    BY <1>1, <1>2
  <2> QED
    BY <1>2, <2>1 DEF ProvidersBounded
<1>5. EmitterTypeOK
  BY <1>1, <1>3 DEF EmitterTypeOK
<1>6. Attributed
  BY <1>1 DEF Attributed
<1> QED
  BY <1>1, <1>2, <1>4, <1>5, <1>6 DEF EmitterInv

\* Emitting one more record keeps every earlier record attributed, and
\* attributes the new one.
LEMMA EmitAttributes ==
  ASSUME EmitterTypeOK, IsFiniteSet(loggers), Attributed, NEW app \in Services,
         NEW service, NEW registered \in BOOLEAN,
         service \in IF Endpoint THEN {LoggerFor(app), "failed"} ELSE {"stdout"},
         service \in Services => registered,
         loggers' = IF registered THEN loggers \cup {LoggerFor(app)} ELSE loggers,
         IsFiniteSet(loggers'),
         records' = Append(records, [app |-> app, service |-> service]),
         wasFull' = (wasFull \/ Cardinality(loggers') >= MaxAppServices)
  PROVE  Attributed'
<1> DEFINE new == [app |-> app, service |-> service]
           n == Len(records)
<1>1. loggers \subseteq loggers' /\ (wasFull => wasFull')
  OBVIOUS
<1>2. /\ n \in Nat /\ DOMAIN records = 1 .. n /\ DOMAIN records' = 1 .. n + 1
      /\ \A i \in 1 .. n : records'[i] = records[i] /\ records[i].app \in Services
      /\ records'[n + 1] = new
  <2>1. records \in Seq([app : Services, service : Outcomes])
    BY DEF EmitterTypeOK
  <2>2. n \in Nat /\ DOMAIN records = 1 .. n
    BY <2>1
  <2>3. \A i \in 1 .. n : records[i] \in [app : Services, service : Outcomes]
    BY <2>1, ElementOfSeq
  <2>4. \A i \in 1 .. n : records[i].app \in Services
    BY <2>3
  <2>5. LoggerFor(app) \in Services
    BY DEF LoggerFor, Services
  <2>6. new \in [app : Services, service : Outcomes]
    BY <2>5 DEF Outcomes
  <2> HIDE DEF new
  <2>7. /\ records' \in Seq([app : Services, service : Outcomes]) /\ Len(records') = n + 1
        /\ \A i \in 1 .. n : records'[i] = records[i]
        /\ records'[n + 1] = new
    BY <2>1, <2>6, AppendProperties DEF new
  <2>8. DOMAIN records' = 1 .. n + 1
    BY <2>7
  <2> QED
    BY <2>2, <2>4, <2>7, <2>8
<1> SUFFICES ASSUME NEW j \in 1 .. n + 1
             PROVE  LET r == records'[j] IN
                    /\ r.service \in Services => r.service \in {r.app, FallbackService} \cap loggers'
                    /\ (r.service = FallbackService /\ r.app # FallbackService) =>
                          /\ wasFull'
                          /\ \A i \in 1 .. j - 1 : records'[i].app = r.app => records'[i].service # r.app
  BY <1>2 DEF Attributed
<1>3. CASE j \in 1 .. n
  <2>1. /\ records'[j] = records[j]
        /\ \A i \in 1 .. j - 1 : records'[i] = records[i]
    BY <1>2, <1>3
  <2> QED
    BY <1>1, <1>2, <1>3, <2>1 DEF Attributed
<1>4. CASE j = n + 1
  <2>1. records'[j] = new /\ new.app = app /\ new.service = service
    BY <1>2, <1>4
  <2>2. ASSUME service \in Services
        PROVE  service = LoggerFor(app) /\ service \in {app, FallbackService} \cap loggers'
    <3>1. "failed" \notin Services /\ "stdout" \notin Services
      BY EmitterAssumption DEF Services
    <3>2. service = LoggerFor(app)
      BY <2>2, <3>1
    <3> QED
      BY <2>2, <3>2 DEF LoggerFor
  <2>3. ASSUME service = FallbackService, app # FallbackService
        PROVE  wasFull' /\ \A i \in 1 .. n : records[i].app = app => records[i].service # app
    <3>1. service \in Services
      BY <2>3 DEF Services
    <3>2. app \notin loggers /\ Cardinality(loggers) >= MaxAppServices
      BY <2>2, <2>3, <3>1 DEF LoggerFor
    <3>3. Cardinality(loggers) <= Cardinality(loggers')
      BY <1>1, FS_Subset
    <3>4. wasFull'
      <4>1. Cardinality(loggers) \in Nat /\ Cardinality(loggers') \in Nat /\ MaxAppServices \in Nat
        BY FS_CardinalityType, EmitterAssumption
      <4>2. Cardinality(loggers') >= MaxAppServices
        BY <3>2, <3>3, <4>1
      <4> QED
        BY <4>2
    <3>5. ASSUME NEW i \in 1 .. n, records[i].app = app PROVE records[i].service # app
      BY <1>2, <3>2, <3>5 DEF Attributed
    <3> QED
      BY <3>4, <3>5
  <2>4. \A i \in 1 .. j - 1 : i \in 1 .. n /\ records'[i] = records[i]
    BY <1>2, <1>4
  <2> HIDE DEF new
  <2> QED
    BY <2>1, <2>2, <2>3, <2>4
<1> QED
  BY <1>2, <1>3, <1>4

\* Emitter.emit keeps the invariant.
LEMMA EmitKeeps ==
  ASSUME EmitterInv, NEW app \in Services, Emit(app)
  PROVE  EmitterInv'
<1>1. PICK service \in IF Endpoint THEN {LoggerFor(app), "failed"} ELSE {"stdout"},
           registered \in BOOLEAN :
         /\ service \in Services => registered
         /\ loggers' = IF registered THEN loggers \cup {LoggerFor(app)} ELSE loggers
         /\ records' = Append(records, [app |-> app, service |-> service])
         /\ wasFull' = (wasFull \/ Cardinality(loggers') >= MaxAppServices)
  BY DEF Emit
<1> DEFINE table == loggers \cup {LoggerFor(app)}
<1>2. /\ LoggerFor(app) \in Services /\ table \subseteq Services
      /\ IsFiniteSet(table)
      /\ Cardinality(table) <= MaxAppServices + 1
      /\ Cardinality(table \ {FallbackService}) <= MaxAppServices
  BY RegisterFacts DEF EmitterInv
<1>3. [app |-> app, service |-> service] \in [app : Services, service : Outcomes]
  BY <1>1, <1>2 DEF Outcomes
<1>4. records' \in Seq([app : Services, service : Outcomes])
  BY <1>1, <1>3, AppendProperties DEF EmitterInv, EmitterTypeOK
<1>5. wasFull' \in BOOLEAN
  BY <1>1 DEF EmitterInv, EmitterTypeOK
<1> HIDE DEF table
<1>6. loggers' = table \/ loggers' = loggers
  BY <1>1 DEF table
<1>7. EmitterTypeOK' /\ IsFiniteSet(loggers') /\ ProvidersBounded'
  BY <1>2, <1>4, <1>5, <1>6 DEF EmitterInv, EmitterTypeOK, ProvidersBounded
<1>8. Attributed'
  BY <1>1, <1>7, EmitAttributes DEF EmitterInv
<1> QED
  BY <1>7, <1>8 DEF EmitterInv

LEMMA ShutdownKeeps ==
  ASSUME EmitterInv, Shutdown
  PROVE  EmitterInv'
<1>1. loggers' = {} /\ loggers' \ {FallbackService} = {} /\ records' = <<>> /\ wasFull' = FALSE
  BY DEF Shutdown
<1>2. IsFiniteSet({}) /\ Cardinality({}) = 0 /\ MaxAppServices \in Nat
  BY FS_EmptySet, EmitterAssumption
<1>3. <<>> \in Seq([app : Services, service : Outcomes])
  BY EmptySeq
<1>4. ProvidersBounded'
  <2>1. Cardinality(loggers') = 0 /\ Cardinality(loggers' \ {FallbackService}) = 0
    BY <1>1, <1>2
  <2> QED
    BY <1>2, <2>1 DEF ProvidersBounded
<1>5. EmitterTypeOK'
  BY <1>1, <1>3 DEF EmitterTypeOK
<1>6. Attributed'
  BY <1>1 DEF Attributed
<1> QED
  BY <1>1, <1>2, <1>4, <1>5, <1>6 DEF EmitterInv

LEMMA EmitterStep == EmitterInv /\ [EmitterNext]_emitterVars => EmitterInv'
<1> SUFFICES ASSUME EmitterInv, [EmitterNext]_emitterVars PROVE EmitterInv'
  OBVIOUS
<1>1. CASE UNCHANGED emitterVars
  BY <1>1 DEF emitterVars, EmitterInv, EmitterTypeOK, ProvidersBounded, Attributed
<1> QED
  BY <1>1, EmitKeeps, ShutdownKeeps DEF EmitterNext

\* However many apps report, the gateway holds at most MaxAppServices
\* providers of apps, and at most one more, the fallback service's.
THEOREM EmitterBounded == EmitterSpec => [](EmitterTypeOK /\ ProvidersBounded)
<1>1. EmitterInv => EmitterTypeOK /\ ProvidersBounded
  BY DEF EmitterInv
<1> QED
  BY <1>1, EmitterInitInv, EmitterStep, PTL DEF EmitterSpec

\* Every event is attributed to its own app or, once the table has been full, to
\* the fallback service; and an app once logged under its own name stays there.
THEOREM EmitterAttributes == EmitterSpec => []Attributed
<1>1. EmitterInv => Attributed
  BY DEF EmitterInv
<1> QED
  BY <1>1, EmitterInitInv, EmitterStep, PTL DEF EmitterSpec

-----------------------------------------------------------------------------
\* Requests: whose they are, and how much of them may be read.

Request == [pc : {"none", "reading", "answered"}, ip : Clients, size : Nat,
            received : Nat, code : Nat]

\* r is a proper last request of client c.
Proper(r, c) ==
    /\ r \in Request /\ r.ip = c
    /\ r.pc = "reading" => r.received <= r.size /\ r.received <= BodyLimit
    /\ r.pc = "answered" /\ r.code # 400 => (r.code = 413 <=> r.size > BodyLimit)

RequestsInv ==
    /\ requests = [c \in Clients |-> requests[c]]
    /\ \A c \in Clients : Proper(requests[c], c)
    /\ ~Running => \A c \in Clients : requests[c].pc # "reading"

\* The address a request is charged to is the one the first trusted proxy saw.
LEMMA ClientIpFacts ==
  ASSUME NEW c \in Clients, NEW forged \in Forgeries
  PROVE  ClientIp(Peer(c), Forwarded(c, forged)) = c
<1>1. Hops \in Nat /\ forged \in Seq(STRING)
  BY LifecycleAssumption
<1>2. CASE Hops = 0
  BY <1>2 DEF ClientIp, Peer
<1>3. CASE Hops > 0
  <2> DEFINE S == STRING \cup {c, Proxy}
             proxies == [i \in 1 .. Hops - 1 |-> Proxy]
             f == forged \o <<c>>
             h == f \o proxies
  <2>1. forged \in Seq(S)
    BY <1>1
  <2>2. <<c>> \in Seq(S) /\ Len(<<c>>) = 1 /\ <<c>>[1] = c
    OBVIOUS
  <2>3. proxies \in Seq(S) /\ Len(proxies) = Hops - 1
    BY <1>1, <1>3
  <2> HIDE DEF S, proxies
  <2>4. f \in Seq(S) /\ Len(f) = Len(forged) + 1 /\ f[Len(forged) + 1] = c
    BY <2>1, <2>2, ConcatProperties
  <2> HIDE DEF f
  <2>5. h \in Seq(S) /\ Len(h) = Len(forged) + Hops /\ h[Len(forged) + 1] = c
    <3>1. Len(forged) \in Nat /\ Len(f) + (Hops - 1) = Len(forged) + Hops
      BY <1>1, <1>3, <2>4
    <3>2. /\ h \in Seq(S) /\ Len(h) = Len(f) + Len(proxies)
          /\ \A i \in 1 .. Len(f) + Len(proxies) : h[i] = IF i <= Len(f) THEN f[i] ELSE proxies[i - Len(f)]
      BY <2>3, <2>4, ConcatProperties
    <3>3. Len(forged) + 1 \in 1 .. Len(f) + Len(proxies) /\ Len(forged) + 1 <= Len(f)
      BY <1>1, <1>3, <2>3, <2>4, <3>1
    <3>4. h[Len(forged) + 1] = f[Len(forged) + 1]
      BY <3>2, <3>3
    <3> QED
      BY <2>3, <2>4, <3>1, <3>2, <3>4
  <2>6. Forwarded(c, forged) = h
    BY <1>1, <1>3 DEF Forwarded, f, proxies
  <2> HIDE DEF h
  <2>7. h # <<>> /\ Len(h) >= Hops /\ Len(h) - Hops + 1 = Len(forged) + 1
    <3>1. Len(forged) \in Nat
      BY <1>1
    <3> QED
      BY <1>1, <1>3, <2>5, <3>1
  <2>8. h[Len(h) - Hops + 1] = c
    BY <2>5, <2>7
  <2>9. ~(Hops = 0 \/ h = <<>>) /\ Hops > 0 /\ h # <<>>
    BY <1>3, <2>7
  <2>10. ClientIp(Peer(c), h) = IF Len(h) >= Hops THEN h[Len(h) - Hops + 1] ELSE h[1]
    BY <2>9 DEF ClientIp
  <2> QED
    BY <2>6, <2>7, <2>8, <2>10
<1> QED
  BY <1>1, <1>2, <1>3

\* Replacing one client's request by a proper one.
LEMMA ReplaceRequest ==
  ASSUME RequestsInv, Running, phase' = phase, NEW c \in Clients, NEW r, Proper(r, c),
         requests' = [requests EXCEPT ![c] = r]
  PROVE  RequestsInv'
BY DEF RequestsInv, Proper, Running

\* Whoever is being read keeps the process running.
LEMMA ReadingRuns ==
  ASSUME RequestsInv, NEW c \in Clients, requests[c].pc = "reading"
  PROVE  Running
BY DEF RequestsInv

LEMMA AnsweredFacts ==
  ASSUME RequestsInv, NEW c \in Clients, NEW code \in Nat,
         code # 400 => (code = 413 <=> requests[c].size > BodyLimit)
  PROVE  Proper(Answered(c, code), c)
<1> DEFINE r == requests[c]
           r1 == [r EXCEPT !.pc = "answered"]
           r2 == [r1 EXCEPT !.received = 0]
           r3 == [r2 EXCEPT !.code = code]
<1>1. r \in Request /\ r.ip = c
  BY DEF RequestsInv, Proper
<1>2. Answered(c, code) = r3
  BY DEF Answered
<1> HIDE DEF r
<1>3. r1 \in Request /\ r1.ip = c /\ r1.size = r.size /\ r1.pc = "answered"
  BY <1>1 DEF Request
<1> HIDE DEF r1
<1>4. r2 \in Request /\ r2.ip = c /\ r2.size = r.size /\ r2.pc = "answered"
  BY <1>1, <1>3 DEF Request
<1> HIDE DEF r2
<1>5. r3 \in Request /\ r3.ip = c /\ r3.size = r.size /\ r3.pc = "answered" /\ r3.code = code
  BY <1>1, <1>4 DEF Request
<1> HIDE DEF r3
<1> QED
  BY <1>2, <1>5 DEF Proper, r

\* Steps that leave the requests alone and do not stop the process.
LEMMA RequestsKept ==
  ASSUME RequestsInv, requests' = requests, Running' \/ phase' = phase
                                            \/ \A c \in Clients : requests[c].pc # "reading"
  PROVE  RequestsInv'
BY DEF RequestsInv, Proper, Running

LEMMA ArriveKeeps ==
  ASSUME RequestsInv, NEW c \in Clients, NEW size \in Sizes, NEW chunked \in BOOLEAN,
         NEW forged \in Forgeries, Arrive(c, size, chunked, forged)
  PROVE  RequestsInv'
<1> DEFINE refused == ~chunked /\ size > BodyLimit
           pc == IF refused THEN "answered" ELSE "reading"
           code == IF refused THEN 413 ELSE 0
           r == [pc |-> pc, ip |-> c, size |-> size, received |-> 0, code |-> code]
<1>1. /\ phase = "up" /\ phase' = phase
      /\ requests' = [requests EXCEPT ![c] = r]
  BY ClientIpFacts DEF Arrive
<1>2. size \in Nat /\ BodyLimit \in Nat
  BY LifecycleAssumption
<1>3. /\ pc \in {"answered", "reading"} /\ code \in {0, 413}
      /\ pc = "answered" => code = 413 /\ size > BodyLimit
  OBVIOUS
<1> HIDE DEF pc, code
<1>4. r \in Request /\ r.ip = c /\ r.pc = pc /\ r.size = size /\ r.received = 0 /\ r.code = code
  BY <1>2, <1>3 DEF Request
<1> HIDE DEF r
<1>5. Proper(r, c)
  BY <1>2, <1>3, <1>4 DEF Proper
<1> QED
  BY <1>1, <1>5, ReplaceRequest DEF Running

LEMMA ReceiveKeeps ==
  ASSUME RequestsInv, NEW c \in Clients, NEW n \in 1 .. requests[c].size, Receive(c, n)
  PROVE  RequestsInv'
<1> DEFINE received == requests[c].received + n
           more == [requests[c] EXCEPT !.received = received]
<1>1. /\ requests[c].pc = "reading" /\ n <= requests[c].size - requests[c].received
      /\ phase' = phase
      /\ requests' = [requests EXCEPT ![c] = IF received > BodyLimit THEN Answered(c, 413) ELSE more]
  BY DEF Receive
<1>2. /\ requests[c] \in Request /\ requests[c].ip = c /\ BodyLimit \in Nat
      /\ requests[c].size \in Nat /\ requests[c].received \in Nat
  BY LifecycleAssumption DEF RequestsInv, Proper, Request
<1>3. received \in Nat /\ received <= requests[c].size
  BY <1>1, <1>2
<1>4. Running
  BY <1>1, ReadingRuns
<1>5. CASE received > BodyLimit
  <2>1. requests[c].size > BodyLimit
    BY <1>2, <1>3, <1>5
  <2>2. Proper(Answered(c, 413), c)
    BY <2>1, AnsweredFacts
  <2> QED
    BY <1>1, <1>4, <1>5, <2>2, ReplaceRequest
<1>6. CASE ~(received > BodyLimit)
  <2> HIDE DEF received
  <2>1. /\ more \in Request /\ more.ip = c /\ more.pc = "reading"
        /\ more.size = requests[c].size /\ more.received = received
    BY <1>1, <1>2, <1>3 DEF Request
  <2> HIDE DEF more
  <2>2. Proper(more, c)
    BY <1>2, <1>3, <1>6, <2>1 DEF Proper
  <2> QED
    BY <1>1, <1>4, <1>6, <2>2, ReplaceRequest
<1> QED
  BY <1>5, <1>6

\* A body that is complete, or given up, can be answered.
LEMMA AnswerProper ==
  ASSUME RequestsInv, NEW c \in Clients, NEW code \in {400, 204, 422, 429},
         requests[c].pc = "reading", code # 400 => Complete(c)
  PROVE  Running /\ Proper(Answered(c, code), c)
<1>1. /\ requests[c].size \in Nat /\ requests[c].received \in Nat /\ BodyLimit \in Nat
      /\ requests[c].received <= BodyLimit
  BY LifecycleAssumption DEF RequestsInv, Proper, Request
<1>2. code # 400 => ~(requests[c].size > BodyLimit)
  BY <1>1 DEF Complete
<1>3. code \in Nat /\ code # 413
  OBVIOUS
<1>4. Proper(Answered(c, code), c)
  BY <1>2, <1>3, AnsweredFacts
<1> QED
  BY <1>4, ReadingRuns

LEMMA CrashKeeps ==
  ASSUME RequestsInv, Crash
  PROVE  RequestsInv'
<1>1. requests' = [c \in Clients |-> IF requests[c].pc = "reading"
                                     THEN [requests[c] EXCEPT !.pc = "none"] ELSE requests[c]]
  BY DEF Crash
<1>2. ASSUME NEW c \in Clients PROVE Proper(requests'[c], c) /\ requests'[c].pc # "reading"
  <2>1. requests[c] \in Request /\ requests[c].ip = c /\ Proper(requests[c], c)
    BY DEF RequestsInv, Proper
  <2>2. CASE requests[c].pc = "reading"
    <3> DEFINE r == [requests[c] EXCEPT !.pc = "none"]
    <3>1. requests'[c] = r
      BY <1>1, <2>2
    <3>2. r \in Request /\ r.ip = c /\ r.pc = "none"
      BY <2>1 DEF Request
    <3> HIDE DEF r
    <3> QED
      BY <3>1, <3>2 DEF Proper
  <2>3. CASE requests[c].pc # "reading"
    <3>1. requests'[c] = requests[c]
      BY <1>1, <2>3
    <3> QED
      BY <2>1, <2>3, <3>1
  <2> QED
    BY <2>2, <2>3
<1>3. requests' = [c \in Clients |-> requests'[c]]
  BY <1>1
<1> QED
  BY <1>2, <1>3 DEF RequestsInv, Proper

LEMMA RequestsStep == RequestsInv /\ [LifecycleNext]_lifeVars => RequestsInv'
<1> SUFFICES ASSUME RequestsInv, [LifecycleNext]_lifeVars PROVE RequestsInv'
  OBVIOUS
<1>1. ASSUME NEW c \in Clients, Disconnect(c) PROVE RequestsInv'
  <2>1. /\ requests[c].pc = "reading" /\ phase' = phase
        /\ requests' = [requests EXCEPT ![c] = Answered(c, 400)]
    BY <1>1 DEF Disconnect
  <2>2. Running /\ Proper(Answered(c, 400), c)
    BY <2>1, AnswerProper
  <2> QED
    BY <2>1, <2>2, ReplaceRequest
<1>2. ASSUME NEW c \in Clients, Refuse(c) PROVE RequestsInv'
  <2>1. requests[c].pc = "reading" /\ phase' = phase /\ Complete(c)
    BY <1>2 DEF Refuse, Complete
  <2>2. PICK code \in {422, 429} : requests' = [requests EXCEPT ![c] = Answered(c, code)]
    BY <1>2 DEF Refuse
  <2> DEFINE r == Answered(c, code)
  <2>3. code \in {400, 204, 422, 429}
    OBVIOUS
  <2>4. Running /\ Proper(r, c)
    BY <2>1, <2>3, AnswerProper
  <2>5. requests' = [requests EXCEPT ![c] = r]
    BY <2>2
  <2> HIDE DEF r
  <2> QED
    BY <2>1, <2>4, <2>5, ReplaceRequest
<1>3. ASSUME NEW c \in Clients, NEW app \in Services, Accept(c, app) PROVE RequestsInv'
  <2>1. /\ requests[c].pc = "reading" /\ phase' = phase /\ Complete(c)
        /\ requests' = [requests EXCEPT ![c] = Answered(c, 204)]
    BY <1>3 DEF Accept, Complete
  <2>2. Running /\ Proper(Answered(c, 204), c)
    BY <2>1, AnswerProper
  <2> QED
    BY <2>1, <2>2, ReplaceRequest
<1>4. ASSUME NEW i \in DOMAIN events, Export(i) PROVE RequestsInv'
  BY <1>4, RequestsKept DEF Export
<1>5. CASE MonitorRuns \/ ComponentsChange
  BY <1>5, RequestsKept DEF MonitorRuns, ComponentsChange
<1>6. CASE Sigterm
  BY <1>6, RequestsKept DEF Sigterm, Running
<1>7. CASE Drained
  BY <1>7, RequestsKept DEF Drained
<1>8. CASE Flush \/ Close
  <2>1. requests' = requests /\ ~Running
    BY <1>8 DEF Flush, Close, Running
  <2> QED
    BY <2>1, RequestsKept DEF RequestsInv
<1>9. CASE Start
  BY <1>9, RequestsKept DEF Start, Running
<1>10. CASE UNCHANGED lifeVars
  BY <1>10, RequestsKept DEF lifeVars
<1> QED
  BY <1>1, <1>2, <1>3, <1>4, <1>5, <1>6, <1>7, <1>8, <1>9, <1>10,
     ArriveKeeps, ReceiveKeeps, CrashKeeps DEF LifecycleNext

LEMMA RequestsInit == LifecycleInit => RequestsInv
<1> SUFFICES ASSUME LifecycleInit PROVE RequestsInv
  OBVIOUS
<1>1. phase = "up" /\ requests = [c \in Clients |-> [pc |-> "none", ip |-> c, size |-> 0,
                                                     received |-> 0, code |-> 0]]
  BY DEF LifecycleInit
<1>2. ASSUME NEW c \in Clients PROVE Proper(requests[c], c)
  BY <1>1 DEF Proper, Request
<1> QED
  BY <1>1, <1>2 DEF RequestsInv, Running

\* Whatever X-Forwarded-For a client sends and however many proxies there are,
\* its requests are charged to its own address.
THEOREM EveryoneIsCharged == LifecycleSpec => []ChargedToItsSender
<1>1. RequestsInv => ChargedToItsSender
  BY DEF RequestsInv, Proper, ChargedToItsSender
<1> QED
  BY <1>1, RequestsInit, RequestsStep, PTL DEF LifecycleSpec

\* For every limit and every way of cutting a body into messages, 413 is the
\* answer exactly to the bodies over the limit.
THEOREM BodyLimitIsExact == LifecycleSpec => []RefusedIffTooLarge
<1>1. RequestsInv => RefusedIffTooLarge
  BY DEF RequestsInv, Proper, RefusedIffTooLarge
<1> QED
  BY <1>1, RequestsInit, RequestsStep, PTL DEF LifecycleSpec

-----------------------------------------------------------------------------
\* Stopping: what is left behind.

Entry == [fate : Fates, excused : BOOLEAN]

EventsInv == events \in Seq(Entry) /\ EmitterInv

StopInv ==
    /\ phase \in {"flushed", "stopped"} =>
          loggers = {} /\ \A i \in DOMAIN events : events[i].fate # "buffered"
    /\ phase = "stopped" => openFiles = {}

\* The buffered events leave; nothing else changes.
LEMMA LeaveFacts ==
  ASSUME events \in Seq(Entry), NEW fate \in Fates \ {"buffered"}, Leave(fate)
  PROVE  /\ events' \in Seq(Entry) /\ DOMAIN events' = DOMAIN events
         /\ \A i \in DOMAIN events :
               events'[i].fate # "buffered" /\ events'[i].excused = events[i].excused
<1> DEFINE left(e) == [e EXCEPT !.fate = fate]
<1>1. \A e \in Entry : left(e) \in Entry /\ left(e).fate = fate /\ left(e).excused = e.excused
  BY DEF Entry
<1>2. events' = [i \in DOMAIN events |-> IF events[i].fate = "buffered" THEN left(events[i]) ELSE events[i]]
  BY DEF Leave
<1> HIDE DEF left
<1>3. \A i \in DOMAIN events : events[i] \in Entry
  BY ElementOfSeq
<1>4. \A i \in DOMAIN events :
         /\ events'[i] \in Entry
         /\ events'[i].fate # "buffered" /\ events'[i].excused = events[i].excused
  BY <1>1, <1>2, <1>3
<1>5. DOMAIN events = 1 .. Len(events) /\ Len(events) \in Nat
  OBVIOUS
<1> QED
  BY <1>2, <1>4, <1>5

\* One buffered event leaves.
LEMMA ExportFacts ==
  ASSUME events \in Seq(Entry), NEW i \in DOMAIN events, Export(i)
  PROVE  /\ events' \in Seq(Entry) /\ DOMAIN events' = DOMAIN events
         /\ \A j \in DOMAIN events : events'[j].excused = events[j].excused
<1> DEFINE e == [events[i] EXCEPT !.fate = ExportOutcome]
<1>1. events[i] \in Entry /\ ExportOutcome \in Fates
  BY ElementOfSeq DEF ExportOutcome, Fates
<1>2. e \in Entry /\ e.excused = events[i].excused
  BY <1>1 DEF Entry
<1>3. events' = [events EXCEPT ![i] = e]
  BY DEF Export
<1> HIDE DEF e
<1> QED
  BY <1>2, <1>3

\* An accepted event gets the next number.
LEMMA AcceptFacts ==
  ASSUME EventsInv, NEW c \in Clients, NEW app \in Services, Accept(c, app)
  PROVE  /\ EventsInv'
         /\ Len(events') = Len(events) + 1
         /\ \A i \in 1 .. Len(events) : events'[i] = events[i]
         /\ events'[Len(events) + 1].excused = (unseen \/ ~Handler("events"))
<1> DEFINE service == records'[Len(records')].service
           fate == IF service \in Services THEN "buffered" ELSE service
           e == [fate |-> fate, excused |-> unseen \/ ~Handler("events")]
<1>1. Emit(app) /\ events' = Append(events, e)
  BY DEF Accept
<1>2. EmitterInv'
  BY <1>1, EmitKeeps DEF EventsInv
<1>3. service \in Outcomes
  <2>1. /\ records \in Seq([app : Services, service : Outcomes])
        /\ records' \in Seq([app : Services, service : Outcomes])
    BY <1>2 DEF EventsInv, EmitterInv, EmitterTypeOK
  <2>2. Len(records') = Len(records) + 1 /\ Len(records) \in Nat
    BY <1>1, <2>1 DEF Emit
  <2>3. Len(records') \in 1 .. Len(records')
    BY <2>2
  <2>4. records'[Len(records')] \in [app : Services, service : Outcomes]
    BY <2>1, <2>3, ElementOfSeq
  <2> QED
    BY <2>4
<1>4. fate \in Fates
  BY <1>3 DEF Outcomes, Fates
<1>5. (unseen \/ ~Handler("events")) \in BOOLEAN
  OBVIOUS
<1> HIDE DEF fate
<1>6. e \in Entry /\ e.excused = (unseen \/ ~Handler("events"))
  BY <1>4, <1>5 DEF Entry
<1> HIDE DEF e
<1>7. /\ events' \in Seq(Entry) /\ Len(events') = Len(events) + 1
      /\ \A i \in 1 .. Len(events) : events'[i] = events[i]
      /\ events'[Len(events) + 1] = e
  BY <1>1, <1>6, AppendProperties DEF EventsInv
<1> QED
  BY <1>2, <1>6, <1>7 DEF EventsInv

\* What the steps other than Accept, Export, Flush and Crash do to the events.
LEMMA EventsKept ==
  ASSUME EventsInv, events' = events, UNCHANGED emitterVars
  PROVE  EventsInv'
BY DEF EventsInv, EmitterInv, EmitterTypeOK, ProvidersBounded, Attributed, emitterVars

LEMMA EmitterEndsFacts ==
  ASSUME EmitterInv, EmitterEnds
  PROVE  EmitterInv' /\ loggers' = {}
<1>1. CASE loggers = {}
  <2>1. UNCHANGED emitterVars
    BY <1>1 DEF EmitterEnds
  <2> QED
    BY <1>1, <2>1 DEF EmitterInv, EmitterTypeOK, ProvidersBounded, Attributed, emitterVars
<1>2. CASE loggers # {}
  <2>1. Shutdown
    BY <1>2 DEF EmitterEnds
  <2> QED
    BY <2>1, ShutdownKeeps DEF Shutdown
<1> QED
  BY <1>1, <1>2

LEMMA StopStep ==
  ASSUME RequestsInv, EventsInv, StopInv, [LifecycleNext]_lifeVars
  PROVE  EventsInv' /\ StopInv'
<1>1. ASSUME phase' = phase \/ phase' \notin {"flushed", "stopped"},
             events' = events, UNCHANGED emitterVars, openFiles' = openFiles
      PROVE  EventsInv' /\ StopInv'
  BY <1>1, EventsKept DEF StopInv, emitterVars
<1>2. ASSUME NEW c \in Clients
      PROVE  /\ \A size \in Sizes, chunked \in BOOLEAN, forged \in Forgeries :
                   Arrive(c, size, chunked, forged) => EventsInv' /\ StopInv'
             /\ \A n \in 1 .. requests[c].size : Receive(c, n) => EventsInv' /\ StopInv'
             /\ Disconnect(c) \/ Refuse(c) => EventsInv' /\ StopInv'
  BY <1>1 DEF Arrive, Receive, Disconnect, Refuse, stackVars, fallbackVars
<1>3. ASSUME NEW c \in Clients, NEW app \in Services, Accept(c, app)
      PROVE  EventsInv' /\ StopInv'
  <2>1. Running /\ phase' = phase
    BY <1>3, ReadingRuns DEF Accept, Complete
  <2> QED
    BY <1>3, <2>1, AcceptFacts DEF StopInv, Running
<1>4. ASSUME NEW i \in DOMAIN events, Export(i)
      PROVE  EventsInv' /\ StopInv'
  <2>1. phase \notin {"stopped", "flushed"} /\ phase' = phase /\ UNCHANGED emitterVars
    BY <1>4 DEF Export
  <2>2. events' \in Seq(Entry)
    BY <1>4, ExportFacts DEF EventsInv
  <2>3. EmitterInv'
    BY <2>1 DEF EventsInv, EmitterInv, EmitterTypeOK, ProvidersBounded, Attributed, emitterVars
  <2> QED
    BY <2>1, <2>2, <2>3 DEF StopInv, EventsInv
<1>5. CASE MonitorRuns
  <2>1. Running /\ phase' = phase /\ events' = events /\ UNCHANGED emitterVars
    BY <1>5 DEF MonitorRuns
  <2> QED
    BY <2>1, EventsKept DEF StopInv, Running
<1>6. CASE ComponentsChange
  BY <1>1, <1>6 DEF ComponentsChange, ComponentChanges, fallbackVars
<1>7. CASE Sigterm \/ Drained
  BY <1>1, <1>7 DEF Sigterm, Drained, stackVars, fallbackVars
<1>8. CASE Flush
  <2>1. phase' = "flushed" /\ EmitterEnds /\ Leave(ExportOutcome)
    BY <1>8 DEF Flush
  <2>2. ExportOutcome \in Fates \ {"buffered"}
    BY DEF ExportOutcome, Fates
  <2> QED
    BY <2>1, <2>2, LeaveFacts, EmitterEndsFacts DEF EventsInv, StopInv
<1>9. CASE Close
  <2>1. /\ phase = "flushed" /\ events' = events /\ UNCHANGED emitterVars /\ openFiles' = {}
    BY <1>9 DEF Close, FallbackEnds
  <2> QED
    BY <2>1, EventsKept DEF StopInv, emitterVars
<1>10. CASE Crash
  <2>1. EmitterEnds /\ Leave("crashed") /\ openFiles' = {}
    BY <1>10 DEF Crash, FallbackEnds
  <2>2. "crashed" \in Fates \ {"buffered"}
    BY DEF Fates
  <2> QED
    BY <2>1, <2>2, LeaveFacts, EmitterEndsFacts DEF EventsInv, StopInv
<1>11. CASE Start
  <2>1. phase' = "up" /\ events' = events /\ UNCHANGED emitterVars
    BY <1>11 DEF Start
  <2> QED
    BY <2>1, EventsKept DEF StopInv
<1>12. CASE UNCHANGED lifeVars
  BY <1>1, <1>12 DEF lifeVars, stackVars, fallbackVars
<1> QED
  BY <1>2, <1>3, <1>4, <1>5, <1>6, <1>7, <1>8, <1>9, <1>10, <1>11, <1>12 DEF LifecycleNext

LEMMA StopInit == LifecycleInit => EventsInv /\ StopInv
<1>1. LifecycleInit => events = <<>> /\ phase = "up" /\ EmitterInv
  BY EmitterInitInv DEF LifecycleInit
<1>2. <<>> \in Seq(Entry)
  BY EmptySeq
<1> QED
  BY <1>1, <1>2 DEF EventsInv, StopInv

\* However many requests, events and providers there are when it is told to
\* stop, or when it dies, a stopped process leaves nothing behind.
THEOREM StoppingIsClean == LifecycleSpec => []StopsClean
<1>1. StopInv => StopsClean
  BY DEF StopInv, StopsClean
<1> QED
  BY <1>1, RequestsInit, RequestsStep, StopInit, StopStep, PTL DEF LifecycleSpec

-----------------------------------------------------------------------------
\* An outage of the collector: what is not in the file is excused.

\* What the monitor has seen of the collector since the histories began.
WatchInv ==
    /\ up \in [Targets -> BOOLEAN]
    /\ checkSawUp \in BOOLEAN /\ unseen \in BOOLEAN
    /\ monitor.pc = "sleeping" => DOMAIN monitor.answers = {}
    /\ checkSawUp \/ ~up[Collector]
    /\ checkSawUp \/ Collector \notin DOMAIN monitor.answers \/ ~monitor.answers[Collector]
    /\ unseen \/ (Collector \in DOMAIN components /\ ~components[Collector])

\* The monitor's record has its two fields, whatever is assigned to them.
MonitorInv == \E pc, answers : monitor = [pc |-> pc, answers |-> answers]

\* Every event is excused or in the file, under its number.
LoggedInv ==
    /\ files = [f \in Files |-> files[f]] /\ files["events"] \in Seq(Nat)
    /\ \A i \in DOMAIN events : events[i].excused \/ i \in Range(files["events"])

LEMMA CollectorFacts == Collector \in Targets /\ Collector \in Triggers
BY LifecycleAssumption

LEMMA MonitorStep ==
  ASSUME WatchInv, MonitorInv, MonitorRuns
  PROVE  WatchInv' /\ MonitorInv'
<1>1. PICK pc, answers : monitor = [pc |-> pc, answers |-> answers]
  BY DEF MonitorInv
<1>2. ASSUME NEW c \in Targets, ProbeReturns(c), UNCHANGED <<checkSawUp, unseen>>
      PROVE  WatchInv' /\ MonitorInv'
  <2> DEFINE new == [d \in DOMAIN answers \cup {c} |-> IF d = c THEN up[c] ELSE answers[d]]
  <2>1. /\ monitor.pc = "probing" /\ up' = up /\ components' = components
        /\ monitor' = [monitor EXCEPT !.answers = new]
    BY <1>1, <1>2 DEF ProbeReturns
  <2>2. checkSawUp \/ Collector \notin DOMAIN new \/ ~new[Collector]
    BY <1>1 DEF WatchInv
  <2> HIDE DEF new
  <2>3. monitor' = [pc |-> pc, answers |-> new] /\ pc = "probing"
    BY <1>1, <2>1
  <2> QED
    BY <1>2, <2>1, <2>2, <2>3 DEF WatchInv, MonitorInv
<1>3. ASSUME CheckEnds, unseen' = checkSawUp, checkSawUp' = checkSawUp
      PROVE  WatchInv' /\ MonitorInv'
  <2>1. /\ DOMAIN answers = Targets /\ components' = answers /\ up' = up
        /\ monitor' = [pc |-> "sleeping", answers |-> NoAnswers]
    BY <1>1, <1>3 DEF CheckEnds
  <2>2. DOMAIN NoAnswers = {}
    BY DEF NoAnswers
  <2>3. checkSawUp \/ ~answers[Collector]
    BY <1>1, <2>1, CollectorFacts DEF WatchInv
  <2> QED
    BY <1>3, <2>1, <2>2, <2>3, CollectorFacts DEF WatchInv, MonitorInv
<1>4. ASSUME SleepEnds, checkSawUp' = up[Collector], unseen' = unseen
      PROVE  WatchInv' /\ MonitorInv'
  <2>1. /\ pc = "sleeping" /\ up' = up /\ components' = components
        /\ monitor' = [pc |-> "probing", answers |-> answers]
    BY <1>1, <1>4 DEF SleepEnds
  <2>2. DOMAIN answers = {}
    BY <1>1, <2>1 DEF WatchInv
  <2> QED
    BY <1>4, <2>1, <2>2, CollectorFacts DEF WatchInv, MonitorInv
<1> QED
  BY <1>2, <1>3, <1>4 DEF MonitorRuns

LEMMA WatchStep ==
  ASSUME WatchInv, MonitorInv, [LifecycleNext]_lifeVars
  PROVE  WatchInv' /\ MonitorInv'
<1>1. ASSUME UNCHANGED <<monitorVars, checkSawUp, unseen>>
      PROVE  WatchInv' /\ MonitorInv'
  BY <1>1 DEF WatchInv, MonitorInv, monitorVars
<1>2. ASSUME NEW c \in Clients
      PROVE  /\ \A size \in Sizes, chunked \in BOOLEAN, forged \in Forgeries :
                   Arrive(c, size, chunked, forged) => WatchInv' /\ MonitorInv'
             /\ \A n \in 1 .. requests[c].size : Receive(c, n) => WatchInv' /\ MonitorInv'
             /\ Disconnect(c) \/ Refuse(c) => WatchInv' /\ MonitorInv'
             /\ \A app \in Services : Accept(c, app) => WatchInv' /\ MonitorInv'
  BY <1>1 DEF Arrive, Receive, Disconnect, Refuse, Accept, stackVars
<1>3. CASE \E i \in DOMAIN events : Export(i)
  BY <1>1, <1>3 DEF Export, stackVars
<1>4. CASE ComponentsChange
  <2>1. PICK c \in Targets : ComponentChanges(c)
    BY <1>4 DEF ComponentsChange
  <2>2. /\ up' = [up EXCEPT ![c] = ~up[c]] /\ monitor' = monitor /\ components' = components
        /\ checkSawUp' = (checkSawUp \/ up'[Collector])
        /\ unseen' = (unseen \/ up'[Collector])
    BY <1>4, <2>1 DEF ComponentsChange, ComponentChanges
  <2>3. up' \in [Targets -> BOOLEAN]
    BY <2>2 DEF WatchInv
  <2> QED
    BY <2>2, <2>3 DEF WatchInv, MonitorInv
<1>5. CASE Sigterm \/ Drained \/ Flush \/ Close \/ Crash
  BY <1>1, <1>5 DEF Sigterm, Drained, Flush, Close, Crash, stackVars
<1>6. CASE Start
  <2>1. /\ monitor' = [pc |-> "probing", answers |-> NoAnswers] /\ up' = up
        /\ checkSawUp' = up[Collector] /\ unseen' = TRUE
    BY <1>6 DEF Start, MonitorRestarts
  <2>2. DOMAIN NoAnswers = {}
    BY DEF NoAnswers
  <2> QED
    BY <2>1, <2>2, CollectorFacts DEF WatchInv, MonitorInv
<1>7. CASE UNCHANGED lifeVars
  BY <1>1, <1>7 DEF lifeVars, stackVars
<1> QED
  BY <1>2, <1>3, <1>4, <1>5, <1>6, <1>7, MonitorStep DEF LifecycleNext

\* Records are only ever added to a file.
LEMMA WriteFacts ==
  ASSUME files = [f \in Files |-> files[f]], files["events"] \in Seq(Nat),
         NEW file \in Files, NEW rs, Write(file, rs), file = "events" => rs \in Seq(Nat)
  PROVE  /\ files' = [f \in Files |-> files'[f]] /\ files'["events"] \in Seq(Nat)
         /\ Range(files["events"]) \subseteq Range(files'["events"])
         /\ file = "events" /\ rs # <<>> /\ Handler(file) =>
               Range(rs) \subseteq Range(files'["events"])
<1>1. CASE files' = files /\ (Handler(file) => rs = <<>>)
  BY <1>1
<1>2. CASE Handler(file) /\ rs # <<>> /\ files' = [files EXCEPT ![file] = @ \o rs]
  <2>1. files' = [f \in Files |-> files'[f]]
    BY <1>2
  <2>2. CASE file = "health"
    BY <1>2, <2>1, <2>2
  <2>3. CASE file = "events"
    <3> DEFINE s == files["events"]
               t == s \o rs
    <3>1. files'["events"] = t
      BY <1>2, <2>3 DEF Files
    <3>2. s \in Seq(Nat) /\ rs \in Seq(Nat)
      BY <2>3
    <3> HIDE DEF s
    <3>3. /\ t \in Seq(Nat) /\ Len(t) = Len(s) + Len(rs)
          /\ \A i \in 1 .. Len(s) + Len(rs) : t[i] = IF i <= Len(s) THEN s[i] ELSE rs[i - Len(s)]
      BY <3>2, ConcatProperties
    <3>4. /\ Len(s) \in Nat /\ DOMAIN s = 1 .. Len(s) /\ Len(rs) \in Nat /\ DOMAIN rs = 1 .. Len(rs)
          /\ DOMAIN t = 1 .. Len(t)
      BY <3>2, <3>3
    <3>5. ASSUME NEW i \in DOMAIN s PROVE i \in DOMAIN t /\ t[i] = s[i]
      BY <3>3, <3>4
    <3>6. ASSUME NEW i \in DOMAIN rs PROVE i + Len(s) \in DOMAIN t /\ t[i + Len(s)] = rs[i]
      <4>1. /\ i + Len(s) \in 1 .. Len(s) + Len(rs) /\ ~(i + Len(s) <= Len(s))
            /\ (i + Len(s)) - Len(s) = i
        BY <3>4
      <4> QED
        BY <3>3, <3>4, <4>1
    <3> HIDE DEF t
    <3>7. Range(s) \subseteq Range(t) /\ Range(rs) \subseteq Range(t)
      BY <3>5, <3>6 DEF Range
    <3> QED
      BY <2>1, <3>1, <3>3, <3>7 DEF s
  <2> QED
    BY <2>2, <2>3 DEF Files
<1> QED
  BY <1>1, <1>2 DEF Write

LEMMA LoggedStep ==
  ASSUME RequestsInv, EventsInv, WatchInv, LoggedInv, [LifecycleNext]_lifeVars
  PROVE  LoggedInv'
<1>1. ASSUME files' = files, DOMAIN events' = DOMAIN events,
             \A i \in DOMAIN events : events'[i].excused = events[i].excused
      PROVE  LoggedInv'
  BY <1>1 DEF LoggedInv
<1>2. ASSUME NEW c \in Clients
      PROVE  /\ \A size \in Sizes, chunked \in BOOLEAN, forged \in Forgeries :
                   Arrive(c, size, chunked, forged) => LoggedInv'
             /\ \A n \in 1 .. requests[c].size : Receive(c, n) => LoggedInv'
             /\ Disconnect(c) \/ Refuse(c) => LoggedInv'
  BY <1>1 DEF Arrive, Receive, Disconnect, Refuse, stackVars, fallbackVars
<1>3. ASSUME NEW c \in Clients, NEW app \in Services, Accept(c, app)
      PROVE  LoggedInv'
  <2> DEFINE n == Len(events)
  <2>1. /\ Len(events') = n + 1 /\ \A i \in 1 .. n : events'[i] = events[i]
        /\ events'[n + 1].excused = (unseen \/ ~Handler("events"))
        /\ DOMAIN events = 1 .. n /\ DOMAIN events' = 1 .. n + 1 /\ n \in Nat
    <3>1. EventsInv'
      BY <1>3, AcceptFacts
    <3> QED
      BY <1>3, <3>1, AcceptFacts DEF EventsInv
  <2>2. IF FallbackActive THEN WriteEvent(n + 1) ELSE files' = files
    BY <1>3, <2>1 DEF Accept, fallbackVars
  <2> HIDE DEF n
  <2>3. CASE FallbackActive
    <3>1. Write("events", <<n + 1>>)
      BY <2>2, <2>3 DEF WriteEvent
    <3>2. /\ "events" \in Files /\ <<n + 1>> \in Seq(Nat) /\ <<n + 1>> # <<>>
          /\ n + 1 \in Range(<<n + 1>>)
      BY <2>1 DEF Files, Range
    <3>3. /\ files' = [f \in Files |-> files'[f]] /\ files'["events"] \in Seq(Nat)
          /\ Range(files["events"]) \subseteq Range(files'["events"])
          /\ Handler("events") => n + 1 \in Range(files'["events"])
      BY <3>1, <3>2, WriteFacts DEF LoggedInv
    <3>4. ASSUME NEW i \in 1 .. n + 1
          PROVE  events'[i].excused \/ i \in Range(files'["events"])
      <4>1. CASE i \in 1 .. n
        BY <2>1, <3>3, <4>1 DEF LoggedInv
      <4>2. CASE i = n + 1
        BY <2>1, <3>3, <4>2
      <4> QED
        BY <2>1, <4>1, <4>2
    <3> QED
      BY <2>1, <3>3, <3>4 DEF LoggedInv
  <2>4. CASE ~FallbackActive
    <3>1. files' = files /\ unseen
      BY <2>2, <2>4, CollectorFacts DEF WatchInv, FallbackActive, Active
    <3>2. ASSUME NEW i \in 1 .. n + 1
          PROVE  events'[i].excused \/ i \in Range(files'["events"])
      <4>1. CASE i \in 1 .. n
        BY <2>1, <3>1, <4>1 DEF LoggedInv
      <4>2. CASE i = n + 1
        BY <2>1, <3>1, <4>2
      <4> QED
        BY <2>1, <4>1, <4>2
    <3> QED
      BY <2>1, <3>1, <3>2 DEF LoggedInv
  <2> QED
    BY <2>3, <2>4
<1>4. ASSUME NEW i \in DOMAIN events, Export(i)
      PROVE  LoggedInv'
  <2>1. files' = files
    BY <1>4 DEF Export, stackVars, fallbackVars
  <2> QED
    BY <1>1, <1>4, <2>1, ExportFacts DEF EventsInv
<1>5. CASE MonitorRuns
  <2>1. events' = events
    BY <1>5 DEF MonitorRuns
  <2>2. CASE files' = files
    BY <1>1, <2>1, <2>2
  <2>3. CASE CheckEnds
    <3>1. Write("health", Transitions) /\ "health" \in Files /\ "health" # "events"
      BY <2>3 DEF CheckEnds, WriteHealth, Files
    <3> QED
      BY <2>1, <3>1, WriteFacts DEF LoggedInv
  <2> QED
    BY <1>5, <2>2, <2>3 DEF MonitorRuns, ProbeReturns, SleepEnds, fallbackVars
<1>6. CASE ComponentsChange \/ Sigterm \/ Drained
  BY <1>1, <1>6 DEF ComponentsChange, ComponentChanges, Sigterm, Drained, stackVars, fallbackVars
<1>7. CASE Flush
  <2>1. files' = files /\ Leave(ExportOutcome) /\ ExportOutcome \in Fates \ {"buffered"}
    BY <1>7 DEF Flush, stackVars, fallbackVars, ExportOutcome, Fates
  <2> QED
    BY <1>1, <2>1, LeaveFacts DEF EventsInv
<1>8. CASE Crash
  <2>1. files' = files /\ Leave("crashed") /\ "crashed" \in Fates \ {"buffered"}
    BY <1>8 DEF Crash, FallbackEnds, Fates
  <2> QED
    BY <1>1, <2>1, LeaveFacts DEF EventsInv
<1>9. CASE Close \/ Start
  BY <1>1, <1>9 DEF Close, Start, FallbackEnds, fallbackVars
<1>10. CASE UNCHANGED lifeVars
  BY <1>1, <1>10 DEF lifeVars, stackVars, fallbackVars
<1> QED
  BY <1>2, <1>3, <1>4, <1>5, <1>6, <1>7, <1>8, <1>9, <1>10 DEF LifecycleNext

LEMMA WatchInit == LifecycleInit => WatchInv /\ MonitorInv /\ LoggedInv
<1> SUFFICES ASSUME LifecycleInit PROVE WatchInv /\ MonitorInv /\ LoggedInv
  OBVIOUS
<1>1. /\ up \in [Targets -> BOOLEAN] /\ monitor = [pc |-> "probing", answers |-> NoAnswers]
      /\ checkSawUp = up[Collector] /\ unseen = TRUE /\ events = <<>>
      /\ files = [f \in Files |-> <<>>]
  BY DEF LifecycleInit, StackInit, FallbackInit
<1>2. DOMAIN NoAnswers = {} /\ up[Collector] \in BOOLEAN
  BY <1>1, CollectorFacts DEF NoAnswers
<1>3. files["events"] = <<>> /\ <<>> \in Seq(Nat)
  BY <1>1 DEF Files
<1>4. MonitorInv
  BY <1>1 DEF MonitorInv
<1>5. WatchInv
  BY <1>1, <1>2 DEF WatchInv
<1>6. LoggedInv
  <2>1. files = [f \in Files |-> files[f]]
    BY <1>1
  <2>2. DOMAIN events = {}
    BY <1>1
  <2> QED
    BY <1>3, <2>1, <2>2 DEF LoggedInv
<1> QED
  BY <1>4, <1>5, <1>6

\* For every set of components and every course of an outage, across restarts:
\* an accepted event that the collector did not take is in events.jsonl, but for
\* the gap of the monitor and a file that could not be opened.
THEOREM OutagesAreLogged == LifecycleSpec => []NoSilentLoss
<1> DEFINE Inv == RequestsInv /\ EventsInv /\ StopInv /\ WatchInv /\ MonitorInv /\ LoggedInv
<1>1. LifecycleInit => Inv
  BY RequestsInit, StopInit, WatchInit
<1>2. Inv /\ [LifecycleNext]_lifeVars => Inv'
  BY RequestsStep, StopStep, WatchStep, LoggedStep
<1>3. Inv => NoSilentLoss
  BY DEF LoggedInv, NoSilentLoss
<1> QED
  BY <1>1, <1>2, <1>3, PTL DEF LifecycleSpec

\* Whatever becomes of the process, its table of providers stays within the
\* limit, and what it emitted is attributed as the emitter alone would.
THEOREM EmitterInLifecycle == LifecycleSpec => [](ProvidersBounded /\ Attributed)
<1>1. EventsInv => ProvidersBounded /\ Attributed
  BY DEF EventsInv, EmitterInv
<1> QED
  BY <1>1, RequestsInit, RequestsStep, StopInit, StopStep, PTL DEF LifecycleSpec
=============================================================================
