------------------------- MODULE OpsEndpoints_proofs -------------------------
(***************************************************************************)
(* The guards of the gateway's own endpoints fail closed, refuse for a     *)
(* reason, never grant less for more roles, and roll up fresh answers, for *)
(* every set of tokens and claims, every role map, and every policy of the *)
(* RBAC service however often it changes while a request waits.            *)
(***************************************************************************)
EXTENDS OpsEndpoints, WellFoundedInduction, TLAPS

\* A request, field by field.
Fields(pc, caller, principal, action, saw, answers, up, down, code, body, identity) ==
    [pc |-> pc, caller |-> caller, principal |-> principal, action |-> action,
     saw |-> saw, answers |-> answers, up |-> up, down |-> down,
     code |-> code, body |-> body, identity |-> identity]

\* r is a request with all its fields.
IsRequest(r) ==
    \E pc, caller, principal, action, saw, answers, up, down, code, body, identity :
        r = Fields(pc, caller, principal, action, saw, answers, up, down, code, body, identity)

\* s is r at a later time: still the same caller asking for the same thing.
SameQuestion(s, r) ==
    s.caller = r.caller /\ s.principal = r.principal /\ s.action = r.action

\* What holds of a request that has arrived: it is let in only if it is
\* entitled, and only a good token gets as far as the RBAC service, whose
\* present opinion has been seen.
Guarded(r) ==
    /\ IsRequest(r) /\ r.caller \in Callers
    /\ r.pc \in {"deciding", "probing", "answered"}
    /\ Opened(r) => Entitled(r)
    /\ r.pc = "deciding" =>
          /\ settings.mode = "external" /\ GoodToken(r)
          /\ Opinion(r, policy) = "allowed" => "allowed" \in r.saw

\* The inductive invariant.
OpsInv ==
    /\ settings \in Settings
    /\ request = NoRequest \/ Guarded(request)

-----------------------------------------------------------------------------
LEMMA CallerFacts ==
  ASSUME NEW c \in Callers
  PROVE  c.route \in {"status", "stack", "verify"}
BY DEF Callers

LEMMA AnswerFacts ==
  ASSUME NEW r, IsRequest(r), NEW code, NEW body, NEW identity
  PROVE  LET s == Answer(r, code, body, identity) IN
         /\ IsRequest(s) /\ SameQuestion(s, r)
         /\ s.pc = "answered" /\ s.code = code /\ s.body = body /\ s.identity = identity
         /\ s.saw = r.saw /\ s.answers = r.answers /\ s.up = r.up /\ s.down = r.down
<1>1. PICK pc, caller, principal, action, saw, answers, up, down, code0, body0, identity0 :
        r = Fields(pc, caller, principal, action, saw, answers, up, down, code0, body0, identity0)
  BY DEF IsRequest
<1>2. Answer(r, code, body, identity) =
        Fields("answered", caller, principal, action, saw, answers, up, down, code, body, identity)
  <2> DEFINE t1 == [r EXCEPT !.pc = "answered"]
             t2 == [t1 EXCEPT !.code = code]
             t3 == [t2 EXCEPT !.body = body]
  <2>1. t1 = Fields("answered", caller, principal, action, saw, answers, up, down, code0, body0, identity0)
    BY <1>1 DEF Fields
  <2>2. Answer(r, code, body, identity) = [t3 EXCEPT !.identity = identity]
    BY DEF Answer
  <2> HIDE DEF t1
  <2>3. t2 = Fields("answered", caller, principal, action, saw, answers, up, down, code, body0, identity0)
    BY <2>1 DEF Fields
  <2> HIDE DEF t2
  <2>4. t3 = Fields("answered", caller, principal, action, saw, answers, up, down, code, body, identity0)
    BY <2>3 DEF Fields
  <2> HIDE DEF t3
  <2> QED
    BY <2>2, <2>4 DEF Fields
<1>3. IsRequest(Answer(r, code, body, identity))
  BY <1>2 DEF IsRequest
<1> HIDE DEF Answer
<1> QED
  BY <1>1, <1>2, <1>3 DEF Fields, SameQuestion

\* A refused request is not let in.
LEMMA RefuseFacts ==
  ASSUME NEW r, IsRequest(r), NEW code \in {401, 403}
  PROVE  LET s == Refuse(r, code) IN
         /\ IsRequest(s) /\ SameQuestion(s, r) /\ s.pc = "answered" /\ ~Opened(s)
         /\ s.saw = r.saw /\ s.identity = None
<1>1. LET s == Answer(r, code, None, None) IN
         /\ IsRequest(s) /\ SameQuestion(s, r) /\ s.pc = "answered" /\ s.code = code
         /\ s.saw = r.saw /\ s.identity = None
  BY AnswerFacts
<1> QED
  BY <1>1 DEF Refuse, Opened

\* A request that has passed is no longer waiting for a decision.
LEMMA PassedFacts ==
  ASSUME NEW r, IsRequest(r), r.caller \in Callers, NEW role
  PROVE  LET s == Passed(r, role) IN
         /\ IsRequest(s) /\ SameQuestion(s, r)
         /\ s.pc \in {"probing", "answered"} /\ s.saw = r.saw
         /\ s.pc = "probing" =>
               /\ r.caller.route = "status" /\ s.identity = r.identity
               /\ s.answers = r.answers /\ s.up = fleet /\ s.down = Targets \ fleet
         /\ s.pc = "answered" =>
               /\ s.code \in {200, 503}
               /\ IF r.caller.route = "verify" THEN s.identity = Identity(r.principal, role)
                  ELSE s.identity = None
               /\ r.caller.route = "status" => Targets = {} /\ s.code = 200 /\ s.body = "ok"
<1>1. CASE r.caller.route = "verify"
  <2> DEFINE identity == Identity(r.principal, role)
  <2>1. Passed(r, role) = Answer(r, 200, None, identity)
    BY <1>1 DEF Passed
  <2>2. identity = Identity(r.principal, role)
    OBVIOUS
  <2> HIDE DEF identity
  <2>3. LET s == Passed(r, role) IN
        /\ IsRequest(s) /\ SameQuestion(s, r) /\ s.saw = r.saw
        /\ s.pc = "answered" /\ s.code = 200 /\ s.identity = identity
    BY <2>1, AnswerFacts
  <2> QED
    BY <1>1, <2>2, <2>3
<1>2. CASE r.caller.route = "stack"
  <2>1. PICK code \in {200, 503} : \E body : Passed(r, role) = Answer(r, code, body, None)
    BY <1>2 DEF Passed
  <2>2. PICK body : Passed(r, role) = Answer(r, code, body, None)
    BY <2>1
  <2>3. LET s == Passed(r, role) IN
        /\ IsRequest(s) /\ SameQuestion(s, r) /\ s.saw = r.saw
        /\ s.pc = "answered" /\ s.code = code /\ s.identity = None
    BY <2>1, <2>2, AnswerFacts
  <2> QED
    BY <1>2, <2>3
<1>3. CASE r.caller.route = "status" /\ Targets = {}
  <2>1. Passed(r, role) = Answer(r, 200, "ok", None)
    BY <1>3 DEF Passed
  <2>2. LET s == Passed(r, role) IN
        /\ IsRequest(s) /\ SameQuestion(s, r) /\ s.saw = r.saw
        /\ s.pc = "answered" /\ s.code = 200 /\ s.body = "ok" /\ s.identity = None
    BY <2>1, AnswerFacts
  <2> QED
    BY <1>3, <2>2
<1>4. CASE r.caller.route = "status" /\ Targets # {}
  <2>1. Passed(r, role) = [r EXCEPT !.pc = "probing", !.up = fleet, !.down = Targets \ fleet]
    BY <1>4 DEF Passed
  <2>2. PICK pc, caller, principal, action, saw, answers, up, down, code, body, identity :
          r = Fields(pc, caller, principal, action, saw, answers, up, down, code, body, identity)
    BY DEF IsRequest
  <2>3. Passed(r, role) = Fields("probing", caller, principal, action, saw, answers,
                                 fleet, Targets \ fleet, code, body, identity)
    <3> DEFINE t1 == [r EXCEPT !.pc = "probing"]
               t2 == [t1 EXCEPT !.up = fleet]
               t3 == [t2 EXCEPT !.down = Targets \ fleet]
    <3>1. Passed(r, role) = t3
      BY <2>1
    <3>2. t1 = Fields("probing", caller, principal, action, saw, answers, up, down, code, body, identity)
      BY <2>2 DEF Fields
    <3> HIDE DEF t1
    <3>3. t2 = Fields("probing", caller, principal, action, saw, answers, fleet, down, code, body, identity)
      BY <3>2 DEF Fields
    <3> HIDE DEF t2
    <3>4. t3 = Fields("probing", caller, principal, action, saw, answers,
                      fleet, Targets \ fleet, code, body, identity)
      BY <3>3 DEF Fields
    <3> QED
      BY <3>1, <3>4
  <2>4. IsRequest(Passed(r, role))
    BY <2>3 DEF IsRequest
  <2>5. LET s == Passed(r, role) IN
        /\ s.caller = r.caller /\ s.principal = r.principal /\ s.action = r.action
        /\ s.pc = "probing" /\ s.saw = r.saw /\ s.identity = r.identity
        /\ s.answers = r.answers /\ s.up = fleet /\ s.down = Targets \ fleet
    BY <2>2, <2>3 DEF Fields
  <2> QED
    BY <1>4, <2>4, <2>5 DEF SameQuestion
<1> QED
  BY <1>1, <1>2, <1>3, <1>4, CallerFacts

\* Who is entitled stays entitled while the same question is pending.
LEMMA EntitledFacts ==
  ASSUME NEW r, NEW s, SameQuestion(s, r), r.saw \subseteq s.saw
  PROVE  /\ Entitled(r) => Entitled(s)
         /\ GoodToken(r) => GoodToken(s)
BY DEF SameQuestion, Entitled, GoodToken

\* Whoever is taken for somebody has presented a good token.
LEMMA PrincipalFacts ==
  ASSUME NEW r, r.principal \in Principals(settings, Bearer(r.caller.header, r.caller.cookie)),
         r.principal.authenticated
  PROVE  GoodToken(r)
<1> DEFINE bearer == Bearer(r.caller.header, r.caller.cookie)
<1>1. ~Anonymous.authenticated
  BY DEF Anonymous
<1>2. /\ bearer \in Tokens /\ settings.verify # "nothing" /\ Claims[bearer].valid
  BY <1>1 DEF Principals
<1>3. bearer = r.caller.header \/ (r.caller.header = None /\ bearer = r.caller.cookie)
  BY DEF Bearer
<1> HIDE DEF bearer
<1> QED
  BY <1>2, <1>3 DEF GoodToken

\* The static map allows only what some role of the token grants.
LEMMA StaticFacts ==
  ASSUME NEW p, NEW action, StaticAllows(p, action, None)
  PROVE  \E role \in p.roles \cap DOMAIN Permissions : {Wildcard, action} \cap Permissions[role] # {}
<1>1. PICK x \in {Wildcard, action} : x \in Granted(p)
  BY DEF StaticAllows
<1>2. PICK role \in p.roles \cap DOMAIN Permissions : x \in Permissions[role]
  BY <1>1 DEF Granted
<1> QED
  BY <1>1, <1>2

-----------------------------------------------------------------------------
\* The decision of the configured authorizer.
LEMMA AuthorizeSafe ==
  ASSUME NEW r, IsRequest(r), r.caller \in Callers, settings \in Settings,
         r.principal \in Principals(settings, Bearer(r.caller.header, r.caller.cookie)),
         r.caller.route = "verify" \/ settings.mode # "none"
  PROVE  Guarded(Authorize(r)) /\ SameQuestion(Authorize(r), r)
<1> DEFINE p == r.principal
           s == Authorize(r)
<1>1. settings.mode \in {"none", "static", "external"}
  BY DEF Settings
<1>2. ASSUME NEW code \in {401, 403}, s = Refuse(r, code) PROVE Guarded(s) /\ SameQuestion(s, r)
  BY <1>2, RefuseFacts DEF Guarded, SameQuestion
<1>3. ASSUME s = Passed(r, GrafanaRole(p)), Entitled(r) PROVE Guarded(s) /\ SameQuestion(s, r)
  <2>1. /\ IsRequest(s) /\ SameQuestion(s, r)
        /\ s.pc \in {"probing", "answered"} /\ s.saw = r.saw
    BY <1>3, PassedFacts
  <2> HIDE DEF s
  <2>2. Entitled(s)
    BY <1>3, <2>1, EntitledFacts
  <2> QED
    BY <2>1, <2>2 DEF Guarded, SameQuestion
<1>4. CASE settings.mode = "none"
  <2>1. s = Passed(r, GrafanaRole(p))
    BY <1>4 DEF Authorize
  <2>2. Entitled(r)
    BY <1>4 DEF Entitled
  <2> QED
    BY <1>3, <2>1, <2>2
<1>5. CASE settings.mode # "none" /\ ~p.authenticated
  <2>1. s = Refuse(r, 401)
    BY <1>5 DEF Authorize
  <2> QED
    BY <1>2, <2>1
<1>6. CASE settings.mode = "static" /\ p.authenticated
  <2>1. s = IF StaticAllows(p, r.action, None) THEN Passed(r, GrafanaRole(p)) ELSE Refuse(r, 403)
    BY <1>6 DEF Authorize
  <2>2. StaticAllows(p, r.action, None) => Entitled(r)
    BY <1>6, PrincipalFacts, StaticFacts DEF Entitled
  <2> QED
    BY <1>2, <1>3, <2>1, <2>2
<1>7. CASE settings.mode = "external" /\ p.authenticated
  <2>1. s = IF settings.url THEN [r EXCEPT !.pc = "deciding", !.saw = {Opinion(r, policy)}]
            ELSE Refuse(r, 403)
    BY <1>7 DEF Authorize
  <2>2. CASE ~settings.url
    BY <1>2, <2>1, <2>2
  <2>3. CASE settings.url
    <3>1. PICK pc, caller, principal, action, saw, answers, up, down, code, body, identity :
            r = Fields(pc, caller, principal, action, saw, answers, up, down, code, body, identity)
      BY DEF IsRequest
    <3>2. GoodToken(r)
      BY <1>7, PrincipalFacts
    <3> HIDE DEF s
    <3>3. /\ IsRequest(s) /\ SameQuestion(s, r) /\ s.pc = "deciding"
          /\ s.saw = {Opinion(r, policy)} /\ Opinion(s, policy) = Opinion(r, policy)
      <4>1. s = Fields("deciding", caller, principal, action, {Opinion(r, policy)}, answers,
                       up, down, code, body, identity)
        BY <2>1, <2>3, <3>1 DEF Fields
      <4>2. IsRequest(s)
        BY <4>1 DEF IsRequest
      <4>3. SameQuestion(s, r) /\ s.pc = "deciding" /\ s.saw = {Opinion(r, policy)}
        BY <3>1, <4>1 DEF Fields, SameQuestion
      <4> QED
        BY <4>2, <4>3 DEF SameQuestion, Opinion
    <3>4. GoodToken(s)
      BY <3>2, <3>3 DEF GoodToken, SameQuestion
    <3>5. ~Opened(s)
      BY <3>3 DEF Opened
    <3>6. /\ s.caller \in Callers /\ s.pc \in {"deciding", "probing", "answered"}
          /\ Opinion(s, policy) = "allowed" => "allowed" \in s.saw
      BY <3>3 DEF SameQuestion
    <3>7. Guarded(s)
      BY <1>7, <3>3, <3>4, <3>5, <3>6 DEF Guarded
    <3> QED
      BY <3>3, <3>7 DEF s
  <2> QED
    BY <2>2, <2>3
<1> QED
  BY <1>1, <1>4, <1>5, <1>6, <1>7

\* The guard in front of a route.
LEMMA GuardSafe ==
  ASSUME NEW r, IsRequest(r), r.caller \in Callers, settings \in Settings,
         r.principal \in Principals(settings, Bearer(r.caller.header, r.caller.cookie))
  PROVE  Guarded(Guard(r))
<1> DEFINE keyIsRight == KeyOk(settings, r.caller.key)
<1>1. ASSUME Guard(r) = Passed(r, None), Entitled(r) PROVE Guarded(Guard(r))
  <2>1. LET s == Guard(r) IN
        /\ IsRequest(s) /\ SameQuestion(s, r)
        /\ s.pc \in {"probing", "answered"} /\ s.saw = r.saw
    BY <1>1, PassedFacts
  <2>2. Entitled(Guard(r))
    BY <1>1, <2>1, EntitledFacts
  <2> QED
    BY <2>1, <2>2 DEF Guarded, SameQuestion
<1>2. CASE r.caller.route = "verify"
  BY <1>2, AuthorizeSafe DEF Guard
<1>3. CASE r.caller.route # "verify" /\ settings.mode = "none"
  <2>1. CASE keyIsRight
    <3>1. Entitled(r)
      BY <1>3, <2>1 DEF Entitled, KeyOk, Settings
    <3> QED
      BY <1>1, <1>3, <2>1, <3>1 DEF Guard
  <2>2. CASE ~keyIsRight
    <3>1. Guard(r) = Refuse(r, 401)
      BY <1>3, <2>2 DEF Guard
    <3> QED
      BY <3>1, RefuseFacts DEF Guarded, SameQuestion
  <2> QED
    BY <2>1, <2>2
<1>4. CASE r.caller.route # "verify" /\ settings.mode # "none"
  <2>1. CASE settings.key /\ keyIsRight
    <3>1. Entitled(r)
      BY <1>4, <2>1 DEF Entitled, KeyOk
    <3> QED
      BY <1>1, <1>4, <2>1, <3>1 DEF Guard
  <2>2. CASE ~(settings.key /\ keyIsRight)
    <3>1. Guard(r) = Authorize(r)
      BY <1>4, <2>2 DEF Guard
    <3> QED
      BY <1>4, <3>1, AuthorizeSafe
  <2> QED
    BY <2>1, <2>2
<1> QED
  BY <1>2, <1>3, <1>4

\* What a request keeps when one of its fields changes.
LEMMA SawFacts ==
  ASSUME NEW r, IsRequest(r), NEW x
  PROVE  LET s == [r EXCEPT !.saw = x] IN
         /\ IsRequest(s) /\ SameQuestion(s, r) /\ s.pc = r.pc /\ s.code = r.code /\ s.saw = x
         /\ s.answers = r.answers /\ s.identity = r.identity /\ s.up = r.up /\ s.down = r.down
<1> DEFINE s == [r EXCEPT !.saw = x]
<1>1. PICK pc, caller, principal, action, saw, answers, up, down, code, body, identity :
        r = Fields(pc, caller, principal, action, saw, answers, up, down, code, body, identity)
  BY DEF IsRequest
<1>2. s = Fields(pc, caller, principal, action, x, answers, up, down, code, body, identity)
  BY <1>1 DEF Fields
<1> HIDE DEF s
<1>3. IsRequest(s)
  BY <1>2 DEF IsRequest
<1>4. /\ SameQuestion(s, r) /\ s.pc = r.pc /\ s.code = r.code /\ s.saw = x
      /\ s.answers = r.answers /\ s.identity = r.identity /\ s.up = r.up /\ s.down = r.down
  BY <1>1, <1>2 DEF Fields, SameQuestion
<1> QED
  BY <1>3, <1>4 DEF s

LEMMA AnswersFacts ==
  ASSUME NEW r, IsRequest(r), NEW x
  PROVE  LET s == [r EXCEPT !.answers = x] IN
         /\ IsRequest(s) /\ SameQuestion(s, r) /\ s.pc = r.pc /\ s.code = r.code /\ s.saw = r.saw
         /\ s.answers = x /\ s.identity = r.identity /\ s.up = r.up /\ s.down = r.down
<1> DEFINE s == [r EXCEPT !.answers = x]
<1>1. PICK pc, caller, principal, action, saw, answers, up, down, code, body, identity :
        r = Fields(pc, caller, principal, action, saw, answers, up, down, code, body, identity)
  BY DEF IsRequest
<1>2. s = Fields(pc, caller, principal, action, saw, x, up, down, code, body, identity)
  BY <1>1 DEF Fields
<1> HIDE DEF s
<1>3. IsRequest(s)
  BY <1>2 DEF IsRequest
<1>4. /\ SameQuestion(s, r) /\ s.pc = r.pc /\ s.code = r.code /\ s.saw = r.saw
      /\ s.answers = x /\ s.identity = r.identity /\ s.up = r.up /\ s.down = r.down
  BY <1>1, <1>2 DEF Fields, SameQuestion
<1> QED
  BY <1>3, <1>4 DEF s

\* A request that has seen which targets were up and which were down.
WithUpDown(r, x, y) == [r EXCEPT !.up = x, !.down = y]

LEMMA UpDownFacts ==
  ASSUME NEW r, IsRequest(r), NEW x, NEW y
  PROVE  LET s == WithUpDown(r, x, y) IN
         /\ IsRequest(s) /\ SameQuestion(s, r) /\ s.pc = r.pc /\ s.code = r.code /\ s.saw = r.saw
         /\ s.answers = r.answers /\ s.identity = r.identity /\ s.up = x /\ s.down = y
<1> DEFINE t == [r EXCEPT !.up = x]
           s == [t EXCEPT !.down = y]
<1>1. PICK pc, caller, principal, action, saw, answers, up, down, code, body, identity :
        r = Fields(pc, caller, principal, action, saw, answers, up, down, code, body, identity)
  BY DEF IsRequest
<1>2. t = Fields(pc, caller, principal, action, saw, answers, x, down, code, body, identity)
  BY <1>1 DEF Fields
<1> HIDE DEF t
<1>3. s = Fields(pc, caller, principal, action, saw, answers, x, y, code, body, identity)
  BY <1>2 DEF Fields
<1> HIDE DEF s
<1>4. IsRequest(s)
  BY <1>3 DEF IsRequest
<1>5. /\ SameQuestion(s, r) /\ s.pc = r.pc /\ s.code = r.code /\ s.saw = r.saw
      /\ s.answers = r.answers /\ s.identity = r.identity /\ s.up = x /\ s.down = y
  BY <1>1, <1>3 DEF Fields, SameQuestion
<1>6. s = WithUpDown(r, x, y)
  BY DEF s, t, WithUpDown
<1> QED
  BY <1>4, <1>5, <1>6

-----------------------------------------------------------------------------
LEMMA OpsStep == OpsInv /\ [OpsNext]_opsVars => OpsInv'
<1> SUFFICES ASSUME OpsInv, [OpsNext]_opsVars PROVE OpsInv'
  OBVIOUS
<1>1. ASSUME settings' = settings, policy' = policy, Guarded(request') PROVE OpsInv'
  BY <1>1 DEF OpsInv, Guarded, Opened, Entitled, GoodToken, Opinion
<1>2. request.pc # "none" => Guarded(request)
  BY DEF OpsInv, NoRequest
<1>3. ASSUME NEW caller \in Callers, Arrive(caller) PROVE OpsInv'
  <2>1. PICK p \in Principals(settings, Bearer(caller.header, caller.cookie)) :
          request' = Guard([pc |-> "arrived", caller |-> caller, principal |-> p,
                            action |-> IF caller.route = "verify" THEN ActionFor(caller.uri)
                                       ELSE "status:read",
                            saw |-> {}, answers |-> [t \in {} |-> TRUE], up |-> {}, down |-> {},
                            code |-> 0, body |-> None, identity |-> None])
    BY <1>3 DEF Arrive
  <2> DEFINE action == IF caller.route = "verify" THEN ActionFor(caller.uri) ELSE "status:read"
             r == Fields("arrived", caller, p, action, {}, [t \in {} |-> TRUE], {}, {}, 0, None, None)
  <2>2. request' = Guard(r)
    BY <2>1 DEF Fields
  <2> HIDE DEF action
  <2>3. IsRequest(r)
    BY DEF IsRequest
  <2>4. r.caller = caller /\ r.principal = p
    BY DEF Fields
  <2> HIDE DEF r
  <2>5. Guarded(Guard(r))
    BY <2>3, <2>4, GuardSafe DEF OpsInv
  <2> QED
    BY <1>1, <1>3, <2>2, <2>5 DEF Arrive
<1>4. CASE ServiceAnswers
  <2>1. /\ Guarded(request) /\ request.pc = "deciding"
        /\ settings' = settings /\ policy' = policy
    BY <1>2, <1>4 DEF ServiceAnswers
  <2>2. PICK role \in Range(Ranked) \cup {None} :
          request' = IF Opinion(request, policy) = "allowed"
                     THEN Passed(request, IF role # None THEN role ELSE GrafanaRole(request.principal))
                     ELSE Refuse(request, 403)
    BY <1>4 DEF ServiceAnswers
  <2>3. CASE Opinion(request, policy) = "allowed"
    <3> DEFINE given == IF role # None THEN role ELSE GrafanaRole(request.principal)
    <3>1. Entitled(request)
      BY <2>1, <2>3 DEF Guarded, Entitled
    <3>2. request' = Passed(request, given)
      BY <2>2, <2>3
    <3> HIDE DEF given
    <3>3. /\ IsRequest(request') /\ SameQuestion(request', request)
          /\ request'.pc \in {"probing", "answered"} /\ request'.saw = request.saw
      BY <2>1, <3>2, PassedFacts DEF Guarded
    <3>4. Entitled(request')
      BY <3>1, <3>3, EntitledFacts
    <3>5. Guarded(request')
      BY <2>1, <3>3, <3>4 DEF Guarded, SameQuestion
    <3> QED
      BY <1>1, <2>1, <3>5
  <2>4. CASE Opinion(request, policy) # "allowed"
    <3>1. request' = Refuse(request, 403)
      BY <2>2, <2>4
    <3>2. Guarded(request')
      BY <2>1, <3>1, RefuseFacts DEF Guarded, SameQuestion
    <3> QED
      BY <1>1, <2>1, <3>2
  <2> QED
    BY <2>3, <2>4
<1>5. CASE ServiceFails
  <2>1. /\ Guarded(request) /\ settings' = settings /\ policy' = policy
        /\ request' = Refuse([request EXCEPT !.saw = @ \cup {"failed"}], 403)
    BY <1>2, <1>5 DEF ServiceFails
  <2> DEFINE r == [request EXCEPT !.saw = request.saw \cup {"failed"}]
  <2>2. IsRequest(r) /\ SameQuestion(r, request)
    BY <2>1, SawFacts DEF Guarded
  <2>3. request' = Refuse(r, 403)
    BY <2>1
  <2> HIDE DEF r
  <2>4. Guarded(request')
    BY <2>1, <2>2, <2>3, RefuseFacts DEF Guarded, SameQuestion
  <2> QED
    BY <1>1, <2>1, <2>4
<1>6. ASSUME NEW t \in Targets, ProbeReturns(t) PROVE OpsInv'
  <2>1. /\ Guarded(request) /\ request.pc = "probing"
        /\ settings' = settings /\ policy' = policy
    BY <1>2, <1>6 DEF ProbeReturns
  <2>2. PICK x : request' = [request EXCEPT !.answers = x]
    BY <1>6 DEF ProbeReturns
  <2>3. /\ IsRequest(request') /\ SameQuestion(request', request)
        /\ request'.pc = "probing" /\ request'.saw = request.saw
    BY <2>1, <2>2, AnswersFacts DEF Guarded
  <2>4. Entitled(request) /\ Entitled(request')
    BY <2>1, <2>3, EntitledFacts DEF Guarded, Opened
  <2>5. Guarded(request')
    BY <2>1, <2>3, <2>4 DEF Guarded, SameQuestion
  <2> QED
    BY <1>1, <2>1, <2>5
<1>7. CASE StatusEnds
  <2>1. /\ Guarded(request) /\ request.pc = "probing"
        /\ settings' = settings /\ policy' = policy
    BY <1>2, <1>7 DEF StatusEnds
  <2>2. PICK code, body : request' = Answer(request, code, body, None)
    BY <1>7 DEF StatusEnds
  <2>3. /\ IsRequest(request') /\ SameQuestion(request', request)
        /\ request'.pc = "answered" /\ request'.saw = request.saw
    BY <2>1, <2>2, AnswerFacts DEF Guarded
  <2>4. Entitled(request) /\ Entitled(request')
    BY <2>1, <2>3, EntitledFacts DEF Guarded, Opened
  <2>5. Guarded(request')
    BY <2>1, <2>3, <2>4 DEF Guarded, SameQuestion
  <2> QED
    BY <1>1, <2>1, <2>5
<1>8. CASE WorldChanges
  <2>1. settings' = settings
    BY <1>8 DEF WorldChanges
  <2>2. CASE request.pc = "deciding" /\ request' = [request EXCEPT !.saw = @ \cup {Opinion(request, policy')}]
    <3>1. Guarded(request)
      BY <1>2, <2>2
    <3>2. /\ IsRequest(request') /\ SameQuestion(request', request) /\ request'.pc = "deciding"
          /\ request'.saw = request.saw \cup {Opinion(request, policy')}
      BY <2>2, <3>1, SawFacts DEF Guarded
    <3>3. GoodToken(request) /\ settings.mode = "external" /\ request.caller \in Callers
      BY <2>2, <3>1 DEF Guarded
    <3>4. GoodToken(request)' /\ ~Opened(request)' /\ request'.caller \in Callers
      BY <2>1, <3>2, <3>3 DEF GoodToken, Opened, SameQuestion
    <3>5. Opinion(request, policy)' = Opinion(request, policy')
      BY <3>2 DEF Opinion, SameQuestion
    <3> QED
      BY <2>1, <3>2, <3>3, <3>4, <3>5 DEF OpsInv, Guarded
  <2>3. CASE /\ request.pc = "probing" /\ policy' = policy
             /\ request' = [request EXCEPT !.up = @ \cup fleet', !.down = @ \cup (Targets \ fleet')]
    <3>1. Guarded(request)
      BY <1>2, <2>3
    <3>2. PICK x, y : request' = [request EXCEPT !.up = x, !.down = y]
      BY <2>3
    <3>a. request' = WithUpDown(request, x, y)
      BY <3>2 DEF WithUpDown
    <3>3. /\ IsRequest(request') /\ SameQuestion(request', request)
          /\ request'.pc = "probing" /\ request'.saw = request.saw
      BY <2>3, <3>1, <3>a, UpDownFacts DEF Guarded
    <3>4. Entitled(request) /\ Entitled(request')
      BY <2>3, <3>1, <3>3, EntitledFacts DEF Guarded, Opened
    <3>5. Guarded(request')
      BY <3>1, <3>3, <3>4 DEF Guarded, SameQuestion
    <3> QED
      BY <1>1, <2>1, <2>3, <3>5
  <2> QED
    BY <1>8, <2>2, <2>3 DEF WorldChanges
<1>9. CASE UNCHANGED opsVars
  <2>1. settings' = settings /\ policy' = policy /\ request' = request
    BY <1>9 DEF opsVars
  <2> QED
    BY <1>1, <2>1 DEF OpsInv
<1> QED
  BY <1>3, <1>4, <1>5, <1>6, <1>7, <1>8, <1>9 DEF OpsNext

\* Whatever the tokens, the role map and the policy, and however the policy
\* changes and the RBAC service fails while a request waits, the guards of
\* /status, /status/stack and /authz/verify let nobody in who is not entitled.
THEOREM GuardsFailClosed == OpsSpec => []FailsClosed
<1>1. OpsInit => OpsInv
  BY DEF OpsInit, OpsInv
<1>2. OpsInv => FailsClosed
  BY DEF OpsInv, FailsClosed, Guarded, NoRequest
<1> QED
  BY <1>1, <1>2, OpsStep, PTL DEF OpsSpec

-----------------------------------------------------------------------------
\* Why a request was answered as it was.

\* The key set could not be fetched, or the RBAC service said no or failed.
Reason(r) ==
    \/ ~r.principal.authenticated /\ settings.verify = "jwks"
    \/ {"denied", "failed"} \cap r.saw # {}

Reasoned(r) == (r.pc = "answered" /\ r.code \in {401, 403} /\ Entitled(r)) => Reason(r)

\* A probe's answer was true of its target at some moment of the request.
Rolled(r) ==
    /\ r.pc = "probing" =>
          /\ r.caller.route = "status" /\ r.identity = None
          /\ fleet \subseteq r.up /\ Targets \ fleet \subseteq r.down
          /\ \A t \in DOMAIN r.answers :
                (r.answers[t] => t \in r.up) /\ (~r.answers[t] => t \in r.down)
    /\ (r.pc = "answered" /\ r.caller.route = "status" /\ Opened(r)) =>
          /\ (r.code = 200) = (r.body = "ok")
          /\ r.body = "ok" => Targets \subseteq r.up
          /\ r.body = "degraded" => r.down # {}

\* An identity given by the static map is the caller's own, who is allowed.
Decided(r) ==
    (r.identity # None /\ settings.mode = "static") =>
        /\ StaticAllows(r.principal, r.action, None)
        /\ r.identity = Identity(r.principal, GrafanaRole(r.principal))

Explained(r) ==
    /\ r.pc \in {"deciding", "probing", "answered"}
    /\ r.pc = "deciding" =>
          /\ settings.mode = "external" /\ Opinion(r, policy) \in r.saw
          /\ DOMAIN r.answers = {} /\ r.identity = None
    /\ Reasoned(r) /\ Rolled(r) /\ Decided(r)

ReasonInv == request = NoRequest \/ Explained(request)

\* A refusal needs its reason, no more.
LEMMA RefuseExplained ==
  ASSUME NEW r, IsRequest(r), NEW code \in {401, 403}, Entitled(r) => Reason(r)
  PROVE  Explained(Refuse(r, code))
<1> DEFINE s == Refuse(r, code)
<1>1. /\ SameQuestion(s, r) /\ s.pc = "answered" /\ ~Opened(s)
      /\ s.saw = r.saw /\ s.identity = None
  BY RefuseFacts
<1> HIDE DEF s
<1>2. Entitled(s) => Entitled(r)
  BY <1>1 DEF SameQuestion, Entitled, GoodToken
<1>3. Reason(r) => Reason(s)
  BY <1>1 DEF SameQuestion, Reason
<1>4. Explained(s)
  BY <1>1, <1>2, <1>3 DEF Explained, Reasoned, Rolled, Decided
<1> QED
  BY <1>4 DEF s

\* Passing a request is explained if the static map allows what it identifies.
LEMMA PassedExplained ==
  ASSUME NEW r, IsRequest(r), r.caller \in Callers, NEW role,
         DOMAIN r.answers = {}, r.identity = None,
         (settings.mode = "static" /\ r.caller.route = "verify") =>
             StaticAllows(r.principal, r.action, None) /\ role = GrafanaRole(r.principal)
  PROVE  Explained(Passed(r, role))
<1> DEFINE s == Passed(r, role)
<1>1. /\ SameQuestion(s, r) /\ s.pc \in {"probing", "answered"}
      /\ s.pc = "probing" =>
            /\ r.caller.route = "status" /\ s.identity = r.identity
            /\ s.answers = r.answers /\ s.up = fleet /\ s.down = Targets \ fleet
      /\ s.pc = "answered" =>
            /\ s.code \in {200, 503}
            /\ IF r.caller.route = "verify" THEN s.identity = Identity(r.principal, role)
               ELSE s.identity = None
            /\ r.caller.route = "status" => Targets = {} /\ s.code = 200 /\ s.body = "ok"
  BY PassedFacts
<1> HIDE DEF s
<1>2. Reasoned(s)
  BY <1>1 DEF Reasoned
<1>3. Rolled(s)
  BY <1>1 DEF Rolled, SameQuestion
<1>4. Decided(s)
  BY <1>1 DEF Decided, SameQuestion
<1>5. Explained(s)
  BY <1>1, <1>2, <1>3, <1>4 DEF Explained
<1> QED
  BY <1>5 DEF s

\* A good token is taken for nobody only for want of the key set.
LEMMA GoodTokenFacts ==
  ASSUME NEW r, GoodToken(r), ~r.principal.authenticated,
         r.principal \in Principals(settings, Bearer(r.caller.header, r.caller.cookie))
  PROVE  settings.verify = "jwks"
<1>1. PICK t \in Tokens : /\ Claims[t].valid /\ settings.verify # "nothing"
                          /\ t = r.caller.header \/ (r.caller.header = None /\ t = r.caller.cookie)
  BY DEF GoodToken
<1>2. t # None
  BY AuthzAssumption
<1>3. Bearer(r.caller.header, r.caller.cookie) = t
  BY <1>1, <1>2 DEF Bearer
<1>4. Principal(Claims[t]).authenticated
  BY DEF Principal
<1>5. r.principal \in {Principal(Claims[t])} \cup (IF settings.verify = "jwks" THEN {Anonymous} ELSE {})
  BY <1>1, <1>3 DEF Principals
<1> QED
  BY <1>4, <1>5

\* What some role of the token grants, the static map allows.
LEMMA GrantedFacts ==
  ASSUME NEW p, p.authenticated, NEW action,
         \E role \in p.roles \cap DOMAIN Permissions : {Wildcard, action} \cap Permissions[role] # {}
  PROVE  StaticAllows(p, action, None)
<1>1. PICK role \in p.roles \cap DOMAIN Permissions : {Wildcard, action} \cap Permissions[role] # {}
  OBVIOUS
<1>2. Permissions[role] \subseteq Granted(p)
  BY DEF Granted
<1> QED
  BY <1>1, <1>2 DEF StaticAllows

\* A request as it arrives: nothing asked, probed or answered yet.
Unasked(r) ==
    /\ IsRequest(r) /\ r.caller \in Callers
    /\ r.principal \in Principals(settings, Bearer(r.caller.header, r.caller.cookie))
    /\ r.saw = {} /\ DOMAIN r.answers = {} /\ r.identity = None

LEMMA AuthorizeExplained ==
  ASSUME NEW r, Unasked(r), settings \in Settings,
         r.caller.route = "verify" \/ (settings.mode # "none" /\ ~(settings.key /\ r.caller.key = "right"))
  PROVE  Explained(Authorize(r))
<1> DEFINE p == r.principal
<1>0. /\ IsRequest(r) /\ r.caller \in Callers
      /\ p \in Principals(settings, Bearer(r.caller.header, r.caller.cookie))
      /\ r.saw = {} /\ DOMAIN r.answers = {} /\ r.identity = None
  BY DEF Unasked
<1>1. settings.mode \in {"none", "static", "external"}
  BY DEF Settings
<1>2. CASE settings.mode = "none"
  <2>1. Authorize(r) = Passed(r, GrafanaRole(p))
    BY <1>2 DEF Authorize
  <2> QED
    BY <1>0, <1>2, <2>1, PassedExplained
<1>3. CASE settings.mode # "none" /\ ~p.authenticated
  <2>1. Authorize(r) = Refuse(r, 401)
    BY <1>3 DEF Authorize
  <2>2. Entitled(r) => GoodToken(r)
    BY <1>3 DEF Entitled
  <2>3. GoodToken(r) => settings.verify = "jwks"
    BY <1>0, <1>3, GoodTokenFacts
  <2>4. Entitled(r) => Reason(r)
    BY <1>3, <2>2, <2>3 DEF Reason
  <2> QED
    BY <1>0, <2>1, <2>4, RefuseExplained
<1>4. CASE settings.mode = "static" /\ p.authenticated
  <2>1. Authorize(r) = IF StaticAllows(p, r.action, None) THEN Passed(r, GrafanaRole(p))
                       ELSE Refuse(r, 403)
    BY <1>4 DEF Authorize
  <2>2. CASE StaticAllows(p, r.action, None)
    BY <1>0, <2>1, <2>2, PassedExplained
  <2>3. CASE ~StaticAllows(p, r.action, None)
    <3>1. ~Entitled(r)
      BY <1>4, <2>3, GrantedFacts DEF Entitled
    <3> QED
      BY <1>0, <2>1, <2>3, <3>1, RefuseExplained
  <2> QED
    BY <2>2, <2>3
<1>5. CASE settings.mode = "external" /\ p.authenticated
  <2>1. Authorize(r) = IF settings.url THEN [r EXCEPT !.pc = "deciding", !.saw = {Opinion(r, policy)}]
                       ELSE Refuse(r, 403)
    BY <1>5 DEF Authorize
  <2>2. CASE ~settings.url
    <3>1. ~Entitled(r)
      BY <1>0, <1>5 DEF Entitled
    <3> QED
      BY <1>0, <2>1, <2>2, <3>1, RefuseExplained
  <2>3. CASE settings.url
    <3>1. PICK pc, caller, principal, action, saw, answers, up, down, code, body, identity :
            r = Fields(pc, caller, principal, action, saw, answers, up, down, code, body, identity)
      BY <1>0 DEF IsRequest
    <3> DEFINE s == Authorize(r)
    <3>2. s = Fields("deciding", caller, principal, action, {Opinion(r, policy)}, answers,
                     up, down, code, body, identity)
      BY <2>1, <2>3, <3>1 DEF Fields
    <3> HIDE DEF s
    <3>3. /\ s.pc = "deciding" /\ s.principal = r.principal /\ s.action = r.action
          /\ s.saw = {Opinion(r, policy)} /\ s.answers = r.answers /\ s.identity = r.identity
      BY <3>1, <3>2 DEF Fields
    <3>4. Opinion(s, policy) = Opinion(r, policy)
      BY <3>3 DEF Opinion
    <3>5. Explained(s)
      BY <1>0, <1>5, <3>3, <3>4 DEF Explained, Reasoned, Rolled, Decided
    <3> QED
      BY <3>5 DEF s
  <2> QED
    BY <2>2, <2>3
<1> QED
  BY <1>1, <1>2, <1>3, <1>4, <1>5

LEMMA GuardExplained ==
  ASSUME NEW r, Unasked(r), settings \in Settings
  PROVE  Explained(Guard(r))
<1>0. /\ IsRequest(r) /\ r.caller \in Callers
      /\ r.saw = {} /\ DOMAIN r.answers = {} /\ r.identity = None
      /\ settings.key \in BOOLEAN
  BY DEF Unasked, Settings
<1>1. CASE r.caller.route = "verify"
  <2>1. Guard(r) = Authorize(r)
    BY <1>1 DEF Guard
  <2> QED
    BY <1>1, <2>1, AuthorizeExplained
<1>2. CASE r.caller.route # "verify" /\ KeyOk(settings, r.caller.key)
           /\ (settings.mode = "none" \/ settings.key)
  <2>1. Guard(r) = Passed(r, None)
    BY <1>0, <1>2 DEF Guard
  <2> QED
    BY <1>0, <1>2, <2>1, PassedExplained
<1>3. CASE r.caller.route # "verify" /\ settings.mode = "none" /\ ~KeyOk(settings, r.caller.key)
  <2>1. Guard(r) = Refuse(r, 401)
    BY <1>3 DEF Guard
  <2>2. ~Entitled(r)
    BY <1>3 DEF Entitled, KeyOk
  <2> QED
    BY <1>0, <2>1, <2>2, RefuseExplained
<1>4. CASE /\ r.caller.route # "verify" /\ settings.mode # "none"
           /\ ~(settings.key /\ KeyOk(settings, r.caller.key))
  <2>1. Guard(r) = Authorize(r)
    BY <1>4 DEF Guard
  <2>2. ~(settings.key /\ r.caller.key = "right")
    BY <1>4 DEF KeyOk
  <2> QED
    BY <1>4, <2>1, <2>2, AuthorizeExplained
<1> QED
  BY <1>0, <1>1, <1>2, <1>3, <1>4

LEMMA ReasonStep == OpsInv /\ ReasonInv /\ [OpsNext]_opsVars => ReasonInv'
<1> SUFFICES ASSUME OpsInv, ReasonInv, [OpsNext]_opsVars PROVE ReasonInv'
  OBVIOUS
<1>1. ASSUME settings' = settings, policy' = policy, fleet' = fleet, Explained(request')
      PROVE  ReasonInv'
  <2>1. /\ Entitled(request)' <=> Entitled(request')
        /\ Opinion(request, policy)' = Opinion(request', policy)
    BY <1>1 DEF Entitled, GoodToken, Opinion
  <2>2. Reasoned(request)' /\ Rolled(request)' /\ Decided(request)'
    BY <1>1, <2>1 DEF Explained, Reasoned, Reason, Rolled, Decided, Opened
  <2> QED
    BY <1>1, <2>1, <2>2 DEF ReasonInv, Explained
<1>2. request.pc # "none" => Guarded(request) /\ Explained(request) /\ IsRequest(request)
  BY DEF OpsInv, ReasonInv, NoRequest, Guarded
<1>3. ASSUME NEW caller \in Callers, Arrive(caller) PROVE ReasonInv'
  <2>1. PICK p \in Principals(settings, Bearer(caller.header, caller.cookie)) :
          request' = Guard([pc |-> "arrived", caller |-> caller, principal |-> p,
                            action |-> IF caller.route = "verify" THEN ActionFor(caller.uri)
                                       ELSE "status:read",
                            saw |-> {}, answers |-> [t \in {} |-> TRUE], up |-> {}, down |-> {},
                            code |-> 0, body |-> None, identity |-> None])
    BY <1>3 DEF Arrive
  <2> DEFINE action == IF caller.route = "verify" THEN ActionFor(caller.uri) ELSE "status:read"
             r == Fields("arrived", caller, p, action, {}, [t \in {} |-> TRUE], {}, {}, 0, None, None)
  <2>2. request' = Guard(r)
    BY <2>1 DEF Fields
  <2> HIDE DEF action
  <2>3. IsRequest(r)
    BY DEF IsRequest
  <2>4. /\ r.caller = caller /\ r.principal = p /\ r.saw = {}
        /\ DOMAIN r.answers = {} /\ r.identity = None
    BY DEF Fields
  <2> HIDE DEF r
  <2>5. Explained(Guard(r))
    BY <2>3, <2>4, GuardExplained DEF OpsInv, Unasked
  <2> QED
    BY <1>1, <1>3, <2>2, <2>5 DEF Arrive
<1>4. CASE ServiceAnswers
  <2>1. /\ Guarded(request) /\ Explained(request) /\ request.pc = "deciding"
        /\ settings' = settings /\ policy' = policy /\ fleet' = fleet
    BY <1>2, <1>4 DEF ServiceAnswers
  <2>2. /\ IsRequest(request) /\ request.caller \in Callers /\ settings.mode = "external"
        /\ DOMAIN request.answers = {} /\ request.identity = None
        /\ Opinion(request, policy) \in request.saw
    BY <2>1 DEF Guarded, Explained
  <2>3. CASE Opinion(request, policy) = "allowed"
    <3>1. PICK role : request' = Passed(request, role)
      BY <1>4, <2>3 DEF ServiceAnswers
    <3>2. Explained(request')
      BY <2>2, <3>1, PassedExplained
    <3> QED
      BY <1>1, <2>1, <3>2
  <2>4. CASE Opinion(request, policy) # "allowed"
    <3>1. request' = Refuse(request, 403)
      BY <1>4, <2>4 DEF ServiceAnswers
    <3>2. Opinion(request, policy) = "denied"
      BY <2>4 DEF Opinion
    <3>3. Reason(request)
      BY <2>2, <3>2 DEF Reason
    <3>4. Explained(request')
      BY <2>2, <3>1, <3>3, RefuseExplained
    <3> QED
      BY <1>1, <2>1, <3>4
  <2> QED
    BY <2>3, <2>4
<1>5. CASE ServiceFails
  <2>1. /\ IsRequest(request) /\ settings' = settings /\ policy' = policy /\ fleet' = fleet
        /\ request' = Refuse([request EXCEPT !.saw = @ \cup {"failed"}], 403)
    BY <1>2, <1>5 DEF ServiceFails
  <2> DEFINE r == [request EXCEPT !.saw = request.saw \cup {"failed"}]
  <2>2. IsRequest(r) /\ r.saw = request.saw \cup {"failed"}
    BY <2>1, SawFacts
  <2>3. request' = Refuse(r, 403)
    BY <2>1
  <2> HIDE DEF r
  <2>4. Reason(r)
    BY <2>2 DEF Reason
  <2>5. Explained(request')
    BY <2>2, <2>3, <2>4, RefuseExplained
  <2> QED
    BY <1>1, <2>1, <2>5
<1>6. ASSUME NEW t \in Targets, ProbeReturns(t) PROVE ReasonInv'
  <2>1. /\ IsRequest(request) /\ Rolled(request) /\ request.pc = "probing"
        /\ settings' = settings /\ policy' = policy /\ fleet' = fleet
    BY <1>2, <1>6 DEF ProbeReturns, Explained
  <2> DEFINE x == [s \in DOMAIN request.answers \cup {t} |->
                     IF s = t THEN t \in fleet ELSE request.answers[s]]
  <2>2. request' = [request EXCEPT !.answers = x]
    BY <1>6 DEF ProbeReturns
  <2>3. \A s \in DOMAIN x : (x[s] => s \in request.up) /\ (~x[s] => s \in request.down)
    <3>1. fleet \subseteq request.up /\ Targets \ fleet \subseteq request.down
      BY <2>1 DEF Rolled
    <3> SUFFICES ASSUME NEW s \in DOMAIN x
                 PROVE  (x[s] => s \in request.up) /\ (~x[s] => s \in request.down)
      OBVIOUS
    <3>2. CASE s = t
      <4>1. x[s] = (t \in fleet)
        BY <3>2
      <4> QED
        BY <3>1, <3>2, <4>1
    <3>3. CASE s # t
      <4>1. s \in DOMAIN request.answers /\ x[s] = request.answers[s]
        BY <3>3
      <4>2. /\ request.answers[s] => s \in request.up
            /\ ~request.answers[s] => s \in request.down
        BY <2>1, <4>1 DEF Rolled
      <4> QED
        BY <4>1, <4>2
    <3> QED
      BY <3>2, <3>3
  <2> HIDE DEF x
  <2>4. /\ SameQuestion(request', request) /\ request'.pc = "probing" /\ request'.answers = x
        /\ request'.identity = request.identity
        /\ request'.up = request.up /\ request'.down = request.down
    BY <2>1, <2>2, AnswersFacts
  <2>5. Rolled(request')
    BY <2>1, <2>3, <2>4 DEF Rolled, SameQuestion
  <2>6. request'.identity = None
    BY <2>1, <2>4 DEF Rolled
  <2>7. Explained(request')
    BY <2>4, <2>5, <2>6 DEF Explained, Reasoned, Decided
  <2> QED
    BY <1>1, <2>1, <2>7
<1>7. CASE StatusEnds
  <2>1. /\ IsRequest(request) /\ Rolled(request) /\ request.pc = "probing"
        /\ settings' = settings /\ policy' = policy /\ fleet' = fleet
    BY <1>2, <1>7 DEF StatusEnds, Explained
  <2>2. DOMAIN request.answers = Targets
    BY <1>7 DEF StatusEnds
  <2>3. CASE \A t \in Targets : request.answers[t]
    <3>1. request' = Answer(request, 200, "ok", None)
      BY <1>7, <2>3 DEF StatusEnds
    <3>2. /\ request'.pc = "answered" /\ request'.code = 200 /\ request'.body = "ok"
          /\ request'.identity = None /\ request'.up = request.up
      BY <2>1, <3>1, AnswerFacts
    <3>3. Targets \subseteq request.up
      BY <2>1, <2>2, <2>3 DEF Rolled
    <3>4. Explained(request')
      BY <3>2, <3>3 DEF Explained, Reasoned, Rolled, Decided
    <3> QED
      BY <1>1, <2>1, <3>4
  <2>4. CASE ~\A t \in Targets : request.answers[t]
    <3>1. request' = Answer(request, 503, "degraded", None)
      BY <1>7, <2>4 DEF StatusEnds
    <3>2. /\ request'.pc = "answered" /\ request'.code = 503 /\ request'.body = "degraded"
          /\ request'.identity = None /\ request'.down = request.down
      BY <2>1, <3>1, AnswerFacts
    <3>3. request.down # {}
      BY <2>1, <2>2, <2>4 DEF Rolled
    <3>4. Explained(request')
      BY <3>2, <3>3 DEF Explained, Reasoned, Rolled, Decided
    <3> QED
      BY <1>1, <2>1, <3>4
  <2> QED
    BY <2>3, <2>4
<1>8. CASE WorldChanges
  <2>1. settings' = settings
    BY <1>8 DEF WorldChanges
  <2>2. CASE /\ request.pc = "deciding"
             /\ request' = [request EXCEPT !.saw = @ \cup {Opinion(request, policy')}]
    <3>1. IsRequest(request) /\ Explained(request)
      BY <1>2, <2>2
    <3>2. /\ SameQuestion(request', request) /\ request'.pc = "deciding"
          /\ request'.saw = request.saw \cup {Opinion(request, policy')}
          /\ request'.answers = request.answers /\ request'.identity = request.identity
      BY <2>2, <3>1, SawFacts
    <3>3. Opinion(request, policy)' = Opinion(request, policy')
      BY <3>2 DEF Opinion, SameQuestion
    <3>4. /\ settings'.mode = "external" /\ Opinion(request, policy)' \in request'.saw
          /\ DOMAIN request'.answers = {} /\ request'.identity = None
      BY <2>1, <2>2, <3>1, <3>2, <3>3 DEF Explained
    <3>5. Reasoned(request)' /\ Rolled(request)' /\ Decided(request)'
      BY <3>2, <3>4 DEF Reasoned, Rolled, Decided
    <3> QED
      BY <3>2, <3>4, <3>5 DEF ReasonInv, Explained
  <2>3. CASE /\ request.pc = "probing"
             /\ request' = [request EXCEPT !.up = @ \cup fleet', !.down = @ \cup (Targets \ fleet')]
    <3>1. IsRequest(request) /\ Rolled(request)
      BY <1>2, <2>3 DEF Explained
    <3> DEFINE x == request.up \cup fleet'
               y == request.down \cup (Targets \ fleet')
    <3>2. request' = WithUpDown(request, x, y)
      BY <2>3 DEF WithUpDown
    <3>3. /\ request.up \subseteq x /\ request.down \subseteq y
          /\ fleet' \subseteq x /\ Targets \ fleet' \subseteq y
      OBVIOUS
    <3> HIDE DEF x, y
    <3>4. /\ SameQuestion(request', request) /\ request'.pc = "probing"
          /\ request'.answers = request.answers /\ request'.identity = request.identity
          /\ request'.up = x /\ request'.down = y
      <4>1. request.pc = "probing"
        BY <2>3
      <4> QED
        BY <3>1, <3>2, <4>1, UpDownFacts
    <3>5. request'.caller.route = "status" /\ request'.identity = None
      BY <2>3, <3>1, <3>4 DEF Rolled, SameQuestion
    <3>6. \A t \in DOMAIN request'.answers :
             (request'.answers[t] => t \in request'.up) /\ (~request'.answers[t] => t \in request'.down)
      BY <2>3, <3>1, <3>3, <3>4 DEF Rolled
    <3>7. Rolled(request)'
      BY <3>3, <3>4, <3>5, <3>6 DEF Rolled
    <3> QED
      BY <3>4, <3>5, <3>7 DEF ReasonInv, Explained, Reasoned, Decided
  <2> QED
    BY <1>8, <2>2, <2>3 DEF WorldChanges
<1>9. CASE UNCHANGED opsVars
  <2>1. settings' = settings /\ policy' = policy /\ fleet' = fleet /\ request' = request
    BY <1>9 DEF opsVars
  <2> QED
    BY <1>1, <2>1 DEF ReasonInv
<1> QED
  BY <1>3, <1>4, <1>5, <1>6, <1>7, <1>8, <1>9 DEF OpsNext

LEMMA AnswersExplained == OpsSpec => [](OpsInv /\ ReasonInv)
<1>1. OpsInit => OpsInv /\ ReasonInv
  BY DEF OpsInit, OpsInv, ReasonInv
<1> QED
  BY <1>1, OpsStep, ReasonStep, PTL DEF OpsSpec

\* Whatever the settings, the token and the policy: whoever is entitled is
\* refused only when the key set could not be fetched, or the RBAC service
\* failed or said no at some moment of the question.
THEOREM RefusalsHaveAReason == OpsSpec => []RefusedForAReason
<1>1. ReasonInv => RefusedForAReason
  BY DEF ReasonInv, RefusedForAReason, Explained, Reasoned, Reason, NoRequest
<1> QED
  BY AnswersExplained, <1>1, PTL

\* For every set of targets, and however their health changes while they are
\* probed, a rollup of /status was true of each target at some moment of it.
THEOREM RollupsAreFresh == OpsSpec => []RollupIsFresh
<1>1. ReasonInv => RollupIsFresh
  BY DEF ReasonInv, RollupIsFresh, Explained, Rolled, NoRequest
<1> QED
  BY AnswersExplained, <1>1, PTL

-----------------------------------------------------------------------------
\* Roles.

\* Of two principals, the one with more roles is granted more.
LEMMA GrantedMonotone ==
  ASSUME NEW p, NEW q, p.roles \subseteq q.roles, q.authenticated, NEW action,
         StaticAllows(p, action, None)
  PROVE  StaticAllows(q, action, None)
BY DEF StaticAllows, Granted

Mapped(p) == {GrafanaRoles[r] : r \in p.roles \cap DOMAIN GrafanaRoles}

LEMMA RankedFacts ==
  /\ DOMAIN Ranked = 1 .. 3 /\ Range(Ranked) = {"Viewer", "Editor", "Admin"}
  /\ Ranked[1] = "Viewer" /\ Ranked[2] = "Editor" /\ Ranked[3] = "Admin"
  /\ Rank("Viewer") = 1 /\ Rank("Editor") = 2 /\ Rank("Admin") = 3
<1>1. /\ DOMAIN Ranked = 1 .. 3
      /\ Ranked[1] = "Viewer" /\ Ranked[2] = "Editor" /\ Ranked[3] = "Admin"
  BY DEF Ranked
<1>2. Range(Ranked) = {"Viewer", "Editor", "Admin"}
  BY <1>1 DEF Range
<1>3. \A i \in 1 .. 3 : Ranked[i] = "Viewer" <=> i = 1
  BY <1>1
<1>4. \A i \in 1 .. 3 : Ranked[i] = "Editor" <=> i = 2
  BY <1>1
<1>5. \A i \in 1 .. 3 : Ranked[i] = "Admin" <=> i = 3
  BY <1>1
<1> QED
  BY <1>1, <1>2, <1>3, <1>4, <1>5 DEF Rank

\* A principal without a mapped role has none in Grafana; otherwise it has the
\* highest of those its roles map to.
LEMMA GrafanaRoleFacts ==
  ASSUME NEW p
  PROVE  /\ Mapped(p) \subseteq Range(Ranked)
         /\ Mapped(p) = {} => GrafanaRole(p) = None
         /\ Mapped(p) # {} => /\ GrafanaRole(p) \in Mapped(p)
                              /\ \A role \in Mapped(p) : Rank(role) <= Rank(GrafanaRole(p))
<1>1. Mapped(p) \subseteq Range(Ranked)
  BY AuthzAssumption DEF Mapped
<1>2. CASE Mapped(p) = {}
  <2>1. GrafanaRole(p) = None
    BY <1>2 DEF GrafanaRole, Mapped
  <2> QED
    BY <1>1, <1>2, <2>1
<1>3. CASE Mapped(p) # {}
  <2> DEFINE Best(i) == /\ Ranked[i] \in Mapped(p)
                        /\ \A j \in DOMAIN Ranked : Ranked[j] \in Mapped(p) => j <= i
  <2>1. \E i \in 1 .. 3 : Best(i)
    <3>1. CASE Ranked[3] \in Mapped(p)
      BY <3>1, RankedFacts
    <3>2. CASE Ranked[3] \notin Mapped(p) /\ Ranked[2] \in Mapped(p)
      BY <3>2, RankedFacts
    <3>3. CASE Ranked[3] \notin Mapped(p) /\ Ranked[2] \notin Mapped(p)
      <4>1. Ranked[1] \in Mapped(p)
        BY <1>1, <1>3, <3>3, RankedFacts
      <4> QED
        BY <3>3, <4>1, RankedFacts
    <3> QED
      BY <3>1, <3>2, <3>3
  <2>2. PICK i \in 1 .. 3 : i = CHOOSE k \in DOMAIN Ranked : Best(k)
    BY <2>1, RankedFacts
  <2>3. Best(i)
    BY <2>1, <2>2, RankedFacts
  <2>4. GrafanaRole(p) = Ranked[i]
    BY <1>3, <2>2 DEF GrafanaRole, Mapped
  <2>5. Rank(Ranked[i]) = i
    BY RankedFacts
  <2>6. \A role \in Mapped(p) : Rank(role) <= i
    <3> SUFFICES ASSUME NEW role \in Mapped(p) PROVE Rank(role) <= i
      OBVIOUS
    <3>1. PICK j \in 1 .. 3 : role = Ranked[j]
      BY <1>1, RankedFacts
    <3>2. Rank(role) = j
      BY <3>1, RankedFacts
    <3>3. j <= i
      BY <2>3, <3>1, RankedFacts
    <3> QED
      BY <3>2, <3>3
  <2> QED
    BY <1>1, <1>3, <2>3, <2>4, <2>5, <2>6
<1> QED
  BY <1>2, <1>3

LEMMA IdentityRank ==
  ASSUME NEW p
  PROVE  /\ Mapped(p) = {} => Rank(Identity(p, GrafanaRole(p)).role) = 1
         /\ Mapped(p) # {} => Identity(p, GrafanaRole(p)).role = GrafanaRole(p)
         /\ Rank(Identity(p, GrafanaRole(p)).role) \in 1 .. 3
<1>1. Identity(p, GrafanaRole(p)).role = IF GrafanaRole(p) # None THEN GrafanaRole(p) ELSE "Viewer"
  BY DEF Identity
<1>2. CASE Mapped(p) = {}
  BY <1>1, <1>2, GrafanaRoleFacts, RankedFacts
<1>3. CASE Mapped(p) # {}
  <2>1. GrafanaRole(p) \in Range(Ranked)
    BY <1>3, GrafanaRoleFacts
  <2>2. GrafanaRole(p) # None
    BY <2>1, AuthzAssumption
  <2> QED
    BY <1>1, <1>3, <2>1, <2>2, RankedFacts
<1> QED
  BY <1>2, <1>3

\* A principal with more roles is at least as much in Grafana.
LEMMA RankMonotone ==
  ASSUME NEW p, NEW q, p.roles \subseteq q.roles
  PROVE  Rank(Identity(p, GrafanaRole(p)).role) <= Rank(Identity(q, GrafanaRole(q)).role)
<1>1. Mapped(p) \subseteq Mapped(q)
  BY DEF Mapped
<1>2. CASE Mapped(p) = {}
  BY <1>2, IdentityRank
<1>3. CASE Mapped(p) # {}
  <2>1. GrafanaRole(p) \in Mapped(q) /\ Mapped(q) # {}
    BY <1>1, <1>3, GrafanaRoleFacts
  <2> QED
    BY <1>3, <2>1, GrafanaRoleFacts, IdentityRank
<1> QED
  BY <1>2, <1>3

\* For every role map: with the static map, a token with more roles opens at
\* least as much at /authz/verify, and is at least as much in Grafana.
THEOREM RolesAreMonotone == OpsSpec => []MoreRolesNeverLess
<1>1. ReasonInv => MoreRolesNeverLess
  <2> SUFFICES ASSUME ReasonInv, request.pc = "answered", request.identity # None,
                      settings.mode = "static", NEW t \in Tokens,
                      request.principal.roles \subseteq Claims[t].roles
               PROVE  LET p == Principal(Claims[t]) IN
                      /\ StaticAllows(p, request.action, None)
                      /\ Rank(request.identity.role) <= Rank(Identity(p, GrafanaRole(p)).role)
    BY DEF MoreRolesNeverLess
  <2>1. /\ StaticAllows(request.principal, request.action, None)
        /\ request.identity = Identity(request.principal, GrafanaRole(request.principal))
    BY DEF ReasonInv, NoRequest, Explained, Decided
  <2>2. PICK p : p = Principal(Claims[t])
    OBVIOUS
  <2>3. p.authenticated /\ request.principal.roles \subseteq p.roles
    BY <2>2 DEF Principal
  <2>4. StaticAllows(p, request.action, None)
    BY <2>1, <2>3, GrantedMonotone
  <2>5. Rank(request.identity.role) <= Rank(Identity(p, GrafanaRole(p)).role)
    BY <2>1, <2>3, RankMonotone
  <2> QED
    BY <2>2, <2>4, <2>5
<1> QED
  BY AnswersExplained, <1>1, PTL

-----------------------------------------------------------------------------
\* Types.

TypedRequest(r) ==
    /\ IsRequest(r) /\ r.caller \in Callers /\ r.action \in Actions
    /\ r.pc \in {"arrived", "deciding", "probing", "answered"}
    /\ r.saw \subseteq {"allowed", "denied", "failed"}
    /\ DOMAIN r.answers \subseteq Targets /\ r.up \subseteq Targets /\ r.down \subseteq Targets
    /\ r.principal.authenticated => r.principal.user \in Users
    /\ r.pc = "deciding" => r.principal.authenticated

OpsTypeInv ==
    /\ policy \subseteq Users \X Actions /\ fleet \subseteq Targets /\ stack \in Snapshots
    /\ request = NoRequest \/ (TypedRequest(request) /\ request.pc # "arrived")

\* The route table names an action for every path, or the path is that of the UI.
LEMMA ActionForType ==
  ASSUME NEW uri
  PROVE  ActionFor(uri) \in Actions
<1> DEFINE M == {i \in DOMAIN RouteActions : IsPrefix(RouteActions[i][1], PathOf(uri))}
<1>1. DOMAIN RouteActions \subseteq Nat
  BY AuthzAssumption
<1>2. M \subseteq DOMAIN RouteActions
  OBVIOUS
<1>3. ActionFor(uri) = IF M = {} THEN "ui:access"
                       ELSE RouteActions[CHOOSE i \in M : \A j \in M : i <= j][2]
  BY DEF ActionFor
<1> HIDE DEF M
<1>4. CASE M = {}
  BY <1>3, <1>4 DEF Actions
<1>5. CASE M # {}
  <2>1. PICK k \in M : TRUE
    BY <1>5
  <2>2. IsWellFoundedOn(OpToRel(<, Nat), Nat)
    BY NatLessThanWellFounded
  <2>3. M \subseteq Nat
    BY <1>1, <1>2
  <2>4. PICK m \in M : \A i \in M : <<i, m>> \notin OpToRel(<, Nat)
    BY <2>1, <2>2, <2>3, WFMin
  <2>5. \A i \in M : m <= i
    <3>1. \A i \in M : ~(i < m)
      BY <2>3, <2>4 DEF OpToRel
    <3>2. \A i \in M : i \in Nat /\ m \in Nat
      BY <2>3
    <3> QED
      BY <3>1, <3>2
  <2>6. (CHOOSE i \in M : \A j \in M : i <= j) \in DOMAIN RouteActions
    BY <1>2, <2>5
  <2> QED
    BY <1>3, <1>5, <2>6 DEF Actions
<1> QED
  BY <1>4, <1>5

LEMMA AnswerTyped ==
  ASSUME NEW r, TypedRequest(r), NEW code, NEW body, NEW identity
  PROVE  LET s == Answer(r, code, body, identity) IN TypedRequest(s) /\ s.pc = "answered"
<1> DEFINE s == Answer(r, code, body, identity)
<1>1. /\ IsRequest(s) /\ SameQuestion(s, r) /\ s.pc = "answered"
      /\ s.saw = r.saw /\ s.answers = r.answers /\ s.up = r.up /\ s.down = r.down
  BY AnswerFacts DEF TypedRequest
<1> HIDE DEF s
<1>2. TypedRequest(s)
  BY <1>1 DEF TypedRequest, SameQuestion
<1> QED
  BY <1>1, <1>2 DEF s

LEMMA PassedTyped ==
  ASSUME NEW r, TypedRequest(r), NEW role, fleet \subseteq Targets
  PROVE  LET s == Passed(r, role) IN TypedRequest(s) /\ s.pc \in {"probing", "answered"}
<1> DEFINE s == Passed(r, role)
<1>1. /\ IsRequest(s) /\ SameQuestion(s, r) /\ s.pc \in {"probing", "answered"} /\ s.saw = r.saw
      /\ s.pc = "probing" => s.answers = r.answers /\ s.up = fleet /\ s.down = Targets \ fleet
  BY PassedFacts DEF TypedRequest
<1>2. CASE s.pc = "probing"
  <2> HIDE DEF s
  <2>1. TypedRequest(s)
    BY <1>1, <1>2 DEF TypedRequest, SameQuestion
  <2> QED
    BY <1>1, <2>1 DEF s
<1>3. CASE s.pc # "probing"
  <2>1. r.caller.route \in {"status", "stack", "verify"}
    BY CallerFacts DEF TypedRequest
  <2>2. \/ \E code, body, identity : s = Answer(r, code, body, identity)
        \/ s = [r EXCEPT !.pc = "probing", !.up = fleet, !.down = Targets \ fleet]
    BY <2>1 DEF Passed
  <2>3. CASE s = [r EXCEPT !.pc = "probing", !.up = fleet, !.down = Targets \ fleet]
    <3>1. PICK pc, caller, principal, action, saw, answers, up, down, code, body, identity :
            r = Fields(pc, caller, principal, action, saw, answers, up, down, code, body, identity)
      BY DEF TypedRequest, IsRequest
    <3>2. [r EXCEPT !.pc = "probing", !.up = fleet, !.down = Targets \ fleet].pc = "probing"
      BY <3>1 DEF Fields
    <3> HIDE DEF s
    <3> QED
      BY <1>3, <2>3, <3>2
  <2>4. CASE \E code, body, identity : s = Answer(r, code, body, identity)
    <3>1. PICK code, body, identity : s = Answer(r, code, body, identity)
      BY <2>4
    <3> HIDE DEF s
    <3>2. TypedRequest(s) /\ s.pc = "answered"
      BY <3>1, AnswerTyped
    <3> QED
      BY <3>2 DEF s
  <2> QED
    BY <2>2, <2>3, <2>4
<1> QED
  BY <1>2, <1>3

LEMMA AuthorizeTyped ==
  ASSUME NEW r, TypedRequest(r), settings \in Settings, fleet \subseteq Targets
  PROVE  LET s == Authorize(r) IN TypedRequest(s) /\ s.pc # "arrived"
<1> DEFINE p == r.principal
           s == Authorize(r)
<1>1. settings.mode \in {"none", "static", "external"}
  BY DEF Settings
<1>2. \A code : TypedRequest(Refuse(r, code)) /\ Refuse(r, code).pc # "arrived"
  BY AnswerTyped DEF Refuse
<1>3. \A role : TypedRequest(Passed(r, role)) /\ Passed(r, role).pc # "arrived"
  BY PassedTyped
<1>4. CASE settings.mode = "none"
  BY <1>3, <1>4 DEF Authorize
<1>5. CASE settings.mode # "none" /\ ~p.authenticated
  BY <1>2, <1>5 DEF Authorize
<1>6. CASE settings.mode = "static" /\ p.authenticated
  BY <1>2, <1>3, <1>6 DEF Authorize
<1>7. CASE settings.mode = "external" /\ p.authenticated
  <2>1. s = IF settings.url THEN [r EXCEPT !.pc = "deciding", !.saw = {Opinion(r, policy)}]
            ELSE Refuse(r, 403)
    BY <1>7 DEF Authorize
  <2>2. PICK pc, caller, principal, action, saw, answers, up, down, code, body, identity :
          r = Fields(pc, caller, principal, action, saw, answers, up, down, code, body, identity)
    BY DEF TypedRequest, IsRequest
  <2>3. PICK o : o = Opinion(r, policy) /\ o \in {"allowed", "denied"}
    BY DEF Opinion
  <2>4. PICK t : t = Fields("deciding", caller, principal, action, {o}, answers, up, down,
                            code, body, identity)
    OBVIOUS
  <2>5. t = [r EXCEPT !.pc = "deciding", !.saw = {Opinion(r, policy)}]
    <3> DEFINE q == [r EXCEPT !.pc = "deciding"]
    <3>1. q = Fields("deciding", caller, principal, action, saw, answers, up, down, code, body, identity)
      BY <2>2 DEF Fields
    <3>2. [r EXCEPT !.pc = "deciding", !.saw = {o}] = [q EXCEPT !.saw = {o}]
      OBVIOUS
    <3> HIDE DEF q
    <3>3. [q EXCEPT !.saw = {o}] = t
      BY <2>4, <3>1 DEF Fields
    <3> QED
      BY <2>3, <3>2, <3>3
  <2>6. IsRequest(t)
    BY <2>4 DEF IsRequest
  <2>7. /\ t.caller = r.caller /\ t.action = r.action /\ t.principal = r.principal /\ t.pc = "deciding"
        /\ t.saw = {o} /\ t.answers = r.answers /\ t.up = r.up /\ t.down = r.down
    BY <2>2, <2>4 DEF Fields
  <2>8. TypedRequest(t) /\ t.pc # "arrived"
    BY <1>7, <2>3, <2>6, <2>7 DEF TypedRequest
  <2> QED
    BY <1>2, <2>1, <2>5, <2>8
<1> QED
  BY <1>1, <1>4, <1>5, <1>6, <1>7

LEMMA GuardTyped ==
  ASSUME NEW r, TypedRequest(r), settings \in Settings, fleet \subseteq Targets
  PROVE  LET s == Guard(r) IN TypedRequest(s) /\ s.pc # "arrived"
<1>1. \A code : TypedRequest(Refuse(r, code)) /\ Refuse(r, code).pc # "arrived"
  BY AnswerTyped DEF Refuse
<1>2. TypedRequest(Passed(r, None)) /\ Passed(r, None).pc # "arrived"
  BY PassedTyped
<1>3. TypedRequest(Authorize(r)) /\ Authorize(r).pc # "arrived"
  BY AuthorizeTyped
<1>4. Guard(r) = Authorize(r) \/ Guard(r) = Passed(r, None) \/ Guard(r) = Refuse(r, 401)
  BY DEF Guard
<1> QED
  BY <1>1, <1>2, <1>3, <1>4

\* Nobody but the owner of a token is taken for somebody.
LEMMA PrincipalTyped ==
  ASSUME NEW bearer, NEW p \in Principals(settings, bearer), p.authenticated
  PROVE  p.user \in Users
<1>1. ~Anonymous.authenticated
  BY DEF Anonymous
<1>2. bearer \in Tokens /\ p = Principal(Claims[bearer])
  BY <1>1 DEF Principals
<1>3. p.user = Claims[bearer].user
  BY <1>2 DEF Principal
<1> QED
  BY <1>2, <1>3 DEF Users

LEMMA OpsTypeStep == OpsInv /\ OpsTypeInv /\ [OpsNext]_opsVars => OpsTypeInv'
<1> SUFFICES ASSUME OpsInv, OpsTypeInv, [OpsNext]_opsVars PROVE OpsTypeInv'
  OBVIOUS
<1>1. ASSUME policy' = policy, fleet' = fleet, stack' = stack,
             TypedRequest(request'), request'.pc # "arrived"
      PROVE  OpsTypeInv'
  <2>1. TypedRequest(request)'
    BY <1>1 DEF TypedRequest
  <2> QED
    BY <1>1, <2>1 DEF OpsTypeInv
<1>2. request.pc # "none" => TypedRequest(request)
  BY DEF OpsTypeInv, NoRequest
<1>3. fleet \subseteq Targets /\ settings \in Settings
  BY DEF OpsTypeInv, OpsInv
<1>4. ASSUME NEW caller \in Callers, Arrive(caller) PROVE OpsTypeInv'
  <2>1. PICK p \in Principals(settings, Bearer(caller.header, caller.cookie)) :
          request' = Guard([pc |-> "arrived", caller |-> caller, principal |-> p,
                            action |-> IF caller.route = "verify" THEN ActionFor(caller.uri)
                                       ELSE "status:read",
                            saw |-> {}, answers |-> [t \in {} |-> TRUE], up |-> {}, down |-> {},
                            code |-> 0, body |-> None, identity |-> None])
    BY <1>4 DEF Arrive
  <2> DEFINE action == IF caller.route = "verify" THEN ActionFor(caller.uri) ELSE "status:read"
             r == Fields("arrived", caller, p, action, {}, [t \in {} |-> TRUE], {}, {}, 0, None, None)
  <2>2. request' = Guard(r)
    BY <2>1 DEF Fields
  <2>3. action \in Actions
    BY ActionForType DEF Actions
  <2> HIDE DEF action
  <2>4. IsRequest(r)
    BY DEF IsRequest
  <2>5. /\ r.caller = caller /\ r.principal = p /\ r.action = action /\ r.pc = "arrived"
        /\ r.saw = {} /\ DOMAIN r.answers = {} /\ r.up = {} /\ r.down = {}
    BY DEF Fields
  <2> HIDE DEF r
  <2>6. p.authenticated => p.user \in Users
    BY PrincipalTyped
  <2>7. TypedRequest(r)
    BY <2>3, <2>4, <2>5, <2>6 DEF TypedRequest
  <2>8. TypedRequest(request') /\ request'.pc # "arrived"
    BY <1>3, <2>2, <2>7, GuardTyped
  <2> QED
    BY <1>1, <1>4, <2>8 DEF Arrive
<1>5. CASE ServiceAnswers
  <2>1. TypedRequest(request) /\ policy' = policy /\ fleet' = fleet /\ stack' = stack
    BY <1>2, <1>5 DEF ServiceAnswers
  <2>2. (\E role : request' = Passed(request, role)) \/ request' = Answer(request, 403, None, None)
    BY <1>5 DEF ServiceAnswers, Refuse
  <2>3. TypedRequest(request') /\ request'.pc # "arrived"
    BY <1>3, <2>1, <2>2, PassedTyped, AnswerTyped
  <2> QED
    BY <1>1, <2>1, <2>3
<1>6. CASE ServiceFails
  <2>1. /\ TypedRequest(request) /\ policy' = policy /\ fleet' = fleet /\ stack' = stack
        /\ request' = Refuse([request EXCEPT !.saw = @ \cup {"failed"}], 403)
    BY <1>2, <1>6 DEF ServiceFails
  <2> DEFINE r == [request EXCEPT !.saw = request.saw \cup {"failed"}]
  <2>2. /\ IsRequest(r) /\ SameQuestion(r, request) /\ r.pc = request.pc
        /\ r.saw = request.saw \cup {"failed"} /\ r.answers = request.answers
        /\ r.up = request.up /\ r.down = request.down
    BY <2>1, SawFacts DEF TypedRequest
  <2>3. request' = Answer(r, 403, None, None)
    BY <2>1 DEF Refuse
  <2> HIDE DEF r
  <2>4. TypedRequest(r)
    BY <2>1, <2>2 DEF TypedRequest, SameQuestion
  <2>5. TypedRequest(request') /\ request'.pc # "arrived"
    BY <2>3, <2>4, AnswerTyped
  <2> QED
    BY <1>1, <2>1, <2>5
<1>7. ASSUME NEW t \in Targets, ProbeReturns(t) PROVE OpsTypeInv'
  <2>1. /\ TypedRequest(request) /\ request.pc = "probing"
        /\ policy' = policy /\ fleet' = fleet /\ stack' = stack
    BY <1>2, <1>7 DEF ProbeReturns
  <2>2. PICK x : x = [s \in DOMAIN request.answers \cup {t} |->
                        IF s = t THEN t \in fleet ELSE request.answers[s]]
    OBVIOUS
  <2>3. request' = [request EXCEPT !.answers = x] /\ DOMAIN x = DOMAIN request.answers \cup {t}
    BY <1>7, <2>2 DEF ProbeReturns
  <2>4. /\ IsRequest(request') /\ SameQuestion(request', request) /\ request'.pc = request.pc
        /\ request'.saw = request.saw /\ request'.answers = x
        /\ request'.up = request.up /\ request'.down = request.down
    BY <2>1, <2>3, AnswersFacts DEF TypedRequest
  <2>5. TypedRequest(request') /\ request'.pc # "arrived"
    BY <2>1, <2>3, <2>4 DEF TypedRequest, SameQuestion
  <2> QED
    BY <1>1, <2>1, <2>5
<1>8. CASE StatusEnds
  <2>1. TypedRequest(request) /\ policy' = policy /\ fleet' = fleet /\ stack' = stack
    BY <1>2, <1>8 DEF StatusEnds
  <2>2. PICK code, body : request' = Answer(request, code, body, None)
    BY <1>8 DEF StatusEnds
  <2>3. TypedRequest(request') /\ request'.pc # "arrived"
    BY <2>1, <2>2, AnswerTyped
  <2> QED
    BY <1>1, <2>1, <2>3
<1>9. CASE WorldChanges
  <2>1. stack' = stack
    BY <1>9 DEF WorldChanges
  <2>2. CASE /\ request.pc = "deciding" /\ fleet' = fleet
             /\ \E pair \in {<<request.principal.user, request.action>>} :
                   policy' = IF pair \in policy THEN policy \ {pair} ELSE policy \cup {pair}
             /\ request' = [request EXCEPT !.saw = @ \cup {Opinion(request, policy')}]
    <3>1. TypedRequest(request)
      BY <1>2, <2>2
    <3>2. policy' \subseteq Users \X Actions
      <4>1. <<request.principal.user, request.action>> \in Users \X Actions
        BY <2>2, <3>1 DEF TypedRequest
      <4> QED
        BY <2>2, <4>1 DEF OpsTypeInv
    <3>3. /\ IsRequest(request') /\ SameQuestion(request', request) /\ request'.pc = request.pc
          /\ request'.saw = request.saw \cup {Opinion(request, policy')}
          /\ request'.answers = request.answers /\ request'.up = request.up /\ request'.down = request.down
      BY <2>2, <3>1, SawFacts DEF TypedRequest
    <3>4. Opinion(request, policy') \in {"allowed", "denied"}
      BY DEF Opinion
    <3>5. TypedRequest(request')
      BY <3>1, <3>3, <3>4 DEF TypedRequest, SameQuestion
    <3>6. TypedRequest(request)' /\ request'.pc # "arrived"
      BY <2>2, <3>3, <3>5 DEF TypedRequest
    <3> QED
      BY <2>1, <2>2, <3>2, <3>6 DEF OpsTypeInv
  <2>3. CASE /\ request.pc = "probing" /\ policy' = policy
             /\ \E t \in Targets : fleet' = IF t \in fleet THEN fleet \ {t} ELSE fleet \cup {t}
             /\ request' = [request EXCEPT !.up = @ \cup fleet', !.down = @ \cup (Targets \ fleet')]
    <3>1. TypedRequest(request)
      BY <1>2, <2>3
    <3>2. fleet' \subseteq Targets
      BY <1>3, <2>3
    <3>3. PICK x, y : x = request.up \cup fleet' /\ y = request.down \cup (Targets \ fleet')
      OBVIOUS
    <3>4. x \subseteq Targets /\ y \subseteq Targets
      BY <3>1, <3>2, <3>3 DEF TypedRequest
    <3>5. request' = WithUpDown(request, x, y)
      BY <2>3, <3>3 DEF WithUpDown
    <3>6. /\ IsRequest(request') /\ SameQuestion(request', request) /\ request'.pc = request.pc
          /\ request'.saw = request.saw /\ request'.answers = request.answers
          /\ request'.up = x /\ request'.down = y
      BY <3>1, <3>5, UpDownFacts DEF TypedRequest
    <3>7. TypedRequest(request')
      BY <3>1, <3>4, <3>6 DEF TypedRequest, SameQuestion
    <3>8. TypedRequest(request)' /\ request'.pc # "arrived"
      BY <2>3, <3>6, <3>7 DEF TypedRequest
    <3> QED
      BY <2>1, <2>3, <3>2, <3>8 DEF OpsTypeInv
  <2> QED
    BY <1>9, <2>2, <2>3 DEF WorldChanges
<1>10. CASE UNCHANGED opsVars
  BY <1>10 DEF opsVars, OpsTypeInv, TypedRequest
<1> QED
  BY <1>4, <1>5, <1>6, <1>7, <1>8, <1>9, <1>10 DEF OpsNext

\* Every state of the guarded endpoints is well formed, for every set of tokens,
\* targets and routes.
THEOREM OpsTypes == OpsSpec => []OpsTypeOK
<1>1. OpsInit => OpsInv /\ OpsTypeInv
  BY DEF OpsInit, OpsInv, OpsTypeInv
<1>2. ASSUME OpsInv, OpsTypeInv PROVE OpsTypeOK
  <2>1. CASE request = NoRequest
    BY <1>2, <2>1 DEF OpsInv, OpsTypeInv, OpsTypeOK, NoRequest
  <2>2. CASE request # NoRequest
    BY <1>2, <2>2 DEF OpsInv, OpsTypeInv, OpsTypeOK, TypedRequest
  <2> QED
    BY <2>1, <2>2
<1> QED
  BY <1>1, <1>2, OpsStep, OpsTypeStep, PTL DEF OpsSpec
=============================================================================
