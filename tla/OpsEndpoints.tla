---------------------------- MODULE OpsEndpoints ----------------------------
(***************************************************************************)
(* The guarded endpoints of the gateway: /status and /status/stack         *)
(* (gateway/src/obs_gateway/health.py) behind require_action, and the      *)
(* forward-auth endpoint /authz/verify (gateway/src/obs_gateway/authz.py). *)
(*                                                                         *)
(* A handler awaits the external RBAC service and the probes; meanwhile    *)
(* the policy, the service and the fleet change.  Requests share nothing,  *)
(* so the model follows one at a time.                                     *)
(***************************************************************************)
EXTENDS Authz, FiniteSets

CONSTANTS
    Targets,        \* the keys of settings.health_targets
    Uris,           \* what X-Original-URI may say
    Cookies,        \* tokens some caller sends as the session cookie
    MaxChanges      \* bound on the changes of the world during a request

ASSUME OpsAssumption == MaxChanges \in Nat /\ Cookies \subseteq Tokens

VARIABLES
    settings,   \* fixed when the gateway starts
    policy,     \* what the RBAC service allows now: <<user, action>>
    fleet,      \* the targets that would answer 200 now
    stack,      \* stack_monitor.components: component -> healthy
    request,    \* the request
    changes     \* changes of the world so far

opsVars == <<settings, policy, fleet, stack, request, changes>>

Users == {Claims[t].user : t \in Tokens}

Actions == {"ui:access", "status:read"} \cup {RouteActions[i][2] : i \in DOMAIN RouteActions}

Components == {"loki"}

Snapshots == {[c \in {} |-> TRUE]} \cup [Components -> BOOLEAN]

\* What a caller sends, as far as the route reads it.
Callers ==
    [route : {"status", "stack"}, key : {None, "right", "wrong"}, uri : {<<>>},
     header : Tokens \cup {None, "basic"}, cookie : Cookies \cup {None}]
    \cup
    [route : {"verify"}, key : {None}, uri : Uris,
     header : Tokens \cup {None, "basic"}, cookie : Cookies \cup {None}]

NoRequest == [pc |-> "none"]

OpsTypeOK ==
    /\ settings \in Settings
    /\ policy \subseteq Users \X Actions
    /\ fleet \subseteq Targets /\ stack \in Snapshots
    /\ request.pc \in {"none", "deciding", "probing", "answered"}
    /\ request.pc # "none" =>
          /\ request.caller \in Callers /\ request.action \in Actions
          /\ request.saw \subseteq {"allowed", "denied", "failed"}
          /\ DOMAIN request.answers \subseteq Targets
          /\ request.up \subseteq Targets /\ request.down \subseteq Targets

Answer(r, code, body, identity) ==
    [r EXCEPT !.pc = "answered", !.code = code, !.body = body, !.identity = identity]

Refuse(r, code) == Answer(r, code, None, None)

\* What the RBAC service says of the request now.
Opinion(r, allowed) == IF <<r.principal.user, r.action>> \in allowed THEN "allowed" ELSE "denied"

\* snapshot() of the stack monitor.
StackStatus ==
    CASE DOMAIN stack = {} -> "unknown"
      [] DOMAIN stack # {} /\ (\A c \in DOMAIN stack : stack[c]) -> "ok"
      [] \E c \in DOMAIN stack : ~stack[c] -> "degraded"

\* What the 200 of /authz/verify tells the upstream about the caller.
Identity(p, role) ==
    [user |-> IF p.user # None THEN p.user ELSE "anonymous",
     role |-> IF role # None THEN role ELSE "Viewer", tenant |-> p.company]

\* The request has passed: its handler runs up to its first await.  The identity
\* is text that a header can carry (latin-1); any other makes the answer a 500.
Passed(r, role) ==
    CASE r.caller.route = "verify" -> Answer(r, 200, None, Identity(r.principal, role))
      [] r.caller.route = "stack" ->
            Answer(r, IF StackStatus = "degraded" THEN 503 ELSE 200, StackStatus, None)
      [] r.caller.route = "status" /\ Targets = {} -> Answer(r, 200, "ok", None)
      [] r.caller.route = "status" /\ Targets # {} ->
            [r EXCEPT !.pc = "probing", !.up = fleet, !.down = Targets \ fleet]

\* The decision of the configured authorizer, or the question to the RBAC service.
Authorize(r) ==
    LET p == r.principal IN
    CASE settings.mode = "none" -> Passed(r, GrafanaRole(p))
      [] settings.mode # "none" /\ ~p.authenticated -> Refuse(r, 401)
      [] settings.mode = "static" /\ p.authenticated ->
            IF StaticAllows(p, r.action, None) THEN Passed(r, GrafanaRole(p)) ELSE Refuse(r, 403)
      [] settings.mode = "external" /\ p.authenticated ->
            IF settings.url THEN [r EXCEPT !.pc = "deciding", !.saw = {Opinion(r, policy)}]
            ELSE Refuse(r, 403)

\* require_action: with mode "none" only the internal key counts; otherwise a
\* configured key that is given and right replaces the token.
Guard(r) ==
    CASE r.caller.route = "verify" -> Authorize(r)
      [] r.caller.route # "verify" /\ settings.mode = "none" ->
            IF KeyOk(settings, r.caller.key) THEN Passed(r, None) ELSE Refuse(r, 401)
      [] r.caller.route # "verify" /\ settings.mode # "none" ->
            IF settings.key /\ KeyOk(settings, r.caller.key) THEN Passed(r, None) ELSE Authorize(r)

-----------------------------------------------------------------------------
OpsInit ==
    /\ settings \in Settings
    /\ policy \in {{}, Users \X Actions}
    /\ fleet \in SUBSET Targets /\ stack \in Snapshots
    /\ request = NoRequest /\ changes = 0

\* A request arrives: everything up to its first await.
Arrive(caller) ==
    /\ request.pc = "none"
    /\ \E p \in Principals(settings, Bearer(caller.header, caller.cookie)) :
          request' = Guard([pc |-> "arrived", caller |-> caller, principal |-> p,
                            action |-> IF caller.route = "verify" THEN ActionFor(caller.uri)
                                       ELSE "status:read",
                            saw |-> {}, answers |-> [t \in {} |-> TRUE], up |-> {}, down |-> {},
                            code |-> 0, body |-> None, identity |-> None])
    /\ UNCHANGED <<settings, policy, fleet, stack, changes>>

\* The RBAC service answers 200 with a literal true or anything else, and may
\* name a Grafana role.
ServiceAnswers ==
    /\ request.pc = "deciding"
    /\ \E role \in Range(Ranked) \cup {None} :
          request' = IF Opinion(request, policy) = "allowed"
                     THEN Passed(request, IF role # None THEN role ELSE GrafanaRole(request.principal))
                     ELSE Refuse(request, 403)
    /\ UNCHANGED <<settings, policy, fleet, stack, changes>>

\* Mutant: an answer that is not 200 does not deny.
ServiceFailsOpen ==
    /\ request.pc = "deciding"
    /\ request' = Passed([request EXCEPT !.saw = @ \cup {"failed"}], None)
    /\ UNCHANGED <<settings, policy, fleet, stack, changes>>

\* It answers something else, not in time, or not at all: fail closed.
ServiceFails ==
    /\ request.pc = "deciding"
    /\ request' = Refuse([request EXCEPT !.saw = @ \cup {"failed"}], 403)
    /\ UNCHANGED <<settings, policy, fleet, stack, changes>>

\* Mutant: a probe without a timeout waits until its target is up.
ProbeReturnsUp(t) ==
    /\ request.pc = "probing" /\ t \in Targets \ DOMAIN request.answers
    /\ t \in fleet
    /\ request' = [request EXCEPT !.answers =
                     [s \in DOMAIN @ \cup {t} |-> IF s = t THEN TRUE ELSE @[s]]]
    /\ UNCHANGED <<settings, policy, fleet, stack, changes>>

\* One of the concurrent _probes returns.
ProbeReturns(t) ==
    /\ request.pc = "probing" /\ t \in Targets \ DOMAIN request.answers
    /\ request' = [request EXCEPT !.answers =
                     [s \in DOMAIN @ \cup {t} |-> IF s = t THEN t \in fleet ELSE @[s]]]
    /\ UNCHANGED <<settings, policy, fleet, stack, changes>>

\* Mutant: one healthy target is enough.
StatusEndsAny ==
    /\ request.pc = "probing" /\ DOMAIN request.answers = Targets
    /\ request' = IF \E t \in Targets : request.answers[t]
                  THEN Answer(request, 200, "ok", None)
                  ELSE Answer(request, 503, "degraded", None)
    /\ UNCHANGED <<settings, policy, fleet, stack, changes>>

\* The rollup after the gather.
StatusEnds ==
    /\ request.pc = "probing" /\ DOMAIN request.answers = Targets
    /\ request' = IF \A t \in Targets : request.answers[t]
                  THEN Answer(request, 200, "ok", None)
                  ELSE Answer(request, 503, "degraded", None)
    /\ UNCHANGED <<settings, policy, fleet, stack, changes>>

\* The policy, or the health of a target, changes while the request waits.
WorldChanges ==
    /\ changes < MaxChanges /\ changes' = changes + 1
    /\ \/ /\ request.pc = "deciding"
          /\ \E pair \in {<<request.principal.user, request.action>>} :
                policy' = IF pair \in policy THEN policy \ {pair} ELSE policy \cup {pair}
          /\ request' = [request EXCEPT !.saw = @ \cup {Opinion(request, policy')}]
          /\ UNCHANGED fleet
       \/ /\ request.pc = "probing"
          /\ \E t \in Targets : fleet' = IF t \in fleet THEN fleet \ {t} ELSE fleet \cup {t}
          /\ request' = [request EXCEPT !.up = @ \cup fleet', !.down = @ \cup (Targets \ fleet')]
          /\ UNCHANGED policy
    /\ UNCHANGED <<settings, stack>>

OpsNext ==
    \/ \E caller \in Callers : Arrive(caller)
    \/ ServiceAnswers \/ ServiceFails
    \/ \E t \in Targets : ProbeReturns(t)
    \/ StatusEnds
    \/ WorldChanges

OpsSpec == OpsInit /\ [][OpsNext]_opsVars

\* Questions and probes time out, and the event loop runs what is ready.
FairOpsSpec ==
    /\ OpsSpec
    /\ WF_opsVars(ServiceAnswers \/ ServiceFails)
    /\ \A t \in Targets : WF_opsVars(ProbeReturns(t))
    /\ WF_opsVars(StatusEnds)

-----------------------------------------------------------------------------
\* The request was let in: its handler ran.
Opened(r) == r.pc = "probing" \/ (r.pc = "answered" /\ r.code \in {200, 503})

\* A good token: the one that counts, valid, and verification is configured.
GoodToken(r) ==
    /\ settings.verify # "nothing"
    /\ \E t \in Tokens : /\ Claims[t].valid
                         /\ t = r.caller.header \/ (r.caller.header = None /\ t = r.caller.cookie)

\* The documented table (docs/DESIGN.md, 9): who is to be let in.
Entitled(r) ==
    \/ r.caller.route # "verify" /\ settings.key /\ r.caller.key = "right"
    \/ settings.mode = "none" /\ (r.caller.route = "verify" \/ ~settings.key)
    \/ /\ settings.mode = "static" /\ GoodToken(r)
       /\ \E role \in r.principal.roles \cap DOMAIN Permissions :
             {Wildcard, r.action} \cap Permissions[role] # {}
    \/ settings.mode = "external" /\ GoodToken(r) /\ "allowed" \in r.saw

\* Nobody is let in who is not entitled: whatever fails while the gateway
\* waits, and whatever else the caller sends, the guards fail closed.  With an
\* RBAC service that is whom it allows at some moment of the question, so a
\* revocation holds for every request that comes after it.
FailsClosed == request.pc # "none" /\ Opened(request) => Entitled(request)

\* Whoever is entitled is refused only when the key set could not be fetched, or
\* the RBAC service failed or changed its mind.
RefusedForAReason ==
    (request.pc = "answered" /\ request.code \in {401, 403} /\ Entitled(request)) =>
        \/ ~request.principal.authenticated /\ settings.verify = "jwks"
        \/ {"denied", "failed"} \cap request.saw # {}

\* A rollup is never older than its request: "ok" only if each target was up at
\* some moment of it, "degraded" only if one was down.
RollupIsFresh ==
    (request.pc = "answered" /\ request.caller.route = "status" /\ Opened(request)) =>
        /\ (request.code = 200) = (request.body = "ok")
        /\ request.body = "ok" => Targets \subseteq request.up
        /\ request.body = "degraded" => request.down # {}

Rank(role) == CHOOSE i \in DOMAIN Ranked : Ranked[i] = role

\* With the static map, a token with more roles opens at least as much, and its
\* owner is at least as much in Grafana.
MoreRolesNeverLess ==
    (request.pc = "answered" /\ request.identity # None /\ settings.mode = "static") =>
        \A t \in Tokens : request.principal.roles \subseteq Claims[t].roles =>
            LET p == Principal(Claims[t]) IN
            /\ StaticAllows(p, request.action, None)
            /\ Rank(request.identity.role) <= Rank(Identity(p, GrafanaRole(p)).role)

\* Every request is answered, whatever the services it asks do.
EveryRequestAnswered == request.pc # "none" ~> request.pc = "answered"
=============================================================================
