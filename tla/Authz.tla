-------------------------------- MODULE Authz --------------------------------
(***************************************************************************)
(* Who may do what: the bearer token (gateway/src/obs_gateway/auth.py) and *)
(* the decision about it (gateway/src/obs_gateway/authz.py).  Nothing here *)
(* has a state; OpsEndpoints gives these operators their requests.         *)
(***************************************************************************)
EXTENDS Naturals, Sequences, SequencesExt

CONSTANTS
    Tokens,         \* bearer tokens a caller may present
    Claims,         \* token -> what a successful decode finds in it
    Permissions,    \* settings.authz_role_permissions: role -> actions
    GrafanaRoles,   \* settings.authz_grafana_roles: role -> Viewer, Editor, Admin
    RouteActions,   \* settings.authz_route_actions: <<prefix, action>> in order
    None

Wildcard == "*"

\* GRAFANA_ROLE_RANK, as the order of the names.
Ranked == <<"Viewer", "Editor", "Admin">>

\* A role map names the three roles of the Grafana UI (authz.py:46); the code
\* would rank any other name below "Viewer".  Routes are a list of pairs.
ASSUME AuthzAssumption ==
    /\ None \notin Tokens \cup Range(Ranked)
    /\ RouteActions \in Seq(Seq(STRING) \X STRING)
    /\ \A role \in DOMAIN GrafanaRoles : GrafanaRoles[role] \in Range(Ranked)

Principal(claims) ==
    [authenticated |-> TRUE, user |-> claims.user, company |-> claims.company,
     roles |-> claims.roles]

Anonymous == [authenticated |-> FALSE, user |-> None, company |-> None, roles |-> {}]

\* The settings the decisions depend on.  `verify` says with what tokens are
\* verified, `key` and `url` whether OBS_INTERNAL_API_KEY and OBS_AUTHZ_URL are set.
Settings == [mode : {"none", "static", "external"}, verify : {"nothing", "secret", "jwks"},
             key : BOOLEAN, url : BOOLEAN]

\* _bearer: any Authorization header, of whatever kind, hides the cookie.
Bearer(header, cookie) == IF header # None THEN header ELSE cookie

\* principal_from_bearer, as the set of its possible results: the key set may be
\* fetched or not, so a good token may be taken for none.
Principals(settings, bearer) ==
    IF bearer \notin Tokens \/ settings.verify = "nothing" \/ ~Claims[bearer].valid
    THEN {Anonymous}
    ELSE {Principal(Claims[bearer])}
           \cup (IF settings.verify = "jwks" THEN {Anonymous} ELSE {})

\* Mutant: an unconfigured key is no key.
KeyOkClosed(settings, key) == settings.key /\ key = "right"

\* internal_key_ok: the guard is open when no key is configured.
KeyOk(settings, key) == settings.key => key = "right"

\* Mutant: the role mapped first, whatever its rank.
GrafanaRoleLowest(p) ==
    LET mapped == {GrafanaRoles[r] : r \in p.roles \cap DOMAIN GrafanaRoles}
    IN  IF mapped = {} THEN None
        ELSE Ranked[CHOOSE i \in DOMAIN Ranked :
               Ranked[i] \in mapped /\ \A j \in DOMAIN Ranked : Ranked[j] \in mapped => i <= j]

\* _grafana_role: the highest role the token's roles map to.
GrafanaRole(p) ==
    LET mapped == {GrafanaRoles[r] : r \in p.roles \cap DOMAIN GrafanaRoles}
    IN  IF mapped = {} THEN None
        ELSE Ranked[CHOOSE i \in DOMAIN Ranked :
               Ranked[i] \in mapped /\ \A j \in DOMAIN Ranked : Ranked[j] \in mapped => j <= i]

\* StaticRoleAuthorizer.authorize; `tenant` is the one asked for.
Granted(p) == UNION {Permissions[r] : r \in p.roles \cap DOMAIN Permissions}

StaticAllows(p, action, tenant) ==
    /\ p.authenticated
    /\ \/ Wildcard \in Granted(p)
       \/ action \in Granted(p) /\ tenant \in {None, p.company}

\* The path of a URI: what precedes its query.
PathOf(uri) ==
    IF "?" \in Range(uri)
    THEN SubSeq(uri, 1, (CHOOSE i \in DOMAIN uri :
                           uri[i] = "?" /\ \A j \in 1 .. i - 1 : uri[j] # "?") - 1)
    ELSE uri

\* action_for_path: the first matching prefix decides.
ActionFor(uri) ==
    LET matching == {i \in DOMAIN RouteActions : IsPrefix(RouteActions[i][1], PathOf(uri))}
    IN  IF matching = {} THEN "ui:access"
        ELSE RouteActions[CHOOSE i \in matching : \A j \in matching : i <= j][2]
=============================================================================
