\* Every combination of settings and credentials, an RBAC service that changes
\* its mind or fails, and a fleet that changes while it is probed.  The model
\* follows one request and stops with its answer.
SPECIFICATION FairOpsSpec
CONSTANTS
    None = None
    Tokens = {"guest", "dev", "lead", "forged"}
    Claims <- MCClaims
    Permissions <- MCPermissions
    GrafanaRoles <- MCGrafanaRoles
    RouteActions <- MCRouteActions
    Uris <- MCUris
    Cookies = {"lead"}
    Targets = {"api", "web"}
    MaxChanges = 2
INVARIANTS FailsClosed RefusedForAReason RollupIsFresh MoreRolesNeverLess
PROPERTY EveryRequestAnswered
CHECK_DEADLOCK FALSE
