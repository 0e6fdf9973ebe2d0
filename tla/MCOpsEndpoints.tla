---------------------------- MODULE MCOpsEndpoints ----------------------------
(***************************************************************************)
(* The guarded endpoints with four tokens and the default role map.       *)
(***************************************************************************)
EXTENDS OpsEndpoints

\* "lead" has no tenant; "forged" does not verify.
MCClaims ==
    [t \in Tokens |->
        [valid |-> t # "forged",
         user |-> t,
         company |-> IF t = "lead" THEN None ELSE "acme",
         roles |-> CASE t = "lead" -> {"viewer", "editor", "other"}
                    [] t = "dev" -> {"editor"}
                    [] t \in {"guest", "forged"} -> {"viewer"}]]

MCPermissions ==
    [admin |-> {Wildcard},
     editor |-> {"ui:access", "logs:read", "status:read"},
     viewer |-> {"ui:access", "logs:read"}]

MCGrafanaRoles == [admin |-> "Admin", editor |-> "Editor", viewer |-> "Viewer"]

MCRouteActions == <<<<<<"/", "loki", "/">>, "logs:read">>, <<<<"/", "tempo", "/">>, "traces:read">>,
                    <<<<"/">>, "ui:access">>>>

MCUris == {<<"/", "loki", "/", "?", "x">>, <<"/", "tempo", "/">>, <<"/", "loki">>, <<"?", "x">>}
=============================================================================
