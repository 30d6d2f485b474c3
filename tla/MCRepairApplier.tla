--------------------------- MODULE MCRepairApplier ---------------------------
(* A small instance: /a, /a/b, /a/b/c, and /proc, which is denied.          *)
EXTENDS RepairApplier

MCPaths == {<<"a">>, <<"a", "b">>, <<"a", "b", "c">>, <<"proc">>}
MCDenied == {<<"proc">>}
=============================================================================
