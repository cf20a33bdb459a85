---------------------------- MODULE MCAppRecovery ----------------------------
(* AppRecovery over the application's five databases.                      *)
EXTENDS AppRecovery, AppDatabases
=============================================================================
