---------------------------- MODULE MCDbManager ----------------------------
(* DbManager over the application's five databases.                        *)
EXTENDS DbManager, AppDatabases
=============================================================================
