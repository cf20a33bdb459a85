---------------------------- MODULE MCAppManager ----------------------------
(* AppManager over the application's five databases, or the first ones.     *)
EXTENDS AppManager, AppDatabases

firstTwoDatabases == SubSeq(databaseSet, 1, 2)
=============================================================================
