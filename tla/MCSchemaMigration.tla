------------------------- MODULE MCSchemaMigration -------------------------
(* SchemaMigration over the engines of the application's databases, mongo    *)
(* left out: it is to this module what redis is.                             *)
EXTENDS SchemaMigration

engines == <<"schemaless", "describing", "statements", "transaction">>
=============================================================================
