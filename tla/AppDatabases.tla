----------------------------- MODULE AppDatabases -----------------------------
(***************************************************************************)
(* The five drivers of the application as traits of module DbManager, and   *)
(* the order in which app.ts hands them to createDbManager.                 *)
(***************************************************************************)
EXTENDS Sequences

\* new Redis(...) starts connecting at once and keeps retrying, so a rejected
\* ping leaves it running; quit() on an ended client rejects.
Redis == [migrates |-> FALSE, awaitsClose |-> TRUE, leaksOnFailedConnect |-> TRUE,
          rejectsSecondClose |-> TRUE, closes |-> "always"]

\* disconnect calls destroy() of the document client, which leaves the raw client
\* it was made from, and the sockets that one keeps alive, as they are; so does a
\* rejected ListTables.
Dynamo == [migrates |-> TRUE, awaitsClose |-> FALSE, leaksOnFailedConnect |-> TRUE,
           rejectsSecondClose |-> FALSE, closes |-> "never"]

Mongo == [migrates |-> FALSE, awaitsClose |-> TRUE, leaksOnFailedConnect |-> FALSE,
          rejectsSecondClose |-> FALSE, closes |-> "always"]

\* kysely's destroy() ends the pool only if a query has initialised its driver; the
\* connection that connect took from the pool is open from the start.
Mysql == [migrates |-> TRUE, awaitsClose |-> TRUE, leaksOnFailedConnect |-> FALSE,
          rejectsSecondClose |-> FALSE, closes |-> "onceQueried"]

\* release(false) hands the connection back to a pool that closes it when idle, and
\* lets the queries on the pool's other connections come to their end.
Postgres == [migrates |-> TRUE, awaitsClose |-> FALSE, leaksOnFailedConnect |-> FALSE,
             rejectsSecondClose |-> FALSE, closes |-> "whenIdle"]

databaseSet == <<Redis, Dynamo, Mongo, Mysql, Postgres>>
=============================================================================
