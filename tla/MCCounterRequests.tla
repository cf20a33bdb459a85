-------------------------- MODULE MCCounterRequests --------------------------
(* CounterRequests over three of the application's databases, in the order   *)
(* in which test-1 writes to them: mongo, redis, dynamo.  Only dynamo has     *)
(* eventually consistent reads and a getById that catches.                   *)
EXTENDS CounterRequests, AppDatabases

threeDatabases == SubSeq(databaseSet, 1, 3)
writeOrder == <<3, 1, 2>>
dynamoOnly == {2}

counters == {-1, 0, 2}
=============================================================================
