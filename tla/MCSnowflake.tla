---------------------------- MODULE MCSnowflake ----------------------------
\* An instance of Snowflake for TLC with narrow fields: a node, one that differs
\* from it in the worker and one that differs in the data center.
EXTENDS Snowflake, TLC

CONSTANTS n1, n2, n3

Workers == n1 :> 0 @@ n2 :> 1 @@ n3 :> 0
Datacenters == n1 :> 0 @@ n2 :> 0 @@ n3 :> 1
=============================================================================
