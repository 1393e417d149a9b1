--------------------------- MODULE MCQuerySystem ---------------------------
(* Small instances of the query path. *)
EXTENDS QuerySystem, TLC

CONSTANTS s1, s2, c1, c2, c3, a1

\* An agent that may come back on a second stream.
Reconnecting == [s \in AgentStreams |-> a1]
AskForA1 == [c \in ClientStreams |-> a1]
AllStreams == Streams

\* One database of each kind the agent treats differently, a request for a
\* database that does not exist and a malformed one.
OneMySQL == (c1 :> "mysql")
MySQLAndPostgres == (c1 :> "mysql") @@ (c2 :> "postgres")
MongoAndBad == (c1 :> "mongodb") @@ (c2 :> None) @@ (c3 :> "invalid")

\* SpecConnectionType is the type of the database.
TypeOfRow == [c \in ClientStreams |-> IF DbRow[c] = "invalid" THEN None ELSE DbRow[c]]

\* Every connection id is a prefix of itself.
OnlyItself == [k \in ConnIds |-> {k}]

\* "web-conn-1" has no session id in it.
Nobody == [k \in ConnIds |-> {}]
=============================================================================
