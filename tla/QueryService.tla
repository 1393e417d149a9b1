---------------------------- MODULE QueryService ----------------------------
(***************************************************************************)
(* What the system promises to a user who submits a query, with nothing of *)
(* how: the query is executed at most once; the answer is either an error, *)
(* which says nothing about whether the query was executed, or a response  *)
(* with an exit code.  A response is final: it comes after the execution,  *)
(* if there is one, carries the results of this very query or none, and    *)
(* reports success only for a query that was executed.                     *)
(***************************************************************************)
CONSTANTS Queries, None

VARIABLES
    executed,   \* the queries that have been executed
    reply       \* reply[q]: None, "error", or [code, results]

Responses == [code : {"0", "1", "254"}, results : Queries \cup {None}]

ServiceInit ==
    /\ executed = {}
    /\ reply = [q \in Queries |-> None]

Responded(q) == reply[q] # None /\ reply[q] # [error |-> TRUE]

Execute(q) ==
    /\ q \notin executed
    /\ ~Responded(q)
    /\ executed' = executed \cup {q}
    /\ UNCHANGED reply

Fail(q) ==
    /\ reply[q] = None
    /\ reply' = [reply EXCEPT ![q] = [error |-> TRUE]]
    /\ UNCHANGED executed

Answer(q, r) ==
    /\ reply[q] = None
    /\ r.code = "0" => q \in executed
    /\ r.results # None => r.results = q /\ q \in executed
    /\ reply' = [reply EXCEPT ![q] = r]
    /\ UNCHANGED executed

ServiceNext ==
    \E q \in Queries : Execute(q) \/ Fail(q) \/ \E r \in Responses : Answer(q, r)

ServiceSpec == ServiceInit /\ [][ServiceNext]_<<executed, reply>>
=============================================================================
