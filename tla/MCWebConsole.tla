---------------------------- MODULE MCWebConsole ----------------------------
(* Small instances of the management endpoints and their consoles. *)
EXTENDS WebConsole, TLC

CONSTANTS c1, api, s1, s2

CallersOf == Consoles \cup {Api}

UserRow(u, e) == [username |-> u, email |-> e, teamname |-> "t"]
AgentRow(a, d) == [agent_id |-> a, name |-> "n", description |-> d]
DatabaseRow(d, ty, a, h, p) ==
    [database_name |-> d, type |-> ty, agent_id |-> a, target |-> h, password |-> p]

\* One user; an agent with a database, and one that lacks the prefix.
Rows ==
    [users |-> 1 :> UserRow("u1", "e1"),
     agents |-> (1 :> AgentRow("agent-1", "x")) @@ (2 :> AgentRow("2", "")),
     databases |-> 1 :> DatabaseRow("d1", "mysql", "agent-1", "h", "p")]

Typed ==
    [username |-> {"u2"}, email |-> {"e2"}, teamname |-> {"t"},
     agent_id |-> {"agent-2"}, name |-> {"n"}, description |-> {""},
     database_name |-> {"d2"}, type |-> {"mysql"}, target |-> {"h"}, password |-> {"q"}]

Ids == {"agent-1", "agent-2", "2", "agent-agent-2"}
Added == [a \in {"agent-2"} |-> "agent-agent-2"]
Prefix == [a \in Ids \cup {""} |-> IF a = "2" THEN "agent-2" ELSE a]

Bodies ==
    [users |-> {UserRow("u2", "e1"), [UserRow("", "") EXCEPT !.teamname = ""]},
     agents |-> {AgentRow("agent-2", ""), [AgentRow("", "") EXCEPT !.name = ""]},
     databases |-> {DatabaseRow("d1", "mysql", "2", "", ""),
                    DatabaseRow("d2", "mysql", "none", "h", ""),
                    DatabaseRow("d1", "", "2", "h", ""),
                    DatabaseRow("d2", "oracle", "2", "h", "")}]

Symmetry == Permutations(Slots)
=============================================================================
