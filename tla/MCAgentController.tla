------------------------- MODULE MCAgentController -------------------------
(* Small instances of the agent's controller with an arbitrary gateway. *)
EXTENDS AgentPeers, TLC

CONSTANTS s1, c1, c2

\* One session of a type that is probed and one of a type that is not.
Types == (c1 :> "postgres") @@ (c2 :> "ssh")
OneType == (c1 :> "mysql")

\* Connection ids are strings: "1" is a prefix of "10".
Prefixes == ("1" :> {"1", "10"}) @@ ("10" :> {"10"})

\* They are chosen by the client: "10" has the id of session c2 in it.
Occurrences == ("1" :> {}) @@ ("10" :> {c2})
=============================================================================
