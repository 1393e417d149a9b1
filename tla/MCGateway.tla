----------------------------- MODULE MCGateway -----------------------------
(* Small instances of the gateway with arbitrary peers. *)
EXTENDS GatewayPeers, TLC

CONSTANTS s1, s2, c1, c2, a1, a2

\* Two connections of one agent id: an agent that reconnects.
OneId == [s \in {s1, s2} |-> a1]
OneAgent == (s1 :> a1)

\* A client asks for agent a1 (executeQuery does) or for any agent.
BothWantA1 == [c \in {c1, c2} |-> a1]
Wants == (c1 :> None) @@ (c2 :> a1)
OneWant == (c1 :> a1)

AllStreams == Streams
NotC2 == Streams \ {c2}

StreamSymmetry == Permutations({s1, s2}) \cup Permutations({c1, c2})
=============================================================================
