---------------------------- MODULE GatewayPeers ----------------------------
(***************************************************************************)
(* The gateway with the most general peers: agents that connect, reconnect *)
(* and die at any time and answer on any session they have heard of, any   *)
(* number of times and in any order, and clients that send whatever they   *)
(* like.  What holds here holds for every agent and client program.        *)
(*                                                                         *)
(* Peers number the packets they send; the numbers are what the delivery   *)
(* properties are about.                                                   *)
(***************************************************************************)
EXTENDS Gateway

CONSTANT MaxSend   \* packets a peer sends on one stream

ASSUME MaxSendAssumption == MaxSend \in Nat \ {0}

\* Who sent a packet, and as its how many-th one.
PeerBody == [from : Streams \cup {None}, n : 0..MaxSend]

ASSUME PeerBodyAssumption == Bodies = PeerBody

VARIABLES
    sent,   \* sent[x]: number of packets peer x has sent
    seen    \* seen[x][c]: number of the last packet of session c peer x got

vars == <<transportVars, gatewayVars, sent, seen>>

GatewayBody == [from |-> None, n |-> 0]

TypeOK ==
    /\ TransportTypeOK
    /\ GatewayTypeOK
    /\ sent \in [Streams -> 0..MaxSend]
    /\ seen \in [Streams -> [ClientStreams -> 0..MaxSend]]

Init ==
    /\ TransportInit
    /\ GatewayInit
    /\ sent = [x \in Streams |-> 0]
    /\ seen = [x \in Streams |-> [c \in ClientStreams |-> 0]]

NextPacket(x, type, sid) ==
    [type |-> type, sid |-> sid, conn |-> None,
     body |-> [from |-> x, n |-> sent[x] + 1]]

\* An agent answers on a session it has received a packet of, or sends a
\* keepalive, which has no session.
AgentSends(s) ==
    /\ sent[s] < MaxSend
    /\ \/ \E c \in {d \in ClientStreams : seen[s][d] > 0} :
            PeerSend(s, NextPacket(s, "ClientSessionClose", c))
       \/ PeerSend(s, NextPacket(s, "GatewayKeepAlive", None))
    /\ sent' = [sent EXCEPT ![s] = @ + 1]
    /\ UNCHANGED <<gatewayVars, seen>>

\* A client sends a packet; it does not know its session id yet.
ClientSends(c) ==
    /\ sent[c] < MaxSend
    /\ PeerSend(c, NextPacket(c, "AgentSessionOpen", None))
    /\ sent' = [sent EXCEPT ![c] = @ + 1]
    /\ UNCHANGED <<gatewayVars, seen>>

\* A peer receives the next packet of its stream.
Receives(x) ==
    /\ PeerRecv(x)
    /\ LET p == Head(fromGw[x]) IN
         seen' = IF p.sid = None THEN seen
                                 ELSE [seen EXCEPT ![x][p.sid] = p.body.n]
    /\ UNCHANGED <<gatewayVars, sent>>

PeerDials(x) == Dial(x) /\ UNCHANGED <<gatewayVars, sent, seen>>
PeerBreaks(x) == Break(x) /\ UNCHANGED <<gatewayVars, sent, seen>>

GatewayStep(A) == A /\ UNCHANGED <<sent, seen>>

Next ==
    \/ \E x \in Streams :
         \/ PeerDials(x) \/ PeerBreaks(x) \/ Receives(x)
         \/ GatewayStep(RejectUnauthorized(x))
    \/ \E s \in AgentStreams : AgentSends(s) \/ GatewayStep(AgentHandler(s, GatewayBody))
    \/ \E c \in ClientStreams : ClientSends(c) \/ GatewayStep(ClientHandler(c))

Spec == Init /\ [][Next]_vars

\* Handlers are goroutines: a step that stays enabled is taken.  Nothing is
\* assumed of when peers send, receive, dial or break.
Fairness ==
    /\ \A s \in AgentStreams : WF_vars(GatewayStep(AgentHandler(s, GatewayBody)))
    /\ \A c \in ClientStreams : WF_vars(GatewayStep(ClientHandler(c)))

FairSpec == Spec /\ Fairness

-----------------------------------------------------------------------------
(* Safety *)

Range(q) == {q[i] : i \in DOMAIN q}

\* Every packet queued for a client was sent by the agent connection its
\* session captured and is addressed to that session: handleAgentConnection
\* routes by session id alone and never compares the two.
DeliveredOnlyByBoundAgent ==
    \A c \in ClientStreams : \A p \in Range(fromGw[c]) :
        p.sid = c /\ p.body.from = bound[c]

\* Every packet queued for an agent belongs to a session that captured this
\* very agent connection and was sent by the client of that session.
ForwardedOnlyToBoundAgent ==
    \A s \in AgentStreams : \A p \in Range(fromGw[s]) :
        p.sid # None => bound[p.sid] = s /\ p.body.from = p.sid

\* The registry never names an agent connection whose handler has returned,
\* and names it under its own id.
RegisteredIsServed ==
    \A id \in AgentIds : agents[id] # None =>
        IdOf[agents[id]] = id /\ hpc[agents[id]] \notin {"none", "done"}

\* While a handler is sending to a client it holds the mutex of a session
\* that is stored and not closed.
LockedSessionIsOpen ==
    \A s \in AgentStreams : hpc[s] = "sending" =>
        ~closed[hand[s].sid] /\ hand[s].sid \in sessions

\* Nothing is delivered to a client after its session was closed.
ClosedSessionIsSilent ==
    [][\A c \in ClientStreams : closed[c] => Len(fromGw'[c]) <= Len(fromGw[c])]_vars

\* The packets of session c in a queue, by their places, and their numbers.
Of(q, c) == {i \in DOMAIN q : q[i].sid = c}
Numbers(q, c) == {q[i].body.n : i \in Of(q, c)}
InOrder(q, c) == \A i, j \in Of(q, c) : i < j => q[i].body.n < q[j].body.n

HandNumbers(x, c) ==
    IF hand[x] # None /\ hand[x].sid = c THEN {hand[x].body.n} ELSE {}

\* What is further ahead has the lower numbers.
Ascending(stages) ==
    \A i, j \in DOMAIN stages : i < j =>
        \A m \in stages[i], n \in stages[j] : m < n

\* Between the agent and the client of a session nothing is reordered or
\* duplicated, wherever the packets are: received, queued or in a handler.
AnswersInOrder ==
    \A c \in ClientStreams : bound[c] # None =>
        /\ InOrder(fromGw[c], c) /\ InOrder(toGw[bound[c]], c)
        /\ Ascending(<<{seen[c][c]}, Numbers(fromGw[c], c),
                       HandNumbers(bound[c], c), Numbers(toGw[bound[c]], c)>>)

\* The same from the client of a session, which does not know its id, to its
\* agent.
RequestsInOrder ==
    \A c \in ClientStreams : bound[c] # None =>
        /\ InOrder(fromGw[bound[c]], c) /\ InOrder(toGw[c], None)
        /\ Ascending(<<{seen[bound[c]][c]}, Numbers(fromGw[bound[c]], c),
                       HandNumbers(c, c), Numbers(toGw[c], None)>>)

\* What a handler holds at each point: an agent handler past GetSession holds
\* a packet of some session; a client handler that forwards holds a packet of
\* its own session, and has captured an agent from FindAgent on.
HandlerState ==
    /\ \A s \in AgentStreams : hpc[s] \in {"route", "sending"} =>
          hand[s] \in Packet /\ hand[s].sid \in ClientStreams
    /\ \A c \in ClientStreams :
          /\ hpc[c] = "forward" => hand[c] \in Packet /\ hand[c].sid = c
          /\ hpc[c] \in {"found", "recv", "forward"} => bound[c] \in AgentStreams

-----------------------------------------------------------------------------
(* The registry *)

Served(s) == hpc[s] \notin {"none", "done"}

\* GetActiveAgents "returns a list of all currently connected agents"
\* (gateway/main.go:338): a connected agent is in the list.
ConnectedIsListed ==
    \A s \in AgentStreams :
        hpc[s] \in {"recv", "route", "sending"} => IdOf[s] \in GetActiveAgents

NoOverlap ==
    \A s, t \in AgentStreams :
        s # t /\ IdOf[s] = IdOf[t] => ~(Served(s) /\ Served(t))

RegistryExact == \A s \in AgentStreams : Served(s) => agents[IdOf[s]] = s

\* The registry is exact as long as no two connections of one agent id are
\* served at the same time: the deferred Delete removes by id, not by
\* connection, and is only right then.
ExactWithoutOverlap == []NoOverlap => []RegistryExact

-----------------------------------------------------------------------------
(* Liveness *)

\* Agents receive what is sent to them.  It is up to them: the loop of an agent
\* stops receiving while it runs a query or its own Send blocks.
AgentsKeepReceiving == \A s \in AgentStreams : WF_vars(Receives(s))

\* The session of a client that has gone is removed if agents go on receiving,
\* even if its handler is blocked on its agent's window or an agent's handler
\* is blocked on the client's window with the session's mutex held.
SessionOfGoneClientRemoved ==
    AgentsKeepReceiving =>
    \A c \in ClientStreams :
        (link[c] = "broken" /\ c \in sessions) ~> (c \notin sessions)

=============================================================================
