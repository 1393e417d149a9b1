------------------------------ MODULE Gateway ------------------------------
(***************************************************************************)
(* The broker of gateway/main.go: the registry of agents, the table of     *)
(* sessions, and one handler goroutine per stream (Connect).  Each step    *)
(* of a handler that touches shared state (the two sync.Maps, a session's  *)
(* mutex, a stream) is an action of its own, so every interleaving of the  *)
(* handlers is a behaviour.                                                *)
(*                                                                         *)
(* The session id is a fresh uuid per client stream: the session created   *)
(* for client stream c is named c.                                         *)
(***************************************************************************)
EXTENDS Transport

CONSTANTS
    AgentIds,    \* "agent-default" and "agent-<connection-name>"
    IdOf,        \* IdOf[s]: the agent id of agent stream s, from its metadata
    WantId,      \* WantId[c]: the agent-id metadata of client stream c, or None
    Authorized   \* streams whose metadata passes validateAuth

ASSUME GatewayAssumption ==
    /\ IdOf \in [AgentStreams -> AgentIds]
    /\ WantId \in [ClientStreams -> AgentIds \cup {None}]
    /\ Authorized \subseteq Streams
    /\ None \notin AgentIds

VARIABLES
    agents,    \* Broker.agents: agents[id] is a stream or None
    sessions,  \* Broker.sessions: the ids of the stored sessions
    bound,     \* bound[c]: Session.agent, the agent connection captured for c
    closed,    \* closed[c]: Session.closed
    hpc,       \* hpc[x]: where the handler of stream x is
    hand       \* hand[x]: the packet the handler of x is working on

gatewayVars == <<agents, sessions, bound, closed, hpc, hand>>

AgentPC == {"none", "greet", "recv", "route", "sending", "returning", "done"}
ClientPC == {"none", "found", "recv", "forward", "closing", "deleting", "done"}

GatewayTypeOK ==
    /\ agents \in [AgentIds -> AgentStreams \cup {None}]
    /\ sessions \subseteq ClientStreams
    /\ bound \in [ClientStreams -> AgentStreams \cup {None}]
    /\ closed \in [ClientStreams -> BOOLEAN]
    /\ hpc \in [Streams -> AgentPC \cup ClientPC]
    /\ hand \in [Streams -> Packet \cup {None}]

GatewayInit ==
    /\ agents = [id \in AgentIds |-> None]
    /\ sessions = {}
    /\ bound = [c \in ClientStreams |-> None]
    /\ closed = [c \in ClientStreams |-> FALSE]
    /\ hpc = [x \in Streams |-> "none"]
    /\ hand = [x \in Streams |-> None]

Goto(x, pc) == hpc' = [hpc EXCEPT ![x] = pc]

\* The handler of x returns an error: gRPC ends the stream with its status.
EndStream(x) ==
    link' = [link EXCEPT ![x] = IF @ = "broken" THEN "broken" ELSE "ended"]

\* The stream has reached the gateway and its handler has not started.
Arrived(x) == link[x] \in {"open", "broken"} /\ hpc[x] = "none"

\* Connect: validateAuth fails.
RejectUnauthorized(x) ==
    /\ Arrived(x)
    /\ x \notin Authorized
    /\ Goto(x, "done")
    /\ EndStream(x)
    /\ UNCHANGED <<toGw, fromGw, agents, sessions, bound, closed, hand>>

-----------------------------------------------------------------------------
(* handleAgentConnection *)

\* agents.Store(agentID, agent): the last stream of an id wins.
AgentConnect(s) ==
    /\ Arrived(s)
    /\ s \in Authorized
    /\ agents' = [agents EXCEPT ![IdOf[s]] = s]
    /\ Goto(s, "greet")
    /\ UNCHANGED <<link, toGw, fromGw, sessions, bound, closed, hand>>

\* stream.Send(GatewayConnectOK) succeeds, or fails and the handler returns.
\* The payload of this packet is not looked at by any agent.
SendConnectOK(s, body) ==
    /\ hpc[s] = "greet"
    /\ \/ /\ link[s] = "open" /\ Room(fromGw, s)
          /\ fromGw' = Put(fromGw, s, [type |-> "AgentGatewayConnectOK",
                                       sid |-> None, conn |-> None,
                                       body |-> body])
          /\ Goto(s, "recv")
       \/ /\ link[s] = "broken"
          /\ Goto(s, "returning")
          /\ UNCHANGED fromGw
    /\ UNCHANGED <<link, toGw, agents, sessions, bound, closed, hand>>

\* stream.Recv returns a packet and GetSession looks its session up.  A
\* packet without a session id (a keepalive), or for a session that is not
\* stored any more, is dropped.
AgentRecv(s) ==
    /\ hpc[s] = "recv"
    /\ toGw[s] # << >>
    /\ toGw' = Take(toGw, s)
    /\ IF Head(toGw[s]).sid \in sessions
         THEN Goto(s, "route") /\ hand' = [hand EXCEPT ![s] = Head(toGw[s])]
         ELSE UNCHANGED <<hpc, hand>>
    /\ UNCHANGED <<link, fromGw, agents, sessions, bound, closed>>

\* stream.Recv returns an error.
AgentRecvFails(s) ==
    /\ hpc[s] = "recv"
    /\ link[s] = "broken"
    /\ Goto(s, "returning")
    /\ UNCHANGED <<link, toGw, fromGw, agents, sessions, bound, closed, hand>>

\* The session's mutex is held by the handler that is sending to its client.
Locked(c) ==
    \E s \in AgentStreams : hpc[s] = "sending" /\ hand[s].sid = c

\* Mutant of LockSession: the closed flag is not looked at.
LockSessionEvenClosed(s) ==
    /\ hpc[s] = "route"
    /\ ~Locked(hand[s].sid)
    /\ Goto(s, "sending")
    /\ UNCHANGED <<link, toGw, fromGw, agents, sessions, bound, closed, hand>>

\* SendToClient takes the mutex; a closed session is an error that is logged.
LockSession(s) ==
    /\ hpc[s] = "route"
    /\ ~Locked(hand[s].sid)
    /\ IF closed[hand[s].sid]
         THEN Goto(s, "recv") /\ hand' = [hand EXCEPT ![s] = None]
         ELSE Goto(s, "sending") /\ UNCHANGED hand
    /\ UNCHANGED <<link, toGw, fromGw, agents, sessions, bound, closed>>

\* Mutant of SendToClient: after a send the packet is still at hand.
SendToClientAgain(s) ==
    /\ hpc[s] = "sending"
    /\ LET c == hand[s].sid IN
         \/ link[c] = "open" /\ Room(fromGw, c) /\ fromGw' = Put(fromGw, c, hand[s])
         \/ link[c] # "open" /\ UNCHANGED fromGw
    /\ Goto(s, "route")
    /\ UNCHANGED <<link, toGw, agents, sessions, bound, closed, hand>>

\* clientStream.Send under the mutex: it blocks while the client's window is
\* full, and returns an error, which is logged, once that stream is broken.
SendToClient(s) ==
    /\ hpc[s] = "sending"
    /\ LET c == hand[s].sid IN
         \/ link[c] = "open" /\ Room(fromGw, c) /\ fromGw' = Put(fromGw, c, hand[s])
         \/ link[c] # "open" /\ UNCHANGED fromGw
    /\ Goto(s, "recv")
    /\ hand' = [hand EXCEPT ![s] = None]
    /\ UNCHANGED <<link, toGw, agents, sessions, bound, closed>>

\* Mutant of AgentReturn: no deferred Delete.
AgentReturnKeepsEntry(s) ==
    /\ hpc[s] = "returning"
    /\ Goto(s, "done")
    /\ EndStream(s)
    /\ UNCHANGED <<toGw, fromGw, agents, sessions, bound, closed, hand>>

\* The deferred agents.Delete(agentID), by id, and the end of the stream.
AgentReturn(s) ==
    /\ hpc[s] = "returning"
    /\ agents' = [agents EXCEPT ![IdOf[s]] = None]
    /\ Goto(s, "done")
    /\ EndStream(s)
    /\ UNCHANGED <<toGw, fromGw, sessions, bound, closed, hand>>

-----------------------------------------------------------------------------
(* handleClientConnection *)

\* The agents a client stream may be served by: the requested one, or the
\* first one a Range over the map meets.
Candidates(c) ==
    {agents[id] : id \in IF WantId[c] = None THEN AgentIds ELSE {WantId[c]}}
        \ {None}

\* The agent connection is looked up; the handler keeps the pointer.
FindAgent(c) ==
    /\ Arrived(c)
    /\ c \in Authorized
    /\ \E s \in Candidates(c) : bound' = [bound EXCEPT ![c] = s]
    /\ Goto(c, "found")
    /\ UNCHANGED <<link, toGw, fromGw, agents, sessions, closed, hand>>

\* codes.Unavailable: the requested agent, or any agent, is not connected.
RejectUnavailable(c) ==
    /\ Arrived(c)
    /\ c \in Authorized
    /\ Candidates(c) = {}
    /\ Goto(c, "done")
    /\ EndStream(c)
    /\ UNCHANGED <<toGw, fromGw, agents, sessions, bound, closed, hand>>

\* Mutant of CreateSession: the session is stored under its agent.
CreateSessionOfAgent(c) ==
    /\ hpc[c] = "found"
    /\ sessions' = sessions \cup {bound[c]}
    /\ Goto(c, "recv")
    /\ UNCHANGED <<link, toGw, fromGw, agents, bound, closed, hand>>

\* sessions.Store(sessionID, session)
CreateSession(c) ==
    /\ hpc[c] = "found"
    /\ sessions' = sessions \cup {c}
    /\ Goto(c, "recv")
    /\ UNCHANGED <<link, toGw, fromGw, agents, bound, closed, hand>>

\* stream.Recv returns a packet; both cases of the switch write the session
\* id of this stream into its Spec.
ClientRecv(c) ==
    /\ hpc[c] = "recv"
    /\ toGw[c] # << >>
    /\ toGw' = Take(toGw, c)
    /\ hand' = [hand EXCEPT ![c] = [Head(toGw[c]) EXCEPT !.sid = c]]
    /\ Goto(c, "forward")
    /\ UNCHANGED <<link, fromGw, agents, sessions, bound, closed>>

\* Mutant of ClientRecvFails: the loop continues after an error.
ClientRecvRetries(c) ==
    /\ hpc[c] = "recv"
    /\ link[c] = "broken"
    /\ Goto(c, "recv")
    /\ UNCHANGED <<link, toGw, fromGw, agents, sessions, bound, closed, hand>>

\* stream.Recv returns an error.
ClientRecvFails(c) ==
    /\ hpc[c] = "recv"
    /\ link[c] = "broken"
    /\ Goto(c, "closing")
    /\ UNCHANGED <<link, toGw, fromGw, agents, sessions, bound, closed, hand>>

\* Mutant of ForwardToAgent: the agent is looked up again for every packet.
ForwardByLookup(c) ==
    /\ hpc[c] = "forward"
    /\ agents[WantId[c]] # None
    /\ LET s == agents[WantId[c]] IN
         \/ /\ link[s] = "open" /\ Room(fromGw, s)
            /\ fromGw' = Put(fromGw, s, hand[c])
            /\ Goto(c, "recv")
         \/ /\ link[s] # "open"
            /\ Goto(c, "closing")
            /\ UNCHANGED fromGw
    /\ hand' = [hand EXCEPT ![c] = None]
    /\ UNCHANGED <<link, toGw, agents, sessions, bound, closed>>

\* Mutant of ForwardToAgent: after a send the packet is still at hand.
ForwardAgain(c) ==
    /\ hpc[c] = "forward"
    /\ LET s == bound[c] IN
         \/ /\ link[s] = "open" /\ Room(fromGw, s)
            /\ fromGw' = Put(fromGw, s, hand[c])
            /\ UNCHANGED hpc
         \/ /\ link[s] # "open"
            /\ Goto(c, "closing")
            /\ UNCHANGED fromGw
    /\ UNCHANGED <<link, toGw, agents, sessions, bound, closed, hand>>

\* agent.stream.Send(pkt) on the captured agent connection.  It blocks while
\* the agent's window is full; an error ends the handler.
ForwardToAgent(c) ==
    /\ hpc[c] = "forward"
    /\ LET s == bound[c] IN
         \/ /\ link[s] = "open" /\ Room(fromGw, s)
            /\ fromGw' = Put(fromGw, s, hand[c])
            /\ Goto(c, "recv")
         \/ /\ link[s] # "open"
            /\ Goto(c, "closing")
            /\ UNCHANGED fromGw
    /\ hand' = [hand EXCEPT ![c] = None]
    /\ UNCHANGED <<link, toGw, agents, sessions, bound, closed>>

\* Mutant of CloseSession: the mutex is not taken.
CloseSessionUnlocked(c) ==
    /\ hpc[c] = "closing"
    /\ closed' = [closed EXCEPT ![c] = TRUE]
    /\ Goto(c, "deleting")
    /\ UNCHANGED <<link, toGw, fromGw, agents, sessions, bound, hand>>

\* The deferred Session.Close, under the session's mutex.
CloseSession(c) ==
    /\ hpc[c] = "closing"
    /\ ~Locked(c)
    /\ closed' = [closed EXCEPT ![c] = TRUE]
    /\ Goto(c, "deleting")
    /\ UNCHANGED <<link, toGw, fromGw, agents, sessions, bound, hand>>

\* The deferred sessions.Delete(sessionID) and the end of the stream.
DeleteSession(c) ==
    /\ hpc[c] = "deleting"
    /\ sessions' = sessions \ {c}
    /\ Goto(c, "done")
    /\ EndStream(c)
    /\ UNCHANGED <<toGw, fromGw, agents, bound, closed, hand>>

-----------------------------------------------------------------------------
\* GetActiveAgents, behind GET /agents.
GetActiveAgents == {id \in AgentIds : agents[id] # None}

\* A step of the goroutine that serves agent stream s.
AgentHandler(s, body) ==
    \/ AgentConnect(s) \/ SendConnectOK(s, body)
    \/ AgentRecv(s) \/ AgentRecvFails(s)
    \/ LockSession(s) \/ SendToClient(s) \/ AgentReturn(s)

\* A step of the goroutine that serves client stream c.
ClientHandler(c) ==
    \/ FindAgent(c) \/ RejectUnavailable(c) \/ CreateSession(c)
    \/ ClientRecv(c) \/ ClientRecvFails(c) \/ ForwardToAgent(c)
    \/ CloseSession(c) \/ DeleteSession(c)

=============================================================================
