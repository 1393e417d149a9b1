---------------------------- MODULE AgentLemmas ----------------------------
(***************************************************************************)
(* What the steps of the agent's controller have in common, for the proofs *)
(* about the controller with any gateway and about the query path.         *)
(***************************************************************************)
EXTENDS AgentController, SequenceTheorems, TLAPS

\* The packet the loop of Run is about to handle.
Front(s) == Head(fromGw[s])

\* A packet that is addressed to a session; ConnectOK has no session.
Addressed(p) == p.sid \in ClientStreams \/ p.type = "AgentGatewayConnectOK"

\* SessionClose takes the entries whose keys contain the session's id.
Taken(p, e) == p.type = "AgentSessionClose" /\ KeyContains(e, p.sid)

\* The store after packet p was handled: entries of p's session may have gone,
\* one of p's session may be new if its parameters are stored, and nothing of
\* another session has changed but for what is taken by its key.
StoreAfter(s, p, P) ==
    /\ P \subseteq proxies[s] \cup {<<p.sid, k>> : k \in ProxyKeys}
    /\ \A e \in P : e \in proxies[s] \/ p.sid \in params[s]
    /\ \A e \in proxies[s] : e[1] # p.sid => e \in P \/ Taken(p, e)

\* A handler that neither opens a session nor runs a query: it may close the
\* session with an error and change the store.
Serves(s) ==
    /\ apc[s] = "run" /\ outbox[s] = << >> /\ PeerRecv(s)
    /\ Front(s).type # "AgentSessionOpen"
    /\ \/ outbox' = outbox
       \/ \E code \in {"1", "254"} :
            /\ Front(s).sid # None
            /\ outbox' = [outbox EXCEPT ![s] = <<SessionClose(Front(s).sid, code)>>]
    /\ \E P : StoreAfter(s, Front(s), P) /\ proxies' = [proxies EXCEPT ![s] = P]
    /\ UNCHANGED <<apc, params, probing, opened, ran>>

\* A handler that runs the query of the packet.
Queries(s) ==
    \/ RunQuery(s, "AgentMySQLConnectionWrite", "ClientMySQLConnectionWrite", {1})
    \/ RunQuery(s, "AgentMongoDBConnectionWrite", "ClientMongoDBConnectionWrite", {1, 2})

\* A handler that finds the store as it leaves it.
LEMMA StoreKept ==
    ASSUME AgentTypeOK, NEW s \in AgentStreams, NEW p, UNCHANGED proxies
    PROVE  \E P : StoreAfter(s, p, P) /\ proxies' = [proxies EXCEPT ![s] = P]
<1>1. proxies' = [proxies EXCEPT ![s] = proxies[s]]
  BY DEF AgentTypeOK
<1>2. StoreAfter(s, p, proxies[s])
  BY DEF StoreAfter
<1> QED
  BY <1>1, <1>2

\* A handler that stores an entry for a session with parameters.
LEMMA StoreAdds ==
    ASSUME AgentTypeOK, NEW s \in AgentStreams, NEW p, NEW k \in ProxyKeys,
           HasParams(s, p), Store(s, p, k)
    PROVE  \E P : StoreAfter(s, p, P) /\ proxies' = [proxies EXCEPT ![s] = P]
<1> DEFINE P == proxies[s] \cup {<<p.sid, k>>}
<1>1. proxies' = [proxies EXCEPT ![s] = P]
  BY DEF Store
<1>2. StoreAfter(s, p, P)
  BY DEF StoreAfter, HasParams
<1> QED
  BY <1>1, <1>2

\* A handler that deletes entries of the packet's session.
LEMMA StoreDeletes ==
    ASSUME AgentTypeOK, NEW s \in AgentStreams, NEW p, NEW P, P \subseteq proxies[s],
           \A e \in proxies[s] : e[1] # p.sid => e \in P \/ Taken(p, e),
           proxies' = [proxies EXCEPT ![s] = P]
    PROVE  \E Q : StoreAfter(s, p, Q) /\ proxies' = [proxies EXCEPT ![s] = Q]
BY DEF StoreAfter

\* The handlers of the database and ssh protocols that start a proxy.
LEMMA ProxyHandlers ==
    ASSUME TransportTypeOK, AgentTypeOK, NEW s \in AgentStreams,
           NEW type, type # "AgentSessionOpen"
    PROVE  /\ RefuseWrite(s, type) => Serves(s)
           /\ WriteToProxy(s, type) => Serves(s)
           /\ StartProxy(s, type) /\ Addressed(Front(s)) /\ type # "AgentGatewayConnectOK" => Serves(s)
<1>0. ASSUME Handles(s, {type})
      PROVE  /\ apc[s] = "run" /\ outbox[s] = << >> /\ PeerRecv(s)
             /\ Front(s).type = type /\ Front(s).type # "AgentSessionOpen" /\ UNCHANGED apc
  BY <1>0 DEF Handles, Takes, Front
<1>1. ASSUME RefuseWrite(s, type)
      PROVE  Serves(s)
  <2>1. outbox' = [outbox EXCEPT ![s] = CloseReply(Front(s).sid, "254")]
    BY <1>1 DEF RefuseWrite, Replies, Front
  <2>2. outbox' = outbox \/ \E code \in {"1", "254"} :
            /\ Front(s).sid # None
            /\ outbox' = [outbox EXCEPT ![s] = <<SessionClose(Front(s).sid, code)>>]
    <3>1. CASE Front(s).sid = None
      BY <1>0, <1>1, <2>1, <3>1 DEF CloseReply, AgentTypeOK, RefuseWrite
    <3>2. CASE Front(s).sid # None
      BY <2>1, <3>2 DEF CloseReply
    <3> QED
      BY <3>1, <3>2
  <2> QED
    BY <1>0, <1>1, <2>2, StoreKept DEF RefuseWrite, Serves
<1>2. ASSUME WriteToProxy(s, type)
      PROVE  Serves(s)
  BY <1>0, <1>2, StoreKept DEF WriteToProxy, Serves
<1>3. ASSUME StartProxy(s, type), Addressed(Front(s)), type # "AgentGatewayConnectOK"
      PROVE  Serves(s)
  <2>1. /\ Handles(s, {type}) /\ Accepted(s, Front(s)) /\ Store(s, Front(s), Front(s).conn)
        /\ outbox' = [outbox EXCEPT ![s] = <<SessionClose(Front(s).sid, "254")>>]
        /\ UNCHANGED <<params, probing, opened, ran>>
    BY <1>3 DEF StartProxy, Replies, Front
  <2>2. Front(s).sid # None
    BY <1>0, <1>3, <2>1, StreamsAssumption DEF Addressed
  <2>3. Front(s) \in Packet
    BY <1>0, <2>1 DEF Front, PeerRecv, TransportTypeOK, Streams
  <2>4. HasParams(s, Front(s)) /\ Front(s).conn \in ProxyKeys
    BY <2>1, <2>3 DEF Accepted, Refused, Packet, ProxyKeys
  <2> QED
    BY <1>0, <2>1, <2>2, <2>4, StoreAdds DEF Serves
<1> QED
  BY <1>1, <1>2, <1>3

\* Every step of Run is a send, its return, the handling of a SessionOpen, the
\* execution of a query or the service of another packet.
LEMMA RunStepCases ==
    ASSUME TransportTypeOK, AgentTypeOK, NEW s \in AgentStreams, RunStep(s),
           fromGw[s] # << >> => Addressed(Front(s))
    PROVE  \/ AgentSend(s) \/ AgentRunReturns(s)
           \/ SessionOpenFails(s) \/ ProcessSessionOpen(s)
           \/ Queries(s) \/ Serves(s)
<1>0. ASSUME NEW types, Handles(s, types)
      PROVE  /\ apc[s] = "run" /\ outbox[s] = << >> /\ PeerRecv(s)
             /\ Front(s).type \in types /\ UNCHANGED apc
             /\ Addressed(Front(s)) /\ Front(s) \in Packet
  BY <1>0 DEF Handles, Takes, Front, PeerRecv, TransportTypeOK, Streams
<1>1. ASSUME Ignore(s)
      PROVE  Serves(s)
  <2>1. PICK types : /\ Handles(s, types) /\ "AgentSessionOpen" \notin types
                     /\ UNCHANGED <<params, proxies, outbox, probing, opened, ran>>
    BY <1>1 DEF Ignore
  <2> QED
    BY <1>0, <2>1, StoreKept DEF Serves
<1>2. ASSUME ProcessSessionClose(s)
      PROVE  Serves(s)
  <2>0. PICK P : P = {e \in proxies[s] : ~KeyContains(e, Front(s).sid)}
    OBVIOUS
  <2>1. /\ Handles(s, {"AgentSessionClose"}) /\ proxies' = [proxies EXCEPT ![s] = P]
        /\ UNCHANGED <<params, outbox, probing, opened, ran>>
    BY <1>2, <2>0 DEF ProcessSessionClose, Front
  <2>2. \E Q : StoreAfter(s, Front(s), Q) /\ proxies' = [proxies EXCEPT ![s] = Q]
    <3>1. P \subseteq proxies[s]
      BY <2>0
    <3>2. Front(s).type = "AgentSessionClose"
      BY <1>0, <2>1
    <3>3. \A e \in proxies[s] : e \in P \/ Taken(Front(s), e)
      BY <2>0, <3>2 DEF Taken
    <3> QED
      BY <2>1, <3>1, <3>3, StoreDeletes
  <2>3. /\ apc[s] = "run" /\ outbox[s] = << >> /\ PeerRecv(s)
        /\ Front(s).type # "AgentSessionOpen" /\ UNCHANGED apc
    BY <1>0, <2>1
  <2> QED
    BY <2>1, <2>2, <2>3 DEF Serves
<1>3. ASSUME ProcessTCPCloseConnection(s)
      PROVE  Serves(s)
  <2> DEFINE M == IF Front(s).conn = None THEN ConnIds \cup {None} ELSE PrefixOf[Front(s).conn]
             P == proxies[s] \ ({Front(s).sid} \X M)
  <2>1. /\ Handles(s, {"AgentCloseTCPConnection"}) /\ proxies' = [proxies EXCEPT ![s] = P]
        /\ UNCHANGED <<params, outbox, probing, opened, ran>>
    BY <1>3 DEF ProcessTCPCloseConnection, Front
  <2>2. \A e \in proxies[s] : e[1] # Front(s).sid => e \in P
    OBVIOUS
  <2>3. \E Q : StoreAfter(s, Front(s), Q) /\ proxies' = [proxies EXCEPT ![s] = Q]
    BY <2>1, <2>2, StoreDeletes
  <2>4. /\ apc[s] = "run" /\ outbox[s] = << >> /\ PeerRecv(s)
        /\ Front(s).type # "AgentSessionOpen" /\ UNCHANGED apc
    BY <1>0, <2>1
  <2> HIDE DEF P, M
  <2> QED
    BY <2>1, <2>3, <2>4 DEF Serves
<1>4. ASSUME NEW type, type \notin {"AgentSessionOpen", "AgentGatewayConnectOK"},
             RefuseWrite(s, type) \/ WriteToProxy(s, type) \/ StartProxy(s, type)
      PROVE  Serves(s)
  <2>1. StartProxy(s, type) => Addressed(Front(s))
    BY <1>0 DEF StartProxy
  <2> QED
    BY <1>4, <2>1, ProxyHandlers
<1>5. ASSUME ProcessMySQLProtocol(s) \/ ProcessMongoDBProtocol(s)
      PROVE  Serves(s) \/ Queries(s)
  BY <1>4, <1>5 DEF ProcessMySQLProtocol, ProcessMongoDBProtocol, Queries
<1>6. ASSUME ProcessPGProtocol(s) \/ ProcessMSSQLProtocol(s) \/ ProcessSSHProtocol(s)
      PROVE  Serves(s)
  BY <1>4, <1>6 DEF ProcessPGProtocol, ProcessMSSQLProtocol, ProcessSSHProtocol
<1>7. ASSUME ProcessHttpProxyWriteServer(s)
      PROVE  Serves(s)
  <2> DEFINE type == "AgentHttpProxyConnectionWrite"
  <2>1. CASE RefuseWrite(s, type) \/ WriteToProxy(s, type)
    BY <1>4, <2>1
  <2>2. ASSUME Handles(s, {type}), Accepted(s, Front(s)), Store(s, Front(s), Front(s).conn),
               UNCHANGED <<params, outbox, probing, opened, ran>>
        PROVE  Serves(s)
    <3>1. HasParams(s, Front(s)) /\ Front(s).conn \in ProxyKeys
      BY <1>0, <2>2 DEF Accepted, Refused, Packet, ProxyKeys
    <3> QED
      BY <1>0, <2>2, <3>1, StoreAdds DEF Serves
  <2> QED
    BY <1>7, <2>1, <2>2 DEF ProcessHttpProxyWriteServer, Front
<1>8. ASSUME NEW types, "AgentSessionOpen" \notin types, Handles(s, types),
             NEW code \in {"1", "254"},
             outbox' = [outbox EXCEPT ![s] = CloseReply(Front(s).sid, code)],
             \E P : StoreAfter(s, Front(s), P) /\ proxies' = [proxies EXCEPT ![s] = P],
             UNCHANGED <<params, probing, opened, ran>>
      PROVE  Serves(s)
  <2>1. outbox' = outbox \/ \E d \in {"1", "254"} :
            /\ Front(s).sid # None
            /\ outbox' = [outbox EXCEPT ![s] = <<SessionClose(Front(s).sid, d)>>]
    <3>1. CASE Front(s).sid = None
      BY <1>0, <1>8, <3>1 DEF CloseReply, AgentTypeOK
    <3>2. CASE Front(s).sid # None
      BY <1>8, <3>2 DEF CloseReply
    <3> QED
      BY <3>1, <3>2
  <2> QED
    BY <1>0, <1>8, <2>1 DEF Serves
<1>9. ASSUME DoExec(s)
      PROVE  Serves(s)
  <2> DEFINE P == IF HasParams(s, Front(s)) THEN proxies[s] \ {<<Front(s).sid, "exec">>}
                                            ELSE proxies[s]
             d == IF HasParams(s, Front(s)) THEN "1" ELSE "254"
  <2>1. /\ Handles(s, {"AgentExecWriteStdin"}) /\ proxies' = [proxies EXCEPT ![s] = P]
        /\ outbox' = [outbox EXCEPT ![s] = CloseReply(Front(s).sid, d)]
        /\ UNCHANGED <<params, probing, opened, ran>>
    BY <1>9 DEF DoExec, Front, Replies, AgentTypeOK
  <2>2. \A e \in proxies[s] : e[1] # Front(s).sid => e \in P
    OBVIOUS
  <2>3. \E Q : StoreAfter(s, Front(s), Q) /\ proxies' = [proxies EXCEPT ![s] = Q]
    BY <2>1, <2>2, StoreDeletes
  <2>4. d \in {"1", "254"}
    OBVIOUS
  <2> HIDE DEF d, P
  <2> QED
    BY <1>8, <2>1, <2>3, <2>4
<1>10. ASSUME DoTerminalWriteAgentStdin(s)
       PROVE  Serves(s)
  <2>1. Handles(s, {"AgentTerminalWriteStdin"}) /\ UNCHANGED <<params, probing, opened, ran>>
    BY <1>10 DEF DoTerminalWriteAgentStdin
  <2>2. CASE UNCHANGED proxies /\ outbox' = [outbox EXCEPT ![s] = CloseReply(Front(s).sid, "254")]
    BY <1>8, <2>1, <2>2, StoreKept
  <2>3. CASE UNCHANGED <<proxies, outbox>>
    BY <1>0, <2>1, <2>3, StoreKept DEF Serves
  <2>4. CASE HasParams(s, Front(s)) /\ Store(s, Front(s), "cmd")
             /\ outbox' = [outbox EXCEPT ![s] = CloseReply(Front(s).sid, "1")]
    <3>1. \E P : StoreAfter(s, Front(s), P) /\ proxies' = [proxies EXCEPT ![s] = P]
      BY <2>4, StoreAdds DEF ProxyKeys
    <3> QED
      BY <1>8, <2>1, <2>4, <3>1
  <2> QED
    BY <1>10, <2>2, <2>3, <2>4 DEF DoTerminalWriteAgentStdin, Replies, Front
<1> QED
  BY <1>1, <1>2, <1>3, <1>5, <1>6, <1>7, <1>9, <1>10 DEF RunStep

-----------------------------------------------------------------------------
(* Types *)

\* The packets the agent makes are packets.
LEMMA PacketsMade ==
    /\ \A c \in ClientStreams, code \in ExitCodes : SessionClose(c, code) \in Packet
    /\ \A c \in ClientStreams : SessionOpenOK(c) \in Packet
    /\ \A p \in Packet, type \in PacketTypes : WriteReply(p, type) \in Packet
<1>1. [query |-> None, code |-> None] \in Bodies
  BY BodiesAssumption DEF AgentBodies
<1>2. \A code \in ExitCodes : [query |-> None, code |-> code] \in Bodies
  BY BodiesAssumption DEF AgentBodies
<1>3. ASSUME NEW p \in Packet
      PROVE  [query |-> p.body.query, code |-> None] \in Bodies
  <2>1. p.body \in AgentBodies
    BY BodiesAssumption DEF Packet
  <2> QED
    BY <2>1, BodiesAssumption DEF AgentBodies
<1>4. {"ClientSessionClose", "ClientSessionOpenOK"} \subseteq PacketTypes
  BY DEF PacketTypes, ClientPacketTypes
<1>5. \A c \in ClientStreams, code \in ExitCodes : SessionClose(c, code) \in Packet
  BY <1>2, <1>4 DEF SessionClose, Packet
<1>6. \A c \in ClientStreams : SessionOpenOK(c) \in Packet
  BY <1>1, <1>4 DEF SessionOpenOK, Packet
<1>7. \A p \in Packet, type \in PacketTypes : WriteReply(p, type) \in Packet
  BY <1>3 DEF WriteReply, Packet
<1> QED
  BY <1>5, <1>6, <1>7

\* A queue stays a queue of packets.
LEMMA QueueTypes ==
    ASSUME NEW q \in [Streams -> Seq(Packet)], NEW x \in Streams
    PROVE  /\ \A p \in Packet : Put(q, x, p) \in [Streams -> Seq(Packet)]
           /\ q[x] # << >> => /\ Take(q, x) \in [Streams -> Seq(Packet)]
                              /\ Head(q[x]) \in Packet
<1>1. ASSUME NEW p \in Packet PROVE Put(q, x, p) \in [Streams -> Seq(Packet)]
  <2>1. Append(q[x], p) \in Seq(Packet)
    OBVIOUS
  <2> QED
    BY <2>1 DEF Put
<1>2. ASSUME q[x] # << >>
      PROVE  Take(q, x) \in [Streams -> Seq(Packet)] /\ Head(q[x]) \in Packet
  <2>1. Tail(q[x]) \in Seq(Packet) /\ Head(q[x]) \in Packet
    BY <1>2
  <2> QED
    BY <2>1 DEF Take
<1> QED
  BY <1>1, <1>2

\* The peer's own steps on its stream keep the types of the queues.
LEMMA PeerTypes ==
    ASSUME TransportTypeOK, NEW x \in Streams
    PROVE  /\ Dial(x) => TransportTypeOK'
           /\ Break(x) => TransportTypeOK'
           /\ PeerRecv(x) => TransportTypeOK'
           /\ \A p \in Packet : PeerSend(x, p) => TransportTypeOK'
           /\ UNCHANGED transportVars => TransportTypeOK'
<1>1. Dial(x) => TransportTypeOK'
  BY DEF Dial, TransportTypeOK, LinkState
<1>2. Break(x) => TransportTypeOK'
  BY DEF Break, TransportTypeOK, LinkState
<1>3. PeerRecv(x) => TransportTypeOK'
  BY QueueTypes DEF PeerRecv, TransportTypeOK
<1>4. ASSUME NEW p \in Packet, PeerSend(x, p) PROVE TransportTypeOK'
  <2>1. Put(toGw, x, p) \in [Streams -> Seq(Packet)]
    BY QueueTypes DEF TransportTypeOK
  <2> QED
    BY <1>4, <2>1 DEF PeerSend, TransportTypeOK
<1>5. UNCHANGED transportVars => TransportTypeOK'
  BY DEF transportVars, TransportTypeOK
<1> QED
  BY <1>1, <1>2, <1>3, <1>4, <1>5

\* The replies of the handlers are sequences of packets.
LEMMA ReplyTypes ==
    ASSUME NEW c \in ClientStreams, NEW a \in ExitCodes, NEW b \in ExitCodes,
           NEW p \in Packet, NEW type \in PacketTypes
    PROVE  /\ <<SessionClose(c, a)>> \in Seq(Packet)
           /\ <<SessionClose(c, a), SessionClose(c, b)>> \in Seq(Packet)
           /\ <<SessionClose(c, a), SessionOpenOK(c)>> \in Seq(Packet)
           /\ <<WriteReply(p, type), SessionClose(c, a)>> \in Seq(Packet)
<1> DEFINE x == SessionClose(c, a)
           y == SessionClose(c, b)
           z == SessionOpenOK(c)
           w == WriteReply(p, type)
<1>1. x \in Packet /\ y \in Packet /\ z \in Packet /\ w \in Packet
  BY PacketsMade
<1> HIDE DEF x, y, z, w
<1>2. <<x>> \in Seq(Packet) /\ <<x, y>> \in Seq(Packet) /\ <<x, z>> \in Seq(Packet)
      /\ <<w, x>> \in Seq(Packet)
  BY <1>1
<1> QED
  BY <1>2 DEF x, y, z, w

\* What a handler that runs a query leaves in the outbox.
LEMMA QueryReplies ==
    ASSUME NEW s \in AgentStreams, Queries(s)
    PROVE  /\ apc[s] = "run" /\ outbox[s] = << >> /\ PeerRecv(s)
           /\ Accepted(s, Front(s)) /\ UNCHANGED <<params, proxies, probing, opened>>
           /\ apc' = [apc EXCEPT ![s] = "command"]
           /\ \E n \in {1, 2} : /\ ran[Front(s).sid] + n <= MaxRuns
                                /\ ran' = [ran EXCEPT ![Front(s).sid] = @ + n]
                                /\ n = 2 => Front(s).type = "AgentMongoDBConnectionWrite"
           /\ \E reply \in {"ClientMySQLConnectionWrite", "ClientMongoDBConnectionWrite"},
                 code \in {"0", "1"} :
                /\ Front(s).type = IF reply = "ClientMySQLConnectionWrite"
                                     THEN "AgentMySQLConnectionWrite"
                                     ELSE "AgentMongoDBConnectionWrite"
                /\ \/ outbox' = [outbox EXCEPT ![s] = <<SessionClose(Front(s).sid, code)>>]
                   \/ outbox' = [outbox EXCEPT ![s] = <<WriteReply(Front(s), reply),
                                                        SessionClose(Front(s).sid, code)>>]
<1>1. ASSUME NEW type, NEW reply, NEW runs, RunQuery(s, type, reply, runs)
      PROVE  /\ apc[s] = "run" /\ outbox[s] = << >> /\ PeerRecv(s) /\ Front(s).type = type
             /\ Accepted(s, Front(s)) /\ UNCHANGED <<params, proxies, probing, opened>>
             /\ apc' = [apc EXCEPT ![s] = "command"]
             /\ \E n \in runs : /\ ran[Front(s).sid] + n <= MaxRuns
                                /\ ran' = [ran EXCEPT ![Front(s).sid] = @ + n]
             /\ \E code \in {"0", "1"} :
                  \/ outbox' = [outbox EXCEPT ![s] = <<SessionClose(Front(s).sid, code)>>]
                  \/ outbox' = [outbox EXCEPT ![s] = <<WriteReply(Front(s), reply),
                                                        SessionClose(Front(s).sid, code)>>]
  <2>1. /\ apc[s] = "run" /\ outbox[s] = << >> /\ PeerRecv(s) /\ Front(s).type = type
        /\ Accepted(s, Front(s)) /\ UNCHANGED <<params, proxies, probing, opened>>
        /\ apc' = [apc EXCEPT ![s] = "command"]
        /\ \E n \in runs : /\ ran[Front(s).sid] + n <= MaxRuns
                           /\ ran' = [ran EXCEPT ![Front(s).sid] = @ + n]
    BY <1>1 DEF RunQuery, Takes, Front
  <2>2. PICK output \in {<< >>, <<WriteReply(Front(s), reply)>>}, code \in {"0", "1"} :
            outbox' = [outbox EXCEPT ![s] = output \o <<SessionClose(Front(s).sid, code)>>]
    BY <1>1 DEF RunQuery, Replies, Front
  <2>3. ASSUME NEW x, NEW y
        PROVE  << >> \o <<x>> = <<x>> /\ <<y>> \o <<x>> = <<y, x>>
    <3>1. << >> \in Seq({x, y}) /\ <<x>> \in Seq({x, y}) /\ <<y>> \in Seq({x, y})
      OBVIOUS
    <3>2. << >> \o <<x>> = <<x>>
      BY <3>1
    <3>3. <<y>> \o <<x>> = <<y, x>>
      <4>1. <<y>> \o <<x>> \in Seq({x, y}) /\ <<y, x>> \in Seq({x, y})
        BY <3>1
      <4>2. Len(<<y>> \o <<x>>) = 2 /\ Len(<<y, x>>) = 2
        BY <3>1
      <4>3. (<<y>> \o <<x>>)[1] = y /\ (<<y>> \o <<x>>)[2] = x
        BY <3>1
      <4>4. \A i \in 1..2 : (<<y>> \o <<x>>)[i] = <<y, x>>[i]
        BY <4>3
      <4> QED
        BY <4>1, <4>2, <4>4, SeqEqual
    <3> QED
      BY <3>2, <3>3
  <2> QED
    BY <2>1, <2>2, <2>3
<1>2. CASE RunQuery(s, "AgentMySQLConnectionWrite", "ClientMySQLConnectionWrite", {1})
  BY <1>1, <1>2
<1>3. CASE RunQuery(s, "AgentMongoDBConnectionWrite", "ClientMongoDBConnectionWrite", {1, 2})
  BY <1>1, <1>3
<1> QED
  BY <1>2, <1>3 DEF Queries

\* The loop of Run keeps the types.
LEMMA RunStepTypes ==
    ASSUME TransportTypeOK, AgentTypeOK, NEW s \in AgentStreams, RunStep(s),
           fromGw[s] # << >> => Addressed(Front(s))
    PROVE  TransportTypeOK' /\ AgentTypeOK'
<1>0. s \in Streams
  BY DEF Streams
<1>1. ASSUME PeerRecv(s), Front(s).type # "AgentGatewayConnectOK"
      PROVE  Front(s).sid \in ClientStreams
  BY <1>1 DEF Addressed, PeerRecv
<1>2. ASSUME PeerRecv(s)
      PROVE  Front(s) \in Packet /\ TransportTypeOK'
  BY <1>0, <1>2, QueueTypes, PeerTypes DEF Front, TransportTypeOK, PeerRecv
<1>3. CASE AgentSend(s)
  <2>1. Head(outbox[s]) \in Packet /\ Tail(outbox[s]) \in Seq(Packet)
    BY <1>3 DEF AgentSend, AgentTypeOK
  <2>2. TransportTypeOK'
    BY <1>0, <1>3, <2>1, PeerTypes DEF AgentSend
  <2>3. outbox' \in [AgentStreams -> Seq(Packet)]
    BY <1>3, <2>1 DEF AgentSend, AgentTypeOK
  <2> QED
    BY <1>3, <2>2, <2>3 DEF AgentSend, AgentTypeOK
<1>4. CASE AgentRunReturns(s)
  BY <1>0, <1>4, PeerTypes DEF AgentRunReturns, AgentTypeOK
<1>5. CASE SessionOpenFails(s)
  <2>1. /\ PeerRecv(s) /\ Front(s).type = "AgentSessionOpen" /\ UNCHANGED apc
        /\ outbox' = [outbox EXCEPT ![s] = <<SessionClose(Front(s).sid, "254"),
                                             SessionClose(Front(s).sid, "254")>>]
        /\ UNCHANGED <<params, proxies, probing, opened, ran>>
    BY <1>5 DEF SessionOpenFails, Handles, Takes, Replies, Front
  <2>2. <<SessionClose(Front(s).sid, "254"), SessionClose(Front(s).sid, "254")>> \in Seq(Packet)
    BY <1>1, <1>2, <2>1, ReplyTypes DEF ExitCodes, PacketTypes
  <2>3. outbox' \in [AgentStreams -> Seq(Packet)]
    BY <2>1, <2>2 DEF AgentTypeOK
  <2> QED
    BY <1>2, <2>1, <2>3 DEF AgentTypeOK
<1>6. CASE ProcessSessionOpen(s)
  <2>1. /\ PeerRecv(s) /\ Front(s).type = "AgentSessionOpen" /\ UNCHANGED apc
        /\ params' = [params EXCEPT ![s] = @ \cup {Front(s).sid}]
        /\ probing' = [probing EXCEPT ![s] = @ \cup {Front(s).sid}]
        /\ UNCHANGED <<proxies, outbox, opened, ran>>
    BY <1>6 DEF ProcessSessionOpen, Handles, Takes, Front
  <2>2. Front(s).sid \in ClientStreams
    BY <1>1, <2>1
  <2> QED
    BY <1>2, <2>1, <2>2 DEF AgentTypeOK
<1>7. CASE Queries(s)
  <2>1. /\ PeerRecv(s) /\ UNCHANGED <<params, proxies, probing, opened>>
        /\ apc' = [apc EXCEPT ![s] = "command"]
        /\ Front(s).type # "AgentGatewayConnectOK"
    BY <1>7, QueryReplies
  <2>2. Front(s).sid \in ClientStreams
    BY <1>1, <2>1
  <2>3. ran' \in [ClientStreams -> 0..MaxRuns]
    <3>1. PICK n \in {1, 2} : /\ ran[Front(s).sid] + n <= MaxRuns
                              /\ ran' = [ran EXCEPT ![Front(s).sid] = @ + n]
      BY <1>7, QueryReplies
    <3>2. ran[Front(s).sid] \in 0..MaxRuns /\ MaxRuns \in Nat
      BY <2>2, AgentAssumption DEF AgentTypeOK
    <3>3. ran[Front(s).sid] + n \in 0..MaxRuns
      BY <3>1, <3>2
    <3> QED
      BY <3>1, <3>3 DEF AgentTypeOK
  <2>4. PICK reply \in {"ClientMySQLConnectionWrite", "ClientMongoDBConnectionWrite"},
             code \in {"0", "1"} :
               \/ outbox' = [outbox EXCEPT ![s] = <<SessionClose(Front(s).sid, code)>>]
               \/ outbox' = [outbox EXCEPT ![s] = <<WriteReply(Front(s), reply),
                                                    SessionClose(Front(s).sid, code)>>]
    BY <1>7, QueryReplies
  <2>5. reply \in PacketTypes /\ code \in ExitCodes
    BY DEF PacketTypes, ClientPacketTypes, ExitCodes
  <2>6. /\ <<SessionClose(Front(s).sid, code)>> \in Seq(Packet)
        /\ <<WriteReply(Front(s), reply), SessionClose(Front(s).sid, code)>> \in Seq(Packet)
    BY <1>2, <2>1, <2>2, <2>5, ReplyTypes
  <2>7. outbox' \in [AgentStreams -> Seq(Packet)]
    BY <2>4, <2>6 DEF AgentTypeOK
  <2> QED
    BY <1>2, <2>1, <2>3, <2>7 DEF AgentTypeOK
<1>8. CASE Serves(s)
  <2>1. PeerRecv(s) /\ UNCHANGED <<apc, params, probing, opened, ran>>
    BY <1>8 DEF Serves
  <2>2. Front(s) \in Packet
    BY <1>2, <2>1
  <2>3. outbox' \in [AgentStreams -> Seq(Packet)]
    <3>1. CASE outbox' = outbox
      BY <3>1 DEF AgentTypeOK
    <3>2. ASSUME NEW code \in {"1", "254"}, Front(s).sid # None,
                 outbox' = [outbox EXCEPT ![s] = <<SessionClose(Front(s).sid, code)>>]
          PROVE  outbox' \in [AgentStreams -> Seq(Packet)]
      <4>1. Front(s).sid \in ClientStreams /\ code \in ExitCodes
        BY <2>2, <3>2 DEF Packet, ExitCodes
      <4>2. "ClientSessionClose" \in PacketTypes
        BY DEF PacketTypes, ClientPacketTypes
      <4>3. <<SessionClose(Front(s).sid, code)>> \in Seq(Packet)
        BY <2>2, <4>1, <4>2, ReplyTypes
      <4> QED
        BY <3>2, <4>3 DEF AgentTypeOK
    <3> QED
      BY <1>8, <3>1, <3>2 DEF Serves
  <2>4. proxies' \in [AgentStreams -> SUBSET (ClientStreams \X ProxyKeys)]
    <3>1. PICK P : StoreAfter(s, Front(s), P) /\ proxies' = [proxies EXCEPT ![s] = P]
      BY <1>8 DEF Serves
    <3>2. proxies[s] \subseteq ClientStreams \X ProxyKeys /\ params[s] \subseteq ClientStreams
      BY DEF AgentTypeOK
    <3>3. ASSUME NEW e \in P PROVE e \in ClientStreams \X ProxyKeys
      <4>1. CASE e \in proxies[s]
        BY <3>2, <4>1
      <4>2. CASE e \notin proxies[s]
        BY <3>1, <3>2, <4>2 DEF StoreAfter
      <4> QED
        BY <4>1, <4>2
    <3> QED
      BY <3>1, <3>3 DEF AgentTypeOK
  <2> QED
    BY <1>2, <2>1, <2>3, <2>4 DEF AgentTypeOK
<1> QED
  BY <1>3, <1>4, <1>5, <1>6, <1>7, <1>8, RunStepCases

\* What a probe goroutine does to the packets it has still to send.
LEMMA ProbeStepTypes ==
    ASSUME TransportTypeOK, AgentTypeOK, NEW s \in AgentStreams, NEW c \in ClientStreams,
           ProbeStep(s, c)
    PROVE  TransportTypeOK' /\ AgentTypeOK'
<1>0. s \in Streams /\ opened[s] \in [ClientStreams -> Seq(Packet)] /\ opened[s][c] \in Seq(Packet)
  BY DEF Streams, AgentTypeOK
<1>1. ASSUME NEW q \in Seq(Packet), opened' = [opened EXCEPT ![s][c] = q]
      PROVE  opened' \in [AgentStreams -> [ClientStreams -> Seq(Packet)]]
  BY <1>0, <1>1 DEF AgentTypeOK
<1>2. CASE ProbeFails(s, c)
  <2>1. <<SessionClose(c, "254"), SessionOpenOK(c)>> \in Seq(Packet)
    <3>1. SessionClose(c, "254") \in Packet /\ SessionOpenOK(c) \in Packet
      BY PacketsMade DEF ExitCodes
    <3> QED
      BY <3>1
  <2>2. opened[s][c] \o <<SessionClose(c, "254"), SessionOpenOK(c)>> \in Seq(Packet)
    BY <1>0, <2>1
  <2>3. opened' \in [AgentStreams -> [ClientStreams -> Seq(Packet)]]
    BY <1>1, <1>2, <2>2 DEF ProbeFails
  <2> QED
    BY <1>0, <1>2, <2>3, PeerTypes DEF ProbeFails, AgentTypeOK
<1>3. CASE ProbeSucceeds(s, c)
  <2>2. Append(opened[s][c], SessionOpenOK(c)) \in Seq(Packet)
    BY <1>0, PacketsMade
  <2>3. opened' \in [AgentStreams -> [ClientStreams -> Seq(Packet)]]
    BY <1>1, <1>3, <2>2 DEF ProbeSucceeds
  <2> QED
    BY <1>0, <1>3, <2>3, PeerTypes DEF ProbeSucceeds, AgentTypeOK
<1>4. CASE ProbeSend(s, c)
  <2>2. Head(opened[s][c]) \in Packet /\ Tail(opened[s][c]) \in Seq(Packet)
    BY <1>0, <1>4 DEF ProbeSend
  <2>3. opened' \in [AgentStreams -> [ClientStreams -> Seq(Packet)]]
    BY <1>1, <1>4, <2>2 DEF ProbeSend
  <2>4. TransportTypeOK'
    BY <1>0, <1>4, <2>2, PeerTypes DEF ProbeSend
  <2> QED
    BY <1>4, <2>3, <2>4 DEF ProbeSend, AgentTypeOK
<1> QED
  BY <1>2, <1>3, <1>4 DEF ProbeStep

\* The start and the crash of an agent, and the end of a command, keep the types.
LEMMA AgentStartTypes ==
    ASSUME TransportTypeOK, AgentTypeOK, NEW s \in AgentStreams,
           AgentStart(s) \/ AgentCrash(s) \/ CommandEnds(s)
    PROVE  TransportTypeOK' /\ AgentTypeOK'
<1>0. s \in Streams
  BY DEF Streams
<1>1. CASE AgentStart(s)
  BY <1>0, <1>1, PeerTypes DEF AgentStart, AgentTypeOK
<1>2. CASE AgentCrash(s)
  BY <1>0, <1>2, PeerTypes DEF AgentCrash, AgentTypeOK
<1>3. CASE CommandEnds(s)
  BY <1>0, <1>3, PeerTypes DEF CommandEnds, AgentTypeOK
<1> QED
  BY <1>1, <1>2, <1>3

=============================================================================
