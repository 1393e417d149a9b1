---------------------------- MODULE AgentProofs ----------------------------
(***************************************************************************)
(* Theorems about the agent's controller with the most general gateway.    *)
(***************************************************************************)
EXTENDS AgentPeers, AgentLemmas

\* Every packet for an agent is addressed to a session.
FromGateway ==
    \A s \in AgentStreams : \A i \in DOMAIN fromGw[s] : fromGw[s][i].sid \in ClientStreams

\* A probe goroutine answers only for its own session.
ProbesOwn ==
    \A s \in AgentStreams, c \in ClientStreams : \A p \in Items(opened[s][c]) : p.sid = c

\* The inductive invariant.
IInv == TypeOK /\ FromGateway /\ ProbesOwn /\ ParamsBeforeOpenOK /\ ProxiesHaveParams

\* The packet the loop is about to handle.
LEMMA FrontType ==
    ASSUME TypeOK, FromGateway, NEW s \in AgentStreams, fromGw[s] # << >>
    PROVE  Front(s) \in Packet /\ Front(s).sid \in ClientStreams /\ Addressed(Front(s))
<1>1. fromGw[s] \in Seq(Packet) /\ 1 \in DOMAIN fromGw[s] /\ Front(s) = fromGw[s][1]
  BY DEF TypeOK, TransportTypeOK, Streams, Front
<1> QED
  BY <1>1 DEF FromGateway, Addressed

\* What the gateway sends is a packet of some session.
LEMMA GatewayPackets ==
    ASSUME NEW s, GatewaySends(s)
    PROVE  \E p \in Packet : p.sid \in ClientStreams /\ fromGw' = Put(fromGw, s, p)
<1>1. PICK type \in AgentPacketTypes \ {"AgentTCPConnectionWrite"},
           c \in ClientStreams, k \in ConnIds \cup {None} : \E q \in {c, None} :
             fromGw' = Put(fromGw, s, [type |-> type, sid |-> c, conn |-> k,
                                       body |-> [query |-> q, code |-> None]])
  BY DEF GatewaySends
<1>2. PICK q \in {c, None} :
             fromGw' = Put(fromGw, s, [type |-> type, sid |-> c, conn |-> k,
                                       body |-> [query |-> q, code |-> None]])
  BY <1>1
<1>3. [query |-> q, code |-> None] \in Bodies
  BY BodiesAssumption DEF AgentBodies
<1>4. [type |-> type, sid |-> c, conn |-> k, body |-> [query |-> q, code |-> None]] \in Packet
  BY <1>3 DEF Packet, PacketTypes
<1> QED
  BY <1>2, <1>4

\* The types and the addresses are kept by every step.
LEMMA TypesStep ==
    ASSUME TypeOK, FromGateway, [Next]_vars
    PROVE  TypeOK' /\ FromGateway'
<1>0. /\ TransportTypeOK /\ AgentTypeOK
      /\ \A s \in AgentStreams : s \in Streams /\ fromGw[s] \in Seq(Packet)
  BY DEF TypeOK, TransportTypeOK, Streams
<1>1. ASSUME UNCHANGED <<sentTo, asked>>, TransportTypeOK', AgentTypeOK'
      PROVE  TypeOK'
  BY <1>1 DEF TypeOK
<1>2. ASSUME UNCHANGED fromGw
      PROVE  FromGateway'
  BY <1>2 DEF FromGateway
<1>3. ASSUME NEW s \in AgentStreams, PeerRecv(s)
      PROVE  FromGateway'
  <2>1. fromGw[s] # << >> /\ fromGw' = [fromGw EXCEPT ![s] = Tail(fromGw[s])]
    BY <1>3 DEF PeerRecv, Take
  <2>2. \A i \in DOMAIN Tail(fromGw[s]) :
            i + 1 \in DOMAIN fromGw[s] /\ Tail(fromGw[s])[i] = fromGw[s][i + 1]
    BY <1>0, <2>1
  <2> QED
    BY <1>0, <2>1, <2>2 DEF FromGateway, TransportTypeOK
<1>4. CASE UNCHANGED vars
  BY <1>0, <1>2, <1>4 DEF vars, transportVars, agentVars, TypeOK, TransportTypeOK, AgentTypeOK
<1>5. ASSUME NEW s \in AgentStreams, GatewaySends(s)
      PROVE  TypeOK' /\ FromGateway'
  <2>1. PICK p \in Packet : p.sid \in ClientStreams /\ fromGw' = Put(fromGw, s, p)
    BY <1>5, GatewayPackets
  <2>2. fromGw' \in [Streams -> Seq(Packet)]
    BY <1>0, <2>1, QueueTypes DEF TransportTypeOK
  <2>3. asked' \subseteq AgentStreams \X ClientStreams
    BY <1>5 DEF GatewaySends, TypeOK
  <2>4. sentTo' \in [AgentStreams -> 0..MaxPackets]
    <3>1. sentTo[s] \in 0..MaxPackets /\ sentTo[s] < MaxPackets /\ MaxPackets \in Nat
      BY <1>5, MaxPacketsAssumption DEF GatewaySends, TypeOK
    <3>2. sentTo[s] + 1 \in 0..MaxPackets
      BY <3>1
    <3> QED
      BY <1>5, <3>2 DEF GatewaySends, TypeOK
  <2>5. link' = link /\ toGw' = toGw /\ UNCHANGED agentVars
    BY <1>5 DEF GatewaySends
  <2>6. TransportTypeOK'
    BY <1>0, <2>2, <2>5 DEF TransportTypeOK
  <2>7. AgentTypeOK'
    BY <1>0, <2>5 DEF AgentTypeOK, agentVars
  <2>8. TypeOK'
    BY <2>3, <2>4, <2>6, <2>7 DEF TypeOK
  <2>9. FromGateway'
    <3>1. \A i \in DOMAIN Append(fromGw[s], p) :
              \/ i \in DOMAIN fromGw[s] /\ Append(fromGw[s], p)[i] = fromGw[s][i]
              \/ Append(fromGw[s], p)[i] = p
      BY <1>0
    <3>2. fromGw' = [fromGw EXCEPT ![s] = Append(fromGw[s], p)]
      BY <2>1 DEF Put
    <3> QED
      BY <1>0, <2>1, <3>1, <3>2 DEF FromGateway, TransportTypeOK
  <2> QED
    BY <2>8, <2>9
<1>6. ASSUME NEW s \in AgentStreams, GatewayReceives(s)
      PROVE  TypeOK' /\ FromGateway'
  <2>1. toGw' \in [Streams -> Seq(Packet)]
    BY <1>0, <1>6, QueueTypes DEF GatewayReceives, TransportTypeOK
  <2>2. UNCHANGED <<link, fromGw, agentVars, sentTo, asked>>
    BY <1>6 DEF GatewayReceives
  <2>3. TransportTypeOK' /\ AgentTypeOK'
    BY <1>0, <2>1, <2>2 DEF TransportTypeOK, AgentTypeOK, agentVars
  <2> QED
    BY <1>1, <1>2, <2>2, <2>3
<1>7. ASSUME NEW s \in AgentStreams, StreamBreaks(s)
      PROVE  TypeOK' /\ FromGateway'
  <2>1. TransportTypeOK' /\ UNCHANGED fromGw
    BY <1>0, <1>7, PeerTypes DEF StreamBreaks, Break
  <2>2. AgentTypeOK'
    BY <1>0, <1>7 DEF StreamBreaks, agentVars, AgentTypeOK
  <2> QED
    BY <1>1, <1>2, <1>7, <2>1, <2>2 DEF StreamBreaks
<1>8. ASSUME NEW s \in AgentStreams, AgentStart(s), UNCHANGED <<sentTo, asked>>
      PROVE  TypeOK' /\ FromGateway'
  BY <1>0, <1>1, <1>2, <1>8, AgentStartTypes DEF AgentStart, Dial
<1>9. ASSUME NEW s \in AgentStreams, KeepAlive(s), UNCHANGED <<sentTo, asked>>
      PROVE  TypeOK' /\ FromGateway'
  <2> DEFINE p == [type |-> "GatewayKeepAlive", sid |-> None, conn |-> None,
                   body |-> [query |-> None, code |-> None]]
  <2>1. [query |-> None, code |-> None] \in Bodies
    BY BodiesAssumption DEF AgentBodies
  <2>2. p \in Packet
    BY <2>1 DEF Packet, PacketTypes
  <2>3. PeerSend(s, p) /\ UNCHANGED agentVars
    BY <1>9 DEF KeepAlive
  <2> HIDE DEF p
  <2>4. TransportTypeOK' /\ AgentTypeOK' /\ UNCHANGED fromGw
    BY <1>0, <2>2, <2>3, PeerTypes DEF PeerSend, agentVars, AgentTypeOK
  <2> QED
    BY <1>1, <1>2, <1>9, <2>4
<1>10. ASSUME NEW s \in AgentStreams, RunStep(s), UNCHANGED <<sentTo, asked>>
       PROVE  TypeOK' /\ FromGateway'
  <2>1. fromGw[s] # << >> => Addressed(Front(s))
    BY FrontType
  <2>2. TransportTypeOK' /\ AgentTypeOK'
    BY <1>0, <1>10, <2>1, RunStepTypes
  <2>3. PeerRecv(s) \/ UNCHANGED fromGw
    BY <1>0, <1>10, <2>1, RunStepCases, QueryReplies
       DEF AgentSend, AgentRunReturns, SessionOpenFails, ProcessSessionOpen, Handles, Takes, Serves,
           PeerSend, transportVars
  <2> QED
    BY <1>1, <1>2, <1>3, <1>10, <2>2, <2>3
<1>11. ASSUME NEW s \in AgentStreams, NEW c \in ClientStreams, ProbeStep(s, c),
              UNCHANGED <<sentTo, asked>>
       PROVE  TypeOK' /\ FromGateway'
  <2>1. TransportTypeOK' /\ AgentTypeOK'
    BY <1>0, <1>11, ProbeStepTypes
  <2>2. UNCHANGED fromGw
    BY <1>11 DEF ProbeStep, ProbeFails, ProbeSucceeds, ProbeSend, PeerSend, transportVars
  <2> QED
    BY <1>1, <1>2, <1>11, <2>1, <2>2
<1>12. ASSUME NEW s \in AgentStreams, CommandEnds(s), UNCHANGED <<sentTo, asked>>
       PROVE  TypeOK' /\ FromGateway'
  BY <1>0, <1>1, <1>2, <1>12, AgentStartTypes DEF CommandEnds, transportVars
<1> QED
  BY <1>4, <1>5, <1>6, <1>7, <1>8, <1>9, <1>10, <1>11, <1>12 DEF Next, AgentDoes

\* The types are an invariant.
THEOREM Typing == Spec => []TypeOK
<1>1. Init => TypeOK /\ FromGateway
  <2> SUFFICES ASSUME Init
               PROVE  TypeOK /\ FromGateway
    OBVIOUS
  <2>1. TransportTypeOK
    BY DEF Init, TransportInit, TransportTypeOK, LinkState
  <2>2. AgentTypeOK
    BY AgentAssumption DEF Init, AgentInit, AgentTypeOK
  <2>3. sentTo \in [AgentStreams -> 0..MaxPackets] /\ asked \subseteq AgentStreams \X ClientStreams
    BY MaxPacketsAssumption DEF Init
  <2>4. FromGateway
    BY DEF Init, TransportInit, FromGateway, Streams
  <2> QED
    BY <2>1, <2>2, <2>3, <2>4 DEF TypeOK
<1> QED
  BY <1>1, TypesStep, PTL DEF Spec

-----------------------------------------------------------------------------
(* The connection parameters *)

\* What is in a queue after a packet was put in or taken out.
LEMMA ItemsOf ==
    ASSUME NEW q \in Seq(Packet)
    PROVE  /\ \A p \in Packet : Items(Append(q, p)) = Items(q) \cup {p}
           /\ q # << >> => Head(q) \in Items(q) /\ Items(Tail(q)) \subseteq Items(q)
           /\ \A p, r \in Packet : Items(q \o <<p, r>>) = Items(q) \cup {p, r}
<1>1. ASSUME NEW p \in Packet
      PROVE  Items(Append(q, p)) = Items(q) \cup {p}
  <2>1. /\ DOMAIN Append(q, p) = DOMAIN q \cup {Len(q) + 1}
        /\ \A i \in DOMAIN q : Append(q, p)[i] = q[i]
        /\ Append(q, p)[Len(q) + 1] = p
    OBVIOUS
  <2> QED
    BY <2>1 DEF Items
<1>2. ASSUME q # << >>
      PROVE  Head(q) \in Items(q) /\ Items(Tail(q)) \subseteq Items(q)
  <2>1. 1 \in DOMAIN q /\ Head(q) = q[1]
    BY <1>2
  <2>2. \A i \in DOMAIN Tail(q) : i + 1 \in DOMAIN q /\ Tail(q)[i] = q[i + 1]
    BY <1>2
  <2> QED
    BY <2>1, <2>2 DEF Items
<1>3. ASSUME NEW p \in Packet, NEW r \in Packet
      PROVE  Items(q \o <<p, r>>) = Items(q) \cup {p, r}
  <2>0. <<p, r>> \in Seq(Packet) /\ Len(<<p, r>>) = 2 /\ Len(q) \in Nat
    OBVIOUS
  <2>1. /\ q \o <<p, r>> \in Seq(Packet) /\ Len(q \o <<p, r>>) = Len(q) + 2
        /\ \A i \in 1..Len(q) + 2 : (q \o <<p, r>>)[i] =
              IF i <= Len(q) THEN q[i] ELSE <<p, r>>[i - Len(q)]
    BY <2>0, ConcatProperties
  <2>2. /\ DOMAIN (q \o <<p, r>>) = DOMAIN q \cup {Len(q) + 1, Len(q) + 2}
        /\ \A i \in DOMAIN q : (q \o <<p, r>>)[i] = q[i]
    BY <2>0, <2>1
  <2>3. (q \o <<p, r>>)[Len(q) + 1] = p
    <3>1. (Len(q) + 1) - Len(q) = 1 /\ ~(Len(q) + 1 <= Len(q)) /\ Len(q) + 1 \in 1..Len(q) + 2
      BY <2>0
    <3> QED
      BY <2>1, <3>1
  <2>4. (q \o <<p, r>>)[Len(q) + 2] = r
    <3>1. (Len(q) + 2) - Len(q) = 2 /\ ~(Len(q) + 2 <= Len(q)) /\ Len(q) + 2 \in 1..Len(q) + 2
      BY <2>0
    <3> QED
      BY <2>1, <3>1
  <2> QED
    BY <2>2, <2>3, <2>4 DEF Items
<1> QED
  BY <1>1, <1>2, <1>3

\* An open session is only announced by SessionOpenOK.
LEMMA OpenOKDiffers ==
    ASSUME NEW c, NEW d, NEW code, NEW p,
           NEW reply \in {"ClientMySQLConnectionWrite", "ClientMongoDBConnectionWrite"}
    PROVE  /\ SessionOpenOK(c) # SessionClose(d, code)
           /\ SessionOpenOK(c) # WriteReply(p, reply)
           /\ SessionOpenOK(c) = SessionOpenOK(d) => c = d
           /\ SessionOpenOK(c).sid = c /\ SessionClose(d, code).sid = d
<1>1. /\ SessionOpenOK(c).type = "ClientSessionOpenOK" /\ SessionOpenOK(c).sid = c
      /\ SessionOpenOK(d).sid = d /\ SessionClose(d, code).sid = d
      /\ SessionClose(d, code).type = "ClientSessionClose"
      /\ WriteReply(p, reply).type = reply
  BY DEF SessionOpenOK, SessionClose, WriteReply
<1> QED
  BY <1>1

\* SessionOpenOK of session c is on its way on stream s.
Announced(s, c) ==
    \/ SessionOpenOK(c) \in Items(toGw[s]) \/ SessionOpenOK(c) \in Items(outbox[s])
    \/ SessionOpenOK(c) \in Items(opened[s][c])

\* The invariant in terms of where SessionOpenOK is.
LEMMA ParamsBefore ==
    ParamsBeforeOpenOK <=> \A s \in AgentStreams, c \in ClientStreams :
                               c \in probing[s] \/ Announced(s, c) => c \in params[s]
<1>1. \A s, c : SessionOpenOK(c) \in Said(s, c) <=> Announced(s, c)
  BY OpenOKDiffers DEF Said, Announced
<1> QED
  BY <1>1 DEF ParamsBeforeOpenOK

\* A step that announces nothing new, or only what has parameters, and deletes
\* no parameters.
LEMMA ParamsKept ==
    ASSUME ParamsBeforeOpenOK, NEW s \in AgentStreams,
           \A t \in AgentStreams : params[t] \subseteq params'[t],
           \A c \in ClientStreams : \/ ~(c \in probing'[s] \/ Announced(s, c)')
                                    \/ c \in probing[s] \/ Announced(s, c) \/ c \in params'[s],
           \A t \in AgentStreams : t # s =>
               /\ probing'[t] = probing[t] /\ toGw'[t] = toGw[t] /\ outbox'[t] = outbox[t]
               /\ opened'[t] = opened[t]
    PROVE  ParamsBeforeOpenOK'
<1>1. \A t \in AgentStreams, c \in ClientStreams :
          c \in probing[t] \/ Announced(t, c) => c \in params[t]
  BY ParamsBefore
<1>2. \A t \in AgentStreams, c \in ClientStreams :
          c \in probing'[t] \/ Announced(t, c)' => c \in params'[t]
  <2> SUFFICES ASSUME NEW t \in AgentStreams, NEW c \in ClientStreams,
                      c \in probing'[t] \/ Announced(t, c)'
               PROVE  c \in params'[t]
    OBVIOUS
  <2>1. CASE t = s
    BY <1>1, <2>1
  <2>2. CASE t # s
    <3>1. c \in probing[t] \/ Announced(t, c)
      BY <2>2 DEF Announced
    <3> QED
      BY <1>1, <3>1
  <2> QED
    BY <2>1, <2>2
<1>3. \A t, c : SessionOpenOK(c) \in Said(t, c)' <=> Announced(t, c)'
  BY OpenOKDiffers DEF Said, Announced
<1> QED
  BY <1>2, <1>3 DEF ParamsBeforeOpenOK

\* The queues of an agent.
LEMMA AgentQueues ==
    ASSUME TypeOK, NEW s \in AgentStreams
    PROVE  /\ s \in Streams /\ toGw \in [Streams -> Seq(Packet)] /\ toGw[s] \in Seq(Packet)
           /\ outbox \in [AgentStreams -> Seq(Packet)] /\ outbox[s] \in Seq(Packet)
           /\ \A c \in ClientStreams : opened[s][c] \in Seq(Packet)
           /\ opened \in [AgentStreams -> [ClientStreams -> Seq(Packet)]]
           /\ params \in [AgentStreams -> SUBSET ClientStreams]
           /\ probing \in [AgentStreams -> SUBSET ClientStreams]
           /\ proxies \in [AgentStreams -> SUBSET (ClientStreams \X ProxyKeys)]
BY DEF TypeOK, TransportTypeOK, AgentTypeOK, Streams

\* A packet that was sent, or not because the stream is not open any more.
LEMMA Sends ==
    ASSUME TypeOK, NEW s \in AgentStreams, NEW p \in Packet,
           PeerSend(s, p) \/ UNCHANGED transportVars
    PROVE  /\ Items(toGw'[s]) \subseteq Items(toGw[s]) \cup {p}
           /\ \A t \in AgentStreams : t # s => toGw'[t] = toGw[t]
<1>1. CASE PeerSend(s, p)
  <2>1. toGw' = [toGw EXCEPT ![s] = Append(toGw[s], p)]
    BY <1>1 DEF PeerSend, Put
  <2> QED
    BY <2>1, AgentQueues, ItemsOf
<1>2. CASE UNCHANGED transportVars
  BY <1>2 DEF transportVars
<1> QED
  BY <1>1, <1>2

\* A handler of the loop leaves nothing in the outbox that announces a session.
LEMMA HandlersAnnounceNothing ==
    ASSUME TypeOK, FromGateway, NEW s \in AgentStreams,
           SessionOpenFails(s) \/ ProcessSessionOpen(s) \/ Queries(s) \/ Serves(s)
    PROVE  /\ PeerRecv(s) /\ UNCHANGED <<toGw, opened>>
           /\ \A c : SessionOpenOK(c) \notin Items(outbox'[s])
           /\ \A t \in AgentStreams : t # s => outbox'[t] = outbox[t]
           /\ \/ UNCHANGED <<params, probing>>
              \/ /\ params' = [params EXCEPT ![s] = @ \cup {Front(s).sid}]
                 /\ probing' = [probing EXCEPT ![s] = @ \cup {Front(s).sid}]
                 /\ UNCHANGED proxies
<1>0. \A x, y : Items(<<x>>) = {x} /\ Items(<<x, y>>) = {x, y} /\ Items(<< >>) = {}
  BY DEF Items
<1>a. /\ \A c, d, code : SessionOpenOK(c) # SessionClose(d, code)
      /\ \A c, p : \A reply \in {"ClientMySQLConnectionWrite", "ClientMongoDBConnectionWrite"} :
            SessionOpenOK(c) # WriteReply(p, reply)
  BY OpenOKDiffers
<1>b. ASSUME NEW q, outbox' = [outbox EXCEPT ![s] = q]
      PROVE  outbox'[s] = q /\ \A t \in AgentStreams : t # s => outbox'[t] = outbox[t]
  BY <1>b, AgentQueues
<1>1. CASE SessionOpenFails(s)
  <2>1. /\ PeerRecv(s) /\ UNCHANGED <<params, probing, opened>>
        /\ outbox' = [outbox EXCEPT ![s] = <<SessionClose(Front(s).sid, "254"),
                                             SessionClose(Front(s).sid, "254")>>]
    BY <1>1 DEF SessionOpenFails, Handles, Takes, Replies, Front
  <2>2. outbox'[s] = <<SessionClose(Front(s).sid, "254"), SessionClose(Front(s).sid, "254")>>
        /\ \A t \in AgentStreams : t # s => outbox'[t] = outbox[t]
    BY <1>b, <2>1
  <2>3. Items(outbox'[s]) = {SessionClose(Front(s).sid, "254")}
    BY <1>0, <2>2
  <2> QED
    BY <1>a, <2>1, <2>2, <2>3 DEF PeerRecv
<1>2. CASE ProcessSessionOpen(s)
  BY <1>0, <1>2, AgentQueues DEF ProcessSessionOpen, Handles, Takes, Front, PeerRecv
<1>3. CASE Queries(s)
  <2>1. /\ PeerRecv(s) /\ UNCHANGED <<params, probing, opened>>
        /\ \E reply \in {"ClientMySQLConnectionWrite", "ClientMongoDBConnectionWrite"},
              code \in {"0", "1"} :
             \/ outbox' = [outbox EXCEPT ![s] = <<SessionClose(Front(s).sid, code)>>]
             \/ outbox' = [outbox EXCEPT ![s] = <<WriteReply(Front(s), reply),
                                                  SessionClose(Front(s).sid, code)>>]
    BY <1>3, QueryReplies
  <2>2. PICK reply \in {"ClientMySQLConnectionWrite", "ClientMongoDBConnectionWrite"},
             code \in {"0", "1"} :
          \/ outbox' = [outbox EXCEPT ![s] = <<SessionClose(Front(s).sid, code)>>]
          \/ outbox' = [outbox EXCEPT ![s] = <<WriteReply(Front(s), reply),
                                               SessionClose(Front(s).sid, code)>>]
    BY <2>1
  <2>3. /\ \/ outbox'[s] = <<SessionClose(Front(s).sid, code)>>
           \/ outbox'[s] = <<WriteReply(Front(s), reply), SessionClose(Front(s).sid, code)>>
        /\ \A t \in AgentStreams : t # s => outbox'[t] = outbox[t]
    BY <1>b, <2>2
  <2>4. Items(outbox'[s]) \subseteq {SessionClose(Front(s).sid, code), WriteReply(Front(s), reply)}
    <3>1. CASE outbox'[s] = <<SessionClose(Front(s).sid, code)>>
      BY <1>0, <3>1
    <3>2. CASE outbox'[s] = <<WriteReply(Front(s), reply), SessionClose(Front(s).sid, code)>>
      BY <1>0, <3>2
    <3> QED
      BY <2>3, <3>1, <3>2
  <2> QED
    BY <1>a, <2>1, <2>3, <2>4 DEF PeerRecv
<1>4. CASE Serves(s)
  <2>1. /\ PeerRecv(s) /\ UNCHANGED <<params, probing, opened>> /\ outbox[s] = << >>
        /\ \/ outbox' = outbox
           \/ \E code \in {"1", "254"} :
                outbox' = [outbox EXCEPT ![s] = <<SessionClose(Front(s).sid, code)>>]
    BY <1>4 DEF Serves
  <2>2. CASE outbox' = outbox
    BY <1>0, <1>a, <2>1, <2>2 DEF PeerRecv
  <2>3. CASE \E code \in {"1", "254"} :
               outbox' = [outbox EXCEPT ![s] = <<SessionClose(Front(s).sid, code)>>]
    <3>1. PICK code \in {"1", "254"} :
               outbox' = [outbox EXCEPT ![s] = <<SessionClose(Front(s).sid, code)>>]
      BY <2>3
    <3>2. /\ outbox'[s] = <<SessionClose(Front(s).sid, code)>>
          /\ \A t \in AgentStreams : t # s => outbox'[t] = outbox[t]
      BY <1>b, <3>1
    <3>3. Items(outbox'[s]) = {SessionClose(Front(s).sid, code)}
      BY <1>0, <3>2
    <3> QED
      BY <1>a, <2>1, <3>2, <3>3 DEF PeerRecv
  <2> QED
    BY <2>1, <2>2, <2>3
<1> QED
  BY <1>1, <1>2, <1>3, <1>4

\* Parameters are stored before, and stay as long as, a session is announced.
LEMMA ParamsStep ==
    ASSUME TypeOK, FromGateway, ProbesOwn, ParamsBeforeOpenOK, [Next]_vars
    PROVE  ParamsBeforeOpenOK' /\ ProbesOwn'
<1>0. \A s \in AgentStreams : /\ toGw[s] \in Seq(Packet) /\ outbox[s] \in Seq(Packet)
                              /\ \A c \in ClientStreams : opened[s][c] \in Seq(Packet)
  BY AgentQueues
<1>1. ASSUME UNCHANGED opened PROVE ProbesOwn'
  BY <1>1 DEF ProbesOwn
<1>2. ASSUME NEW s \in AgentStreams, UNCHANGED <<params, probing, outbox, opened>>,
             \A t \in AgentStreams : t # s => toGw'[t] = toGw[t],
             \A c : SessionOpenOK(c) \in Items(toGw'[s]) => SessionOpenOK(c) \in Items(toGw[s])
      PROVE  ParamsBeforeOpenOK' /\ ProbesOwn'
  BY <1>1, <1>2, ParamsKept DEF Announced
<1>3. CASE UNCHANGED vars
  BY <1>1, <1>3 DEF vars, transportVars, agentVars, ParamsBeforeOpenOK, Said
<1>4. ASSUME NEW s \in AgentStreams,
             GatewaySends(s) \/ StreamBreaks(s) \/ AgentStart(s) \/ CommandEnds(s)
      PROVE  ParamsBeforeOpenOK' /\ ProbesOwn'
  BY <1>2, <1>4 DEF GatewaySends, StreamBreaks, AgentStart, CommandEnds, Dial, Break, agentVars,
                    transportVars
<1>5. ASSUME NEW s \in AgentStreams, GatewayReceives(s)
      PROVE  ParamsBeforeOpenOK' /\ ProbesOwn'
  <2>1. /\ toGw[s] # << >> /\ toGw' = [toGw EXCEPT ![s] = Tail(toGw[s])]
        /\ UNCHANGED <<params, probing, outbox, opened>>
    BY <1>5 DEF GatewayReceives, Take, agentVars
  <2> QED
    BY <1>0, <1>2, <2>1, AgentQueues, ItemsOf
<1>6. ASSUME NEW s \in AgentStreams, KeepAlive(s)
      PROVE  ParamsBeforeOpenOK' /\ ProbesOwn'
  <2> DEFINE p == [type |-> "GatewayKeepAlive", sid |-> None, conn |-> None,
                   body |-> [query |-> None, code |-> None]]
  <2>1. [query |-> None, code |-> None] \in Bodies
    BY BodiesAssumption DEF AgentBodies
  <2>2. p \in Packet
    BY <2>1 DEF Packet, PacketTypes
  <2>3. \A c : SessionOpenOK(c).type # p.type
    BY DEF SessionOpenOK
  <2>4. PeerSend(s, p) /\ UNCHANGED <<params, probing, outbox, opened>>
    BY <1>6 DEF KeepAlive, agentVars
  <2> HIDE DEF p
  <2> QED
    BY <1>2, <2>2, <2>3, <2>4, Sends
<1>7. ASSUME NEW s \in AgentStreams, AgentSend(s)
      PROVE  ParamsBeforeOpenOK' /\ ProbesOwn'
  <2>1. /\ outbox[s] # << >> /\ outbox' = [outbox EXCEPT ![s] = Tail(outbox[s])]
        /\ UNCHANGED <<params, probing, opened>>
        /\ PeerSend(s, Head(outbox[s])) \/ UNCHANGED transportVars
    BY <1>7 DEF AgentSend
  <2>2. Head(outbox[s]) \in Packet /\ Head(outbox[s]) \in Items(outbox[s])
    BY <1>0, <2>1, ItemsOf
  <2>3. /\ Items(toGw'[s]) \subseteq Items(toGw[s]) \cup {Head(outbox[s])}
        /\ \A t \in AgentStreams : t # s => toGw'[t] = toGw[t]
    BY <2>1, <2>2, Sends
  <2>4. Items(outbox'[s]) \subseteq Items(outbox[s])
    BY <1>0, <2>1, ItemsOf, AgentQueues
  <2>5. \A c : Announced(s, c)' => Announced(s, c)
    BY <2>1, <2>2, <2>3, <2>4 DEF Announced
  <2>6. \A t \in AgentStreams : t # s => outbox'[t] = outbox[t]
    BY <2>1
  <2> QED
    BY <1>1, <2>1, <2>3, <2>5, <2>6, ParamsKept
<1>8. ASSUME NEW s \in AgentStreams,
             SessionOpenFails(s) \/ ProcessSessionOpen(s) \/ Queries(s) \/ Serves(s)
      PROVE  ParamsBeforeOpenOK' /\ ProbesOwn'
  <2>1. /\ PeerRecv(s) /\ UNCHANGED <<toGw, opened>>
        /\ \A c : SessionOpenOK(c) \notin Items(outbox'[s])
        /\ \A t \in AgentStreams : t # s => outbox'[t] = outbox[t]
        /\ \/ UNCHANGED <<params, probing>>
           \/ /\ params' = [params EXCEPT ![s] = @ \cup {Front(s).sid}]
              /\ probing' = [probing EXCEPT ![s] = @ \cup {Front(s).sid}]
    BY <1>8, HandlersAnnounceNothing
  <2>2. \A c : Announced(s, c)' => Announced(s, c)
    BY <2>1 DEF Announced
  <2>3. /\ \A t \in AgentStreams : params[t] \subseteq params'[t]
        /\ \A t \in AgentStreams : t # s => probing'[t] = probing[t]
        /\ \A c \in ClientStreams : c \in probing'[s] => c \in probing[s] \/ c \in params'[s]
    BY <2>1, AgentQueues
  <2> QED
    BY <1>1, <2>1, <2>2, <2>3, ParamsKept
<1>9. ASSUME NEW s \in AgentStreams, RunStep(s)
      PROVE  ParamsBeforeOpenOK' /\ ProbesOwn'
  <2>1. TransportTypeOK /\ AgentTypeOK /\ (fromGw[s] # << >> => Addressed(Front(s)))
    BY FrontType DEF TypeOK
  <2>2. CASE AgentRunReturns(s)
    BY <1>2, <2>2 DEF AgentRunReturns, transportVars
  <2> QED
    BY <1>7, <1>8, <1>9, <2>1, <2>2, RunStepCases
<1>10. ASSUME NEW s \in AgentStreams, NEW c \in ClientStreams, ProbeStep(s, c)
       PROVE  ParamsBeforeOpenOK' /\ ProbesOwn'
  <2>0. /\ UNCHANGED <<params, outbox>>
        /\ \A t \in AgentStreams : t # s => probing'[t] = probing[t] /\ opened'[t] = opened[t]
        /\ \A d \in ClientStreams : d # c => opened'[s][d] = opened[s][d]
        /\ probing'[s] \subseteq probing[s]
    BY <1>10, AgentQueues DEF ProbeStep, ProbeFails, ProbeSucceeds, ProbeSend
  <2>1. ASSUME /\ c \in probing[s] /\ UNCHANGED transportVars
               /\ \E code : Items(opened'[s][c]) \subseteq
                              Items(opened[s][c]) \cup {SessionClose(c, code), SessionOpenOK(c)}
        PROVE  ParamsBeforeOpenOK' /\ ProbesOwn'
    <3>1. \A d \in ClientStreams : Announced(s, d)' => Announced(s, d) \/ d = c
      BY <2>0, <2>1 DEF Announced, transportVars
    <3>2. ParamsBeforeOpenOK'
      BY <2>0, <2>1, <3>1, ParamsKept DEF transportVars, ParamsBeforeOpenOK
    <3>3. \A p \in Items(opened'[s][c]) : p.sid = c
      BY <2>1, OpenOKDiffers DEF ProbesOwn
    <3>4. ProbesOwn'
      BY <2>0, <3>3 DEF ProbesOwn
    <3> QED
      BY <3>2, <3>4
  <2>2. CASE ProbeFails(s, c)
    <3>1. /\ c \in probing[s] /\ UNCHANGED transportVars
          /\ opened' = [opened EXCEPT ![s][c] =
                            opened[s][c] \o <<SessionClose(c, "254"), SessionOpenOK(c)>>]
      BY <2>2 DEF ProbeFails
    <3>2. opened'[s][c] = opened[s][c] \o <<SessionClose(c, "254"), SessionOpenOK(c)>>
      BY <3>1, AgentQueues
    <3>3. SessionClose(c, "254") \in Packet /\ SessionOpenOK(c) \in Packet
      BY PacketsMade DEF ExitCodes
    <3> QED
      BY <1>0, <2>1, <3>1, <3>2, <3>3, ItemsOf
  <2>3. CASE ProbeSucceeds(s, c)
    <3>1. /\ c \in probing[s] /\ UNCHANGED transportVars
          /\ opened'[s][c] = Append(opened[s][c], SessionOpenOK(c))
      BY <2>3, AgentQueues DEF ProbeSucceeds
    <3>2. Items(opened'[s][c]) = Items(opened[s][c]) \cup {SessionOpenOK(c)}
      BY <1>0, <3>1, ItemsOf, PacketsMade
    <3> QED
      BY <2>1, <3>1, <3>2
  <2>4. CASE ProbeSend(s, c)
    <3> DEFINE p == Head(opened[s][c])
    <3>1. /\ opened[s][c] # << >> /\ opened'[s][c] = Tail(opened[s][c])
          /\ PeerSend(s, p) \/ UNCHANGED transportVars
      BY <2>4, AgentQueues DEF ProbeSend
    <3>2. p \in Packet /\ p \in Items(opened[s][c])
      BY <1>0, <3>1, ItemsOf
    <3>3. p.sid = c
      BY <3>2 DEF ProbesOwn
    <3>4. Items(opened'[s][c]) \subseteq Items(opened[s][c])
      BY <1>0, <3>1, ItemsOf
    <3> HIDE DEF p
    <3>5. /\ Items(toGw'[s]) \subseteq Items(toGw[s]) \cup {p}
          /\ \A t \in AgentStreams : t # s => toGw'[t] = toGw[t]
      BY <3>1, <3>2, Sends
    <3>6. \A d \in ClientStreams : SessionOpenOK(d) = p => d = c
      BY <3>3, OpenOKDiffers
    <3>7. \A d \in ClientStreams : Announced(s, d)' => Announced(s, d)
      BY <2>0, <3>2, <3>4, <3>5, <3>6 DEF Announced
    <3>8. ParamsBeforeOpenOK'
      BY <2>0, <3>5, <3>7, ParamsKept
    <3>9. ProbesOwn'
      BY <2>0, <3>4 DEF ProbesOwn
    <3> QED
      BY <3>8, <3>9
  <2> QED
    BY <1>10, <2>2, <2>3, <2>4 DEF ProbeStep
<1> QED
  BY <1>3, <1>4, <1>5, <1>6, <1>9, <1>10 DEF Next, AgentDoes

\* Entries are only stored for sessions whose parameters are stored.
LEMMA ProxiesStep ==
    ASSUME TypeOK, FromGateway, ProxiesHaveParams, [Next]_vars
    PROVE  ProxiesHaveParams'
<1>1. ASSUME UNCHANGED <<params, proxies>>
      PROVE  ProxiesHaveParams'
  BY <1>1 DEF ProxiesHaveParams
<1>2. ASSUME NEW s \in AgentStreams, Serves(s)
      PROVE  ProxiesHaveParams'
  <2>1. PICK P : StoreAfter(s, Front(s), P) /\ proxies' = [proxies EXCEPT ![s] = P]
    BY <1>2 DEF Serves
  <2>2. UNCHANGED params
    BY <1>2 DEF Serves
  <2>3. \A e \in P : e[1] \in params[s]
    BY <2>1 DEF StoreAfter, ProxiesHaveParams
  <2> QED
    BY <2>1, <2>2, <2>3, AgentQueues DEF ProxiesHaveParams
<1>3. ASSUME NEW s \in AgentStreams, ProcessSessionOpen(s)
      PROVE  ProxiesHaveParams'
  BY <1>3, AgentQueues DEF ProcessSessionOpen, ProxiesHaveParams
<1>4. ASSUME NEW s \in AgentStreams, RunStep(s)
      PROVE  ProxiesHaveParams'
  <2>1. TransportTypeOK /\ AgentTypeOK /\ (fromGw[s] # << >> => Addressed(Front(s)))
    BY FrontType DEF TypeOK
  <2> QED
    BY <1>1, <1>2, <1>3, <1>4, <2>1, RunStepCases, QueryReplies
       DEF AgentSend, AgentRunReturns, SessionOpenFails
<1> QED
  BY <1>1, <1>4 DEF Next, AgentDoes, vars, agentVars, GatewaySends, GatewayReceives, StreamBreaks,
                    AgentStart, CommandEnds, KeepAlive, ProbeStep, ProbeFails, ProbeSucceeds, ProbeSend

\* The inductive invariant.
LEMMA Invariance == Spec => []IInv
<1>1. Init => ProbesOwn /\ ParamsBeforeOpenOK /\ ProxiesHaveParams
  <2> SUFFICES ASSUME Init
               PROVE  ProbesOwn /\ ParamsBeforeOpenOK /\ ProxiesHaveParams
    OBVIOUS
  <2>1. \A s \in AgentStreams :
          /\ toGw[s] = << >> /\ outbox[s] = << >> /\ probing[s] = {} /\ proxies[s] = {}
          /\ \A c \in ClientStreams : opened[s][c] = << >>
    BY DEF Init, TransportInit, AgentInit, Streams
  <2>2. Items(<< >>) = {}
    BY DEF Items
  <2> QED
    BY <2>1, <2>2 DEF ProbesOwn, ParamsBeforeOpenOK, ProxiesHaveParams, Said
<1>2. Init => FromGateway
  BY DEF Init, TransportInit, FromGateway, Streams
<1>3. IInv /\ [Next]_vars => IInv'
  BY TypesStep, ParamsStep, ProxiesStep DEF IInv
<1> QED
  BY <1>1, <1>2, <1>3, Typing, PTL DEF Spec, IInv

\* The parameters of a session are in the store from before the probe starts
\* until after SessionOpenOK is received, whatever is handled in between.
THEOREM ParamsAvailable == Spec => []ParamsBeforeOpenOK
BY Invariance, PTL DEF IInv

\* Every stored io.Closer belongs to a session whose parameters are stored.
THEOREM StoreHasParams == Spec => []ProxiesHaveParams
BY Invariance, PTL DEF IInv

\* Handling a packet of one session leaves the entries of all others alone,
\* except that SessionClose deletes those whose connection id contains the id of
\* the closed session (agent.go:296): none is added, none is deleted by another
\* packet, and no parameters are touched.
THEOREM SessionIsolation == Spec => SessionsAreIsolated
<1> DEFINE Apart(s) ==
      \A c \in ClientStreams :
        \/ fromGw[s] # << >> /\ c = Current(s)
        \/ /\ c \in params[s] <=> c \in params'[s]
           /\ \A k \in ProxyKeys :
                /\ <<c, k>> \in proxies'[s] => <<c, k>> \in proxies[s]
                /\ <<c, k>> \in proxies[s] =>
                     <<c, k>> \in proxies'[s] \/ TakenBySubstring(s, k)
<1>1. IInv /\ [Next]_vars => [\A s \in AgentStreams : fromGw'[s] # fromGw[s] /\ apc[s] = "run" => Apart(s)]_vars
  <2> SUFFICES ASSUME IInv, [Next]_vars, NEW s \in AgentStreams, fromGw'[s] # fromGw[s]
               PROVE  Apart(s)
    OBVIOUS
  <2>0. TypeOK /\ FromGateway
    BY DEF IInv
  <2>1. CASE params'[s] = params[s] /\ proxies'[s] = proxies[s]
    BY <2>1
  <2>2. ASSUME NEW t \in AgentStreams, RunStep(t)
        PROVE  Apart(s)
    <3>1. TransportTypeOK /\ AgentTypeOK /\ (fromGw[t] # << >> => Addressed(Front(t)))
      BY <2>0, FrontType DEF TypeOK
    <3>2. CASE AgentSend(t) \/ AgentRunReturns(t) \/ SessionOpenFails(t) \/ Queries(t)
      BY <2>1, <3>2, QueryReplies DEF AgentSend, AgentRunReturns, SessionOpenFails
    <3>3. CASE ProcessSessionOpen(t) \/ Serves(t)
      <4>1. fromGw' = [fromGw EXCEPT ![t] = Tail(fromGw[t])] /\ fromGw[t] # << >>
        BY <3>3 DEF ProcessSessionOpen, Handles, Takes, Serves, PeerRecv, Take
      <4>2. s = t
        BY <2>0, <4>1 DEF TypeOK, TransportTypeOK, Streams
      <4>3. CASE ProcessSessionOpen(t)
        BY <2>0, <4>1, <4>2, <4>3, AgentQueues DEF ProcessSessionOpen, Current, Front
      <4>4. CASE Serves(t)
        <5>1. PICK P : StoreAfter(t, Front(t), P) /\ proxies' = [proxies EXCEPT ![t] = P]
          BY <4>4 DEF Serves
        <5>2. UNCHANGED params /\ proxies'[s] = P /\ Front(t) = Front(s) /\ Current(s) = Front(s).sid
          BY <2>0, <4>2, <4>4, <5>1, AgentQueues DEF Serves, Current, Front
        <5>3. ASSUME NEW c \in ClientStreams, NEW k \in ProxyKeys, c # Current(s)
              PROVE  /\ <<c, k>> \in P => <<c, k>> \in proxies[s]
                     /\ <<c, k>> \in proxies[s] => <<c, k>> \in P \/ TakenBySubstring(s, k)
          <6>1. <<c, k>> \in P => <<c, k>> \in proxies[s]
            BY <4>2, <5>1, <5>2, <5>3 DEF StoreAfter
          <6>2. <<c, k>> \in proxies[s] => <<c, k>> \in P \/ Taken(Front(s), <<c, k>>)
            BY <4>2, <5>1, <5>2, <5>3 DEF StoreAfter
          <6>3. Taken(Front(s), <<c, k>>) => TakenBySubstring(s, k)
            BY <5>2, <5>3 DEF Taken, KeyContains, TakenBySubstring, Front, Current
          <6> QED
            BY <6>1, <6>2, <6>3
        <5> QED
          BY <4>1, <4>2, <5>2, <5>3
      <4> QED
        BY <3>3, <4>3, <4>4
    <3> QED
      BY <2>2, <3>1, <3>2, <3>3, RunStepCases
  <2>3. ASSUME UNCHANGED <<params, proxies>>
        PROVE  Apart(s)
    BY <2>1, <2>3
  <2> HIDE DEF Apart
  <2> QED
    BY <2>2, <2>3 DEF Next, AgentDoes, vars, agentVars, GatewaySends, GatewayReceives, StreamBreaks,
                      AgentStart, CommandEnds, KeepAlive, ProbeStep, ProbeFails, ProbeSucceeds, ProbeSend
<1> QED
  BY <1>1, Invariance, PTL DEF Spec, SessionsAreIsolated

=============================================================================
