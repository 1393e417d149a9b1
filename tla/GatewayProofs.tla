---------------------------- MODULE GatewayProofs ----------------------------
(***************************************************************************)
(* Proofs about the gateway with arbitrary peers, for every set of agents, *)
(* clients and ids, every window and every number of packets.              *)
(***************************************************************************)
EXTENDS GatewayPeers, TLAPS

\* What the queue operators do to a typed family of queues.
LEMMA PutType ==
    ASSUME NEW q \in [Streams -> Seq(Packet)], NEW x \in Streams, NEW p \in Packet
    PROVE  /\ Put(q, x, p) \in [Streams -> Seq(Packet)]
           /\ Put(q, x, p)[x] = Append(q[x], p)
           /\ \A y \in Streams : y # x => Put(q, x, p)[y] = q[y]
  BY DEF Put

\* Taking the head of one queue keeps the family's type.
LEMMA TakeType ==
    ASSUME NEW q \in [Streams -> Seq(Packet)], NEW x \in Streams, q[x] # << >>
    PROVE  /\ Take(q, x) \in [Streams -> Seq(Packet)]
           /\ Take(q, x)[x] = Tail(q[x])
           /\ \A y \in Streams : y # x => Take(q, x)[y] = q[y]
           /\ Head(q[x]) \in Packet
           /\ Head(q[x]) = q[x][1]
  BY DEF Take

\* A stream is an agent's or a client's, never both, and never None.
LEMMA StreamKinds ==
    /\ AgentStreams \subseteq Streams /\ ClientStreams \subseteq Streams
    /\ \A s \in AgentStreams, c \in ClientStreams : s # c
    /\ None \notin Streams
  BY StreamsAssumption DEF Streams

\* The fields of a packet, for steps that only need those.
LEMMA PacketParts ==
    ASSUME NEW p \in Packet
    PROVE  /\ p.sid \in ClientStreams \cup {None}
           /\ p.body.n \in 0..MaxSend
           /\ \A c \in ClientStreams : /\ [p EXCEPT !.sid = c] \in Packet
                                       /\ [p EXCEPT !.sid = c].sid = c
                                       /\ [p EXCEPT !.sid = c].body = p.body
  BY PeerBodyAssumption DEF Packet, PeerBody

\* What a peer sends is a packet while it may still send.
LEMMA NextPacketType ==
    ASSUME TypeOK, NEW x \in Streams, sent[x] < MaxSend,
           NEW t \in PacketTypes, NEW c \in ClientStreams \cup {None}
    PROVE  /\ NextPacket(x, t, c) \in Packet
           /\ NextPacket(x, t, c).sid = c
           /\ NextPacket(x, t, c).body.from = x
  BY PeerBodyAssumption, MaxSendAssumption DEF TypeOK, NextPacket, Packet, PeerBody

\* The greeting of an agent is a packet.
LEMMA ConnectOKType ==
    /\ [type |-> "AgentGatewayConnectOK", sid |-> None, conn |-> None,
        body |-> GatewayBody] \in Packet
  BY PeerBodyAssumption, MaxSendAssumption
  DEF Packet, PacketTypes, AgentPacketTypes, PeerBody, GatewayBody

\* The two kinds of steps that leave the handlers alone.
LEMMA PeerStepTypes ==
    ASSUME TypeOK, NEW x \in Streams,
           PeerDials(x) \/ PeerBreaks(x) \/ Receives(x)
           \/ (x \in AgentStreams /\ AgentSends(x))
           \/ (x \in ClientStreams /\ ClientSends(x))
    PROVE  TypeOK' /\ UNCHANGED gatewayVars
<1> USE DEF TypeOK, TransportTypeOK, GatewayTypeOK
<1>1. CASE PeerDials(x)
  BY <1>1 DEF PeerDials, Dial, gatewayVars, LinkState
<1>2. CASE PeerBreaks(x)
  BY <1>2 DEF PeerBreaks, Break, gatewayVars, LinkState
<1>3. CASE Receives(x)
  <2>1. Head(fromGw[x]) \in Packet /\ fromGw' \in [Streams -> Seq(Packet)]
    BY <1>3, TakeType DEF Receives, PeerRecv
  <2>2. seen' \in [Streams -> [ClientStreams -> 0..MaxSend]]
    BY <1>3, <2>1, PacketParts DEF Receives
  <2> QED
    BY <1>3, <2>1, <2>2 DEF Receives, PeerRecv, gatewayVars
<1>4. CASE x \in AgentStreams /\ AgentSends(x)
  <2>1. PICK c \in ClientStreams \cup {None}, t \in PacketTypes :
          PeerSend(x, NextPacket(x, t, c))
    BY <1>4 DEF AgentSends, PacketTypes, ClientPacketTypes
  <2>2. toGw' \in [Streams -> Seq(Packet)] /\ UNCHANGED <<link, fromGw>>
    BY <1>4, <2>1, NextPacketType, PutType DEF AgentSends, PeerSend
  <2>3. sent' \in [Streams -> 0..MaxSend] /\ UNCHANGED <<gatewayVars, seen>>
    BY <1>4, MaxSendAssumption DEF AgentSends
  <2> QED
    BY <2>2, <2>3 DEF gatewayVars
<1>5. CASE x \in ClientStreams /\ ClientSends(x)
  <2>1. NextPacket(x, "AgentSessionOpen", None) \in Packet
    BY <1>5, NextPacketType DEF ClientSends, PacketTypes, AgentPacketTypes
  <2>2. toGw' \in [Streams -> Seq(Packet)] /\ UNCHANGED <<link, fromGw>>
    BY <1>5, <2>1, PutType DEF ClientSends, PeerSend
  <2>3. sent' \in [Streams -> 0..MaxSend] /\ UNCHANGED <<gatewayVars, seen>>
    BY <1>5, MaxSendAssumption DEF ClientSends
  <2> QED
    BY <2>2, <2>3 DEF gatewayVars
<1> QED
  BY <1>1, <1>2, <1>3, <1>4, <1>5

\* A step of an agent's handler keeps the types, and a packet in hand.
LEMMA AgentStepTypes ==
    ASSUME TypeOK, HandlerState, NEW s \in AgentStreams,
           GatewayStep(AgentHandler(s, GatewayBody))
    PROVE  TypeOK' /\ HandlerState'
<1>0. s \in Streams /\ UNCHANGED <<sent, seen, closed, bound>>
  BY StreamKinds DEF GatewayStep, AgentHandler, AgentConnect, SendConnectOK, AgentRecv,
                     AgentRecvFails, LockSession, SendToClient, AgentReturn
<1>1. link' \in [Streams -> LinkState] /\ agents' \in [AgentIds -> AgentStreams \cup {None}]
      /\ sessions' = sessions
  BY <1>0, GatewayAssumption
  DEF GatewayStep, AgentHandler, AgentConnect, SendConnectOK, AgentRecv, AgentRecvFails,
      LockSession, SendToClient, AgentReturn, EndStream, LinkState, TypeOK,
      TransportTypeOK, GatewayTypeOK
<1>2. toGw' \in [Streams -> Seq(Packet)]
  <2>1. CASE AgentRecv(s)
    BY <2>1, <1>0, TakeType DEF AgentRecv, TypeOK, TransportTypeOK
  <2>2. CASE ~AgentRecv(s)
    BY <2>2 DEF GatewayStep, AgentHandler, AgentConnect, SendConnectOK,
                AgentRecvFails, LockSession, SendToClient, AgentReturn, TypeOK, TransportTypeOK
  <2> QED
    BY <2>1, <2>2
<1>3. fromGw' \in [Streams -> Seq(Packet)]
  <2>1. CASE SendConnectOK(s, GatewayBody)
    <3> DEFINE ok == [type |-> "AgentGatewayConnectOK", sid |-> None, conn |-> None,
                      body |-> GatewayBody]
    <3>1. ok \in Packet
      BY ConnectOKType
    <3>2. fromGw' = fromGw \/ fromGw' = Put(fromGw, s, ok)
      BY <2>1 DEF SendConnectOK
    <3>3. Put(fromGw, s, ok) \in [Streams -> Seq(Packet)]
      BY <1>0, <3>1, PutType DEF TypeOK, TransportTypeOK
    <3> QED
      BY <3>2, <3>3 DEF TypeOK, TransportTypeOK
  <2>2. CASE SendToClient(s)
    <3>1. hand[s] \in Packet /\ hand[s].sid \in Streams
      BY <2>2, StreamKinds DEF SendToClient, HandlerState
    <3>2. fromGw' = fromGw \/ fromGw' = Put(fromGw, hand[s].sid, hand[s])
      BY <2>2 DEF SendToClient
    <3>3. Put(fromGw, hand[s].sid, hand[s]) \in [Streams -> Seq(Packet)]
      BY <3>1, PutType DEF TypeOK, TransportTypeOK
    <3> QED
      BY <3>2, <3>3 DEF TypeOK, TransportTypeOK
  <2>3. CASE ~SendConnectOK(s, GatewayBody) /\ ~SendToClient(s)
    BY <2>3 DEF GatewayStep, AgentHandler, AgentConnect, AgentRecv, AgentRecvFails,
                LockSession, AgentReturn, TypeOK, TransportTypeOK
  <2> QED
    BY <2>1, <2>2, <2>3
<1>4. /\ hpc' \in [Streams -> AgentPC \cup ClientPC]
      /\ hand' \in [Streams -> Packet \cup {None}]
      /\ \A x \in Streams : x # s => hpc'[x] = hpc[x] /\ hand'[x] = hand[x]
      /\ hpc'[s] \in {"route", "sending"} => hand'[s] \in Packet /\ hand'[s].sid \in ClientStreams
  <2> USE <1>0 DEF TypeOK, GatewayTypeOK, Goto, AgentPC
  <2>1. CASE AgentRecv(s)
    <3>1. Head(toGw[s]) \in Packet
      BY <2>1, TakeType DEF AgentRecv, TransportTypeOK
    <3>2. CASE Head(toGw[s]).sid \in sessions
      BY <2>1, <3>1, <3>2 DEF AgentRecv
    <3>3. CASE Head(toGw[s]).sid \notin sessions
      BY <2>1, <3>3 DEF AgentRecv
    <3> QED
      BY <3>2, <3>3
  <2>2. CASE LockSession(s)
    BY <2>2 DEF LockSession, HandlerState
  <2>3. CASE SendToClient(s)
    BY <2>3 DEF SendToClient
  <2>4. CASE AgentConnect(s) \/ SendConnectOK(s, GatewayBody) \/ AgentRecvFails(s) \/ AgentReturn(s)
    BY <2>4 DEF AgentConnect, SendConnectOK, AgentRecvFails, AgentReturn
  <2> QED
    BY <2>1, <2>2, <2>3, <2>4 DEF GatewayStep, AgentHandler
<1>5. TypeOK'
  BY <1>0, <1>1, <1>2, <1>3, <1>4 DEF TypeOK, TransportTypeOK, GatewayTypeOK
<1>6. HandlerState'
  BY <1>0, <1>4, StreamKinds DEF HandlerState
<1> QED
  BY <1>5, <1>6

\* A step of a client's handler keeps the types, the packet in hand and the
\* captured agent.
LEMMA ClientStepTypes ==
    ASSUME TypeOK, HandlerState, NEW c \in ClientStreams,
           GatewayStep(ClientHandler(c))
    PROVE  TypeOK' /\ HandlerState'
<1>0. c \in Streams /\ UNCHANGED <<sent, seen, agents>>
  BY StreamKinds
  DEF GatewayStep, ClientHandler, FindAgent, RejectUnavailable, CreateSession,
      ClientRecv, ClientRecvFails, ForwardToAgent, CloseSession, DeleteSession
<1>1. /\ link' \in [Streams -> LinkState]
      /\ sessions' \subseteq ClientStreams
      /\ closed' \in [ClientStreams -> BOOLEAN]
  BY <1>0
  DEF GatewayStep, ClientHandler, FindAgent, RejectUnavailable, CreateSession,
      ClientRecv, ClientRecvFails, ForwardToAgent, CloseSession, DeleteSession,
      EndStream, LinkState, TypeOK, TransportTypeOK, GatewayTypeOK
<1>2. toGw' \in [Streams -> Seq(Packet)]
  <2>1. CASE ClientRecv(c)
    BY <2>1, <1>0, TakeType DEF ClientRecv, TypeOK, TransportTypeOK
  <2>2. CASE ~ClientRecv(c)
    BY <2>2
    DEF GatewayStep, ClientHandler, FindAgent, RejectUnavailable, CreateSession,
        ClientRecvFails, ForwardToAgent, CloseSession, DeleteSession, TypeOK, TransportTypeOK
  <2> QED
    BY <2>1, <2>2
<1>3. fromGw' \in [Streams -> Seq(Packet)]
  <2>1. CASE ForwardToAgent(c)
    <3>1. hand[c] \in Packet /\ bound[c] \in Streams
      BY <2>1, StreamKinds DEF ForwardToAgent, HandlerState
    <3>2. fromGw' = fromGw \/ fromGw' = Put(fromGw, bound[c], hand[c])
      BY <2>1 DEF ForwardToAgent
    <3>3. Put(fromGw, bound[c], hand[c]) \in [Streams -> Seq(Packet)]
      BY <3>1, PutType DEF TypeOK, TransportTypeOK
    <3> QED
      BY <3>2, <3>3 DEF TypeOK, TransportTypeOK
  <2>2. CASE ~ForwardToAgent(c)
    BY <2>2
    DEF GatewayStep, ClientHandler, FindAgent, RejectUnavailable, CreateSession,
        ClientRecv, ClientRecvFails, CloseSession, DeleteSession, TypeOK, TransportTypeOK
  <2> QED
    BY <2>1, <2>2
<1>4. /\ hpc' \in [Streams -> AgentPC \cup ClientPC]
      /\ hand' \in [Streams -> Packet \cup {None}]
      /\ bound' \in [ClientStreams -> AgentStreams \cup {None}]
      /\ \A x \in Streams : x # c => hpc'[x] = hpc[x] /\ hand'[x] = hand[x]
      /\ \A d \in ClientStreams : d # c => bound'[d] = bound[d]
      /\ hpc'[c] = "forward" => hand'[c] \in Packet /\ hand'[c].sid = c
      /\ hpc'[c] \in {"found", "recv", "forward"} => bound'[c] \in AgentStreams
  <2> USE <1>0 DEF TypeOK, GatewayTypeOK, Goto, ClientPC
  <2>1. CASE FindAgent(c)
    <3>1. Candidates(c) \subseteq AgentStreams
      BY GatewayAssumption DEF Candidates
    <3> QED
      BY <2>1, <3>1 DEF FindAgent, Arrived
  <2>2. CASE ClientRecv(c)
    <3>1. /\ [Head(toGw[c]) EXCEPT !.sid = c] \in Packet
          /\ [Head(toGw[c]) EXCEPT !.sid = c].sid = c
      BY <2>2, TakeType, PacketParts DEF ClientRecv, TransportTypeOK
    <3> QED
      BY <2>2, <3>1 DEF ClientRecv, HandlerState
  <2>3. CASE CreateSession(c)
    BY <2>3 DEF CreateSession, HandlerState
  <2>4. CASE ForwardToAgent(c)
    BY <2>4 DEF ForwardToAgent, HandlerState
  <2>5. CASE RejectUnavailable(c) \/ ClientRecvFails(c) \/ CloseSession(c) \/ DeleteSession(c)
    BY <2>5 DEF RejectUnavailable, ClientRecvFails, CloseSession, DeleteSession
  <2> QED
    BY <2>1, <2>2, <2>3, <2>4, <2>5 DEF GatewayStep, ClientHandler
<1>5. TypeOK'
  BY <1>0, <1>1, <1>2, <1>3, <1>4 DEF TypeOK, TransportTypeOK, GatewayTypeOK
<1>6. HandlerState'
  BY <1>0, <1>4, StreamKinds DEF HandlerState
<1> QED
  BY <1>5, <1>6

\* Every value the handlers and peers put into a queue or a variable has its
\* type, and a handler holds a packet where it uses one.  TypeOK alone is not
\* inductive: SendToClient and ForwardToAgent queue the packet in hand.
THEOREM Typing == Spec => [](TypeOK /\ HandlerState)
<1>1. Init => TypeOK /\ HandlerState
  BY StreamKinds, MaxSendAssumption
  DEF Init, TransportInit, GatewayInit, TypeOK, TransportTypeOK, GatewayTypeOK,
      LinkState, AgentPC, ClientPC, HandlerState
<1>2. TypeOK /\ HandlerState /\ [Next]_vars => (TypeOK /\ HandlerState)'
  <2> SUFFICES ASSUME TypeOK, HandlerState, [Next]_vars
               PROVE  TypeOK' /\ HandlerState'
    OBVIOUS
  <2>1. CASE UNCHANGED vars
    BY <2>1 DEF vars, transportVars, gatewayVars, TypeOK, TransportTypeOK,
                GatewayTypeOK, HandlerState
  <2>2. ASSUME NEW x \in Streams,
               PeerDials(x) \/ PeerBreaks(x) \/ Receives(x)
               \/ (x \in AgentStreams /\ AgentSends(x))
               \/ (x \in ClientStreams /\ ClientSends(x))
        PROVE  TypeOK' /\ HandlerState'
    BY <2>2, PeerStepTypes DEF gatewayVars, HandlerState
  <2>3. ASSUME NEW x \in Streams, GatewayStep(RejectUnauthorized(x))
        PROVE  TypeOK' /\ HandlerState'
    BY <2>3, StreamKinds
    DEF GatewayStep, RejectUnauthorized, TypeOK, TransportTypeOK, GatewayTypeOK,
        HandlerState, Goto, EndStream, AgentPC, ClientPC, LinkState
  <2> QED
    BY <2>1, <2>2, <2>3, AgentStepTypes, ClientStepTypes, StreamKinds DEF Next
<1> QED
  BY <1>1, <1>2, PTL DEF Spec

-----------------------------------------------------------------------------
(* Routing: packets stay between a client and the agent its session captured *)

\* Appending adds one element to the range of a sequence.
LEMMA RangeAppend ==
    ASSUME NEW q \in Seq(Packet), NEW p \in Packet
    PROVE  Range(Append(q, p)) = Range(q) \cup {p}
<1>1. ASSUME NEW r \in Range(Append(q, p)) PROVE r \in Range(q) \cup {p}
  BY DEF Range
<1>2. ASSUME NEW r \in Range(q) PROVE r \in Range(Append(q, p))
  <2>1. PICK i \in 1..Len(q) : r = q[i]
    BY DEF Range
  <2> QED
    BY <2>1, i \in 1..Len(Append(q, p)), Append(q, p)[i] = q[i] DEF Range
<1>3. p \in Range(Append(q, p))
  BY Len(q) + 1 \in DOMAIN Append(q, p), Append(q, p)[Len(q) + 1] = p DEF Range
<1> QED
  BY <1>1, <1>2, <1>3

\* The tail of a sequence has no new elements.
LEMMA RangeTail ==
    ASSUME NEW q \in Seq(Packet), q # << >>
    PROVE  Range(Tail(q)) \subseteq Range(q) /\ Head(q) \in Range(q)
<1>1. ASSUME NEW r \in Range(Tail(q)) PROVE r \in Range(q)
  <2>1. PICK i \in 1..Len(Tail(q)) : r = Tail(q)[i]
    BY DEF Range
  <2> QED
    BY <2>1, i + 1 \in 1..Len(q), Tail(q)[i] = q[i + 1] DEF Range
<1>2. Head(q) \in Range(q)
  BY 1 \in DOMAIN q, Head(q) = q[1] DEF Range
<1> QED
  BY <1>1, <1>2

\* An element of the range of a queue is a packet, and the queue is not empty.
LEMMA RangeMember ==
    ASSUME NEW q \in Seq(Packet), NEW r \in Range(q)
    PROVE  r \in Packet /\ q # << >>
  BY DEF Range

\* The inductive strengthening: wherever a packet is, in a queue or in the
\* hand of a handler, its session has captured the agent connection the packet
\* came from or goes to; and a session captures once.
Routing ==
    /\ DeliveredOnlyByBoundAgent
    /\ ForwardedOnlyToBoundAgent
    /\ \A c \in ClientStreams : fromGw[c] # << >> => bound[c] # None
    /\ \A c \in ClientStreams : hpc[c] = "none" => bound[c] = None
    /\ \A c \in ClientStreams : hpc[c] = "forward" => hand[c].body.from = c
    /\ \A s \in AgentStreams : hpc[s] \in {"route", "sending"} =>
          bound[hand[s].sid] = s /\ hand[s].body.from = s
    /\ \A x \in Streams : \A p \in Range(toGw[x]) : p.body.from = x
    /\ \A s \in AgentStreams : \A p \in Range(toGw[s]) : p.sid # None => bound[p.sid] = s
    /\ \A s \in AgentStreams, c \in ClientStreams : seen[s][c] > 0 => bound[c] = s

\* A queue grows by one packet, or loses its head.
LEMMA PutRange ==
    ASSUME NEW q \in [Streams -> Seq(Packet)], NEW x \in Streams, NEW p \in Packet,
           NEW y \in Streams, NEW r \in Range(Put(q, x, p)[y])
    PROVE  r \in Range(q[y]) \/ (y = x /\ r = p)
<1>1. CASE y = x
  <2>1. q[x] \in Seq(Packet)
    OBVIOUS
  <2>2. Put(q, x, p)[x] = Append(q[x], p)
    BY DEF Put
  <2> QED
    BY <1>1, <2>1, <2>2, RangeAppend
<1>2. CASE y # x
  BY <1>2 DEF Put
<1> QED
  BY <1>1, <1>2

\* Taking from one queue brings no new packet into any.
LEMMA TakeRange ==
    ASSUME NEW q \in [Streams -> Seq(Packet)], NEW x \in Streams, q[x] # << >>,
           NEW y \in Streams
    PROVE  /\ Range(Take(q, x)[y]) \subseteq Range(q[y])
           /\ Head(q[x]) \in Range(q[x])
           /\ Take(q, x)[y] # << >> => q[y] # << >>
<1>1. q[x] \in Seq(Packet) /\ q[y] \in Seq(Packet)
  OBVIOUS
<1>2. CASE y = x
  BY <1>1, <1>2, TakeType, RangeTail
<1>3. CASE y # x
  BY <1>1, <1>3, TakeType, RangeTail
<1> QED
  BY <1>2, <1>3

\* Steps of the peers: dialling, breaking, receiving and sending.
LEMMA PeerStepRouting ==
    ASSUME TypeOK, HandlerState, Routing, NEW x \in Streams,
           PeerDials(x) \/ PeerBreaks(x) \/ Receives(x)
           \/ (x \in AgentStreams /\ AgentSends(x))
           \/ (x \in ClientStreams /\ ClientSends(x))
    PROVE  Routing'
<1>1. CASE PeerDials(x) \/ PeerBreaks(x)
  BY <1>1 DEF PeerDials, PeerBreaks, Dial, Break, gatewayVars, Routing,
              DeliveredOnlyByBoundAgent, ForwardedOnlyToBoundAgent
<1>2. CASE Receives(x)
  <2>1. /\ fromGw' = Take(fromGw, x) /\ fromGw[x] # << >>
        /\ fromGw \in [Streams -> Seq(Packet)]
        /\ UNCHANGED <<toGw, agents, sessions, bound, closed, hpc, hand>>
    BY <1>2 DEF Receives, PeerRecv, gatewayVars, TypeOK, TransportTypeOK
  <2>2. /\ \A y \in Streams : Range(fromGw'[y]) \subseteq Range(fromGw[y])
        /\ \A y \in Streams : fromGw'[y] # << >> => fromGw[y] # << >>
        /\ Head(fromGw[x]) \in Range(fromGw[x]) /\ Head(fromGw[x]) \in Packet
    BY <2>1, TakeRange, TakeType
  <2>3. \A s \in AgentStreams, c \in ClientStreams : seen'[s][c] > 0 => bound[c] = s
    <3> SUFFICES ASSUME NEW s \in AgentStreams, NEW c \in ClientStreams,
                        seen'[s][c] > 0, seen[s][c] = 0 \/ ~(seen[s][c] > 0)
                 PROVE  bound[c] = s
      BY DEF Routing
    <3>1. s = x /\ Head(fromGw[x]).sid = c
      BY <1>2, <2>2, PacketParts, StreamKinds DEF Receives, TypeOK
    <3> QED
      BY <2>2, <3>1, StreamKinds DEF Routing, ForwardedOnlyToBoundAgent
  <2> QED
    BY <2>1, <2>2, <2>3, StreamKinds
    DEF Routing, DeliveredOnlyByBoundAgent, ForwardedOnlyToBoundAgent
<1>3. CASE x \in AgentStreams /\ AgentSends(x)
  <2>1. PICK c \in ClientStreams \cup {None}, t \in PacketTypes :
          /\ PeerSend(x, NextPacket(x, t, c))
          /\ c # None => seen[x][c] > 0
    BY <1>3 DEF AgentSends, PacketTypes, ClientPacketTypes
  <2> DEFINE p == NextPacket(x, t, c)
  <2>2. p \in Packet /\ p.sid = c /\ p.body.from = x
    BY <1>3, NextPacketType DEF AgentSends
  <2>3. /\ toGw' = Put(toGw, x, p) /\ toGw \in [Streams -> Seq(Packet)]
        /\ UNCHANGED <<fromGw, agents, sessions, bound, closed, hpc, hand, seen>>
    BY <1>3, <2>1 DEF AgentSends, PeerSend, gatewayVars, TypeOK, TransportTypeOK
  <2>4. \A y \in Streams : \A r \in Range(toGw'[y]) :
          r \in Range(toGw[y]) \/ (y = x /\ r = p)
    BY <2>2, <2>3, PutRange
  <2>5. c # None => bound[c] = x
    BY <1>3, <2>1 DEF Routing
  <2> HIDE DEF p
  <2> QED
    BY <1>3, <2>2, <2>3, <2>4, <2>5, StreamKinds
    DEF Routing, DeliveredOnlyByBoundAgent, ForwardedOnlyToBoundAgent
<1>4. CASE x \in ClientStreams /\ ClientSends(x)
  <2> DEFINE p == NextPacket(x, "AgentSessionOpen", None)
  <2>2. p \in Packet /\ p.body.from = x
    BY <1>4, NextPacketType DEF ClientSends, PacketTypes, AgentPacketTypes
  <2>3. /\ toGw' = Put(toGw, x, p) /\ toGw \in [Streams -> Seq(Packet)]
        /\ UNCHANGED <<fromGw, agents, sessions, bound, closed, hpc, hand, seen>>
    BY <1>4 DEF ClientSends, PeerSend, gatewayVars, TypeOK, TransportTypeOK
  <2>4. \A y \in Streams : \A r \in Range(toGw'[y]) :
          r \in Range(toGw[y]) \/ (y = x /\ r = p)
    BY <2>2, <2>3, PutRange
  <2> HIDE DEF p
  <2> QED
    BY <1>4, <2>2, <2>3, <2>4, StreamKinds
    DEF Routing, DeliveredOnlyByBoundAgent, ForwardedOnlyToBoundAgent
<1> QED
  BY <1>1, <1>2, <1>3, <1>4

\* Steps of the agents' handlers: only SendToClient queues a packet of a
\* session, and it queues the packet in hand.
LEMMA AgentStepRouting ==
    ASSUME TypeOK, HandlerState, Routing, NEW s \in AgentStreams,
           GatewayStep(AgentHandler(s, GatewayBody))
    PROVE  Routing'
<1>0. /\ s \in Streams /\ UNCHANGED <<seen, bound>>
      /\ fromGw \in [Streams -> Seq(Packet)] /\ toGw \in [Streams -> Seq(Packet)]
      /\ hpc \in [Streams -> AgentPC \cup ClientPC]
      /\ hand \in [Streams -> Packet \cup {None}]
  BY StreamKinds
  DEF TypeOK, TransportTypeOK, GatewayTypeOK, GatewayStep, AgentHandler, AgentConnect,
      SendConnectOK, AgentRecv, AgentRecvFails, LockSession, SendToClient, AgentReturn
<1>1. CASE AgentConnect(s) \/ AgentRecvFails(s) \/ AgentReturn(s)
  <2>1. /\ UNCHANGED <<fromGw, toGw, hand>>
        /\ hpc'[s] \notin {"route", "sending"}
        /\ \A y \in Streams : y # s => hpc'[y] = hpc[y]
    BY <1>0, <1>1 DEF AgentConnect, AgentRecvFails, AgentReturn, Goto
  <2> QED
    BY <1>0, <2>1, StreamKinds
    DEF Routing, DeliveredOnlyByBoundAgent, ForwardedOnlyToBoundAgent
<1>2. CASE SendConnectOK(s, GatewayBody)
  <2> DEFINE ok == [type |-> "AgentGatewayConnectOK", sid |-> None, conn |-> None,
                    body |-> GatewayBody]
  <2>1. ok \in Packet /\ ok.sid = None
    BY ConnectOKType
  <2>2. /\ fromGw' = fromGw \/ fromGw' = Put(fromGw, s, ok)
        /\ UNCHANGED <<toGw, hand>>
        /\ hpc'[s] \notin {"route", "sending"}
        /\ \A y \in Streams : y # s => hpc'[y] = hpc[y]
    BY <1>0, <1>2 DEF SendConnectOK, Goto
  <2> HIDE DEF ok
  <2>3. \A y \in Streams : \A r \in Range(fromGw'[y]) :
          r \in Range(fromGw[y]) \/ (y = s /\ r = ok)
    <3>1. CASE fromGw' = Put(fromGw, s, ok)
      BY <1>0, <2>1, <3>1, PutRange
    <3> QED
      BY <2>2, <3>1
  <2>4. \A c \in ClientStreams : fromGw'[c] = fromGw[c]
    BY <1>0, <2>2, StreamKinds DEF Put
  <2> QED
    BY <1>0, <2>1, <2>2, <2>3, <2>4, StreamKinds
    DEF Routing, DeliveredOnlyByBoundAgent, ForwardedOnlyToBoundAgent
<1>3. CASE AgentRecv(s)
  <2> DEFINE p == Head(toGw[s])
  <2>1. /\ toGw' = Take(toGw, s) /\ toGw[s] # << >>
        /\ UNCHANGED fromGw
        /\ \A y \in Streams : y # s => hpc'[y] = hpc[y] /\ hand'[y] = hand[y]
        /\ hpc'[s] \in {"route", "sending"} => hand'[s] = p /\ p.sid \in sessions
    BY <1>0, <1>3 DEF AgentRecv, Goto
  <2>2. /\ \A y \in Streams : Range(toGw'[y]) \subseteq Range(toGw[y])
        /\ p \in Range(toGw[s])
    BY <1>0, <2>1, TakeRange
  <2> HIDE DEF p
  <2>3. p.sid \in sessions => p.sid # None
    BY StreamKinds DEF TypeOK, GatewayTypeOK
  <2>4. p.sid \in sessions => bound[p.sid] = s /\ p.body.from = s
    BY <1>0, <2>2, <2>3 DEF Routing
  <2>5. DeliveredOnlyByBoundAgent' /\ ForwardedOnlyToBoundAgent'
    BY <1>0, <2>1 DEF Routing, DeliveredOnlyByBoundAgent, ForwardedOnlyToBoundAgent
  <2>6. \A y \in AgentStreams : hpc'[y] \in {"route", "sending"} =>
          bound'[hand'[y].sid] = y /\ hand'[y].body.from = y
    BY <1>0, <2>1, <2>4, StreamKinds DEF Routing
  <2>7. \A c \in ClientStreams : hpc'[c] = hpc[c] /\ hand'[c] = hand[c]
    BY <2>1, StreamKinds
  <2> QED
    BY <1>0, <2>1, <2>2, <2>5, <2>6, <2>7, StreamKinds DEF Routing
<1>4. CASE LockSession(s)
  <2>1. /\ UNCHANGED <<fromGw, toGw>>
        /\ \A y \in Streams : y # s => hpc'[y] = hpc[y] /\ hand'[y] = hand[y]
        /\ hpc'[s] \in {"route", "sending"} => hand'[s] = hand[s]
        /\ hpc[s] = "route"
    BY <1>0, <1>4 DEF LockSession, Goto
  <2>2. DeliveredOnlyByBoundAgent' /\ ForwardedOnlyToBoundAgent'
    BY <1>0, <2>1 DEF Routing, DeliveredOnlyByBoundAgent, ForwardedOnlyToBoundAgent
  <2>3. \A y \in AgentStreams : hpc'[y] \in {"route", "sending"} =>
          bound'[hand'[y].sid] = y /\ hand'[y].body.from = y
    BY <1>0, <2>1, StreamKinds DEF Routing
  <2>4. \A c \in ClientStreams : hpc'[c] = hpc[c] /\ hand'[c] = hand[c]
    BY <2>1, StreamKinds
  <2> QED
    BY <1>0, <2>1, <2>2, <2>3, <2>4, StreamKinds DEF Routing
<1>5. CASE SendToClient(s)
  <2> DEFINE d == hand[s].sid
  <2>1. /\ hand[s] \in Packet /\ d \in ClientStreams /\ d \in Streams
        /\ bound[d] = s /\ hand[s].body.from = s
    BY <1>5, StreamKinds DEF SendToClient, HandlerState, Routing
  <2>2. /\ fromGw' = fromGw \/ fromGw' = Put(fromGw, d, hand[s])
        /\ UNCHANGED toGw
        /\ \A y \in Streams : y # s => hpc'[y] = hpc[y] /\ hand'[y] = hand[y]
        /\ hpc'[s] \notin {"route", "sending"}
    BY <1>0, <1>5 DEF SendToClient, Goto
  <2>3. \A y \in Streams : \A r \in Range(fromGw'[y]) :
          r \in Range(fromGw[y]) \/ (y = d /\ r = hand[s])
    <3> HIDE DEF d
    <3>1. ASSUME fromGw' = Put(fromGw, d, hand[s]), NEW y \in Streams, NEW r \in Range(fromGw'[y])
          PROVE  r \in Range(fromGw[y]) \/ (y = d /\ r = hand[s])
      BY <1>0, <2>1, <3>1, PutRange
    <3> QED
      BY <2>2, <3>1
  <2>4. \A c \in ClientStreams : c # d => fromGw'[c] = fromGw[c]
    BY <1>0, <2>1, <2>2, StreamKinds DEF Put
  <2> HIDE DEF d
  <2>5. \A c \in ClientStreams : fromGw'[c] # << >> => bound[c] # None
    BY <2>1, <2>4, StreamKinds DEF Routing
  <2>6. DeliveredOnlyByBoundAgent' /\ ForwardedOnlyToBoundAgent'
    BY <1>0, <2>1, <2>3, StreamKinds
    DEF d, Routing, DeliveredOnlyByBoundAgent, ForwardedOnlyToBoundAgent
  <2> QED
    BY <1>0, <2>2, <2>5, <2>6, StreamKinds DEF Routing
<1> QED
  BY <1>1, <1>2, <1>3, <1>4, <1>5 DEF GatewayStep, AgentHandler

\* Steps of the clients' handlers: the agent is captured once, before any
\* packet of the session exists.
LEMMA ClientStepRouting ==
    ASSUME TypeOK, HandlerState, Routing, NEW c \in ClientStreams,
           GatewayStep(ClientHandler(c))
    PROVE  Routing'
<1>0. /\ c \in Streams /\ UNCHANGED seen
      /\ fromGw \in [Streams -> Seq(Packet)] /\ toGw \in [Streams -> Seq(Packet)]
      /\ hpc \in [Streams -> AgentPC \cup ClientPC]
      /\ hand \in [Streams -> Packet \cup {None}]
      /\ bound \in [ClientStreams -> AgentStreams \cup {None}]
  BY StreamKinds DEF TypeOK, TransportTypeOK, GatewayTypeOK, GatewayStep
<1>1. CASE FindAgent(c)
  <2>1. /\ UNCHANGED <<fromGw, toGw, hand>>
        /\ \A y \in Streams : y # c => hpc'[y] = hpc[y]
        /\ hpc[c] = "none" /\ hpc'[c] = "found"
        /\ \A d \in ClientStreams : d # c => bound'[d] = bound[d]
    BY <1>0, <1>1 DEF FindAgent, Arrived, Goto
  <2>2. bound[c] = None /\ fromGw[c] = << >>
    BY <2>1 DEF Routing
  <2>3. \A d \in ClientStreams, s \in AgentStreams : bound[d] = s => bound'[d] = s
    BY <2>1, <2>2, StreamKinds
  <2>4. \A p \in Range(fromGw[c]) : FALSE
    BY <1>0, <2>2, RangeMember
  <2>5. DeliveredOnlyByBoundAgent'
    BY <2>1, <2>4 DEF Routing, DeliveredOnlyByBoundAgent
  <2>6. ForwardedOnlyToBoundAgent'
    <3> SUFFICES ASSUME NEW s \in AgentStreams, NEW p \in Range(fromGw'[s]), p.sid # None
                 PROVE  bound'[p.sid] = s /\ p.body.from = p.sid
      BY DEF ForwardedOnlyToBoundAgent
    <3>1. p \in Packet /\ bound[p.sid] = s /\ p.body.from = p.sid
      BY <1>0, <2>1, RangeMember, StreamKinds DEF Routing, ForwardedOnlyToBoundAgent
    <3> QED
      BY <2>3, <3>1, PacketParts
  <2>7. \A s \in AgentStreams : \A p \in Range(toGw'[s]) : p.sid # None => bound'[p.sid] = s
    <3> SUFFICES ASSUME NEW s \in AgentStreams, NEW p \in Range(toGw'[s]), p.sid # None
                 PROVE  bound'[p.sid] = s
      OBVIOUS
    <3>1. p \in Packet /\ bound[p.sid] = s
      BY <1>0, <2>1, RangeMember, StreamKinds DEF Routing
    <3> QED
      BY <2>3, <3>1, PacketParts
  <2>8. \A s \in AgentStreams : hpc'[s] \in {"route", "sending"} =>
          bound'[hand'[s].sid] = s /\ hand'[s].body.from = s
    BY <2>1, <2>3, StreamKinds DEF Routing, HandlerState
  <2> QED
    BY <1>0, <2>1, <2>2, <2>3, <2>5, <2>6, <2>7, <2>8, StreamKinds DEF Routing
<1>2. CASE ClientRecv(c)
  <2> DEFINE p == [Head(toGw[c]) EXCEPT !.sid = c]
  <2>1. /\ toGw' = Take(toGw, c) /\ toGw[c] # << >>
        /\ UNCHANGED <<fromGw, bound>>
        /\ \A y \in Streams : y # c => hpc'[y] = hpc[y] /\ hand'[y] = hand[y]
        /\ hand'[c] = p /\ hpc'[c] = "forward"
    BY <1>0, <1>2 DEF ClientRecv, Goto
  <2>2. /\ \A y \in Streams : Range(toGw'[y]) \subseteq Range(toGw[y])
        /\ Head(toGw[c]) \in Range(toGw[c]) /\ Head(toGw[c]) \in Packet
    BY <1>0, <2>1, TakeRange, TakeType
  <2>3. p.body.from = c
    BY <1>0, <2>2, PacketParts DEF Routing
  <2> HIDE DEF p
  <2>4. DeliveredOnlyByBoundAgent' /\ ForwardedOnlyToBoundAgent'
    BY <1>0, <2>1 DEF Routing, DeliveredOnlyByBoundAgent, ForwardedOnlyToBoundAgent
  <2>5. \A y \in AgentStreams : hpc'[y] = hpc[y] /\ hand'[y] = hand[y]
    BY <2>1, StreamKinds
  <2>6. \A d \in ClientStreams :
          /\ hpc'[d] = "none" => bound'[d] = None
          /\ hpc'[d] = "forward" => hand'[d].body.from = d
    BY <2>1, <2>3, StreamKinds DEF Routing
  <2> QED
    BY <1>0, <2>1, <2>2, <2>4, <2>5, <2>6, StreamKinds DEF Routing
<1>3. CASE ForwardToAgent(c)
  <2> DEFINE s == bound[c]
  <2>1. /\ hand[c] \in Packet /\ hand[c].sid = c /\ hand[c].body.from = c
        /\ s \in AgentStreams /\ s \in Streams
    BY <1>3, StreamKinds DEF ForwardToAgent, HandlerState, Routing
  <2>2. /\ fromGw' = fromGw \/ fromGw' = Put(fromGw, s, hand[c])
        /\ UNCHANGED <<toGw, bound>>
        /\ \A y \in Streams : y # c => hpc'[y] = hpc[y] /\ hand'[y] = hand[y]
        /\ hpc'[c] \in {"recv", "closing"}
    BY <1>0, <1>3 DEF ForwardToAgent, Goto
  <2>3. \A y \in Streams : \A r \in Range(fromGw'[y]) :
          r \in Range(fromGw[y]) \/ (y = s /\ r = hand[c])
    <3>1. CASE fromGw' = Put(fromGw, s, hand[c])
      BY <1>0, <2>1, <3>1, PutRange
    <3> QED
      BY <2>2, <3>1
  <2>4. \A d \in ClientStreams : fromGw'[d] = fromGw[d]
    BY <1>0, <2>1, <2>2, StreamKinds DEF Put
  <2>5. DeliveredOnlyByBoundAgent' /\ ForwardedOnlyToBoundAgent'
    BY <1>0, <2>1, <2>2, <2>3, <2>4, StreamKinds
    DEF Routing, DeliveredOnlyByBoundAgent, ForwardedOnlyToBoundAgent
  <2> QED
    BY <1>0, <2>2, <2>4, <2>5, StreamKinds DEF Routing
<1>4. CASE RejectUnavailable(c) \/ CreateSession(c) \/ ClientRecvFails(c)
           \/ CloseSession(c) \/ DeleteSession(c)
  <2>1. /\ UNCHANGED <<fromGw, toGw, hand, bound>>
        /\ \A y \in Streams : y # c => hpc'[y] = hpc[y]
        /\ hpc'[c] \notin {"none", "forward"}
    BY <1>0, <1>4 DEF RejectUnavailable, CreateSession, ClientRecvFails, CloseSession,
                      DeleteSession, Goto
  <2> QED
    BY <1>0, <2>1, StreamKinds
    DEF Routing, DeliveredOnlyByBoundAgent, ForwardedOnlyToBoundAgent
<1> QED
  BY <1>1, <1>2, <1>3, <1>4 DEF GatewayStep, ClientHandler

\* Routing is inductive.
LEMMA RoutingInvariance == Spec => []Routing
<1>1. Init => Routing
  <2>1. \A q : q = << >> => Range(q) = {}
    BY DEF Range
  <2> QED
    BY <2>1, StreamKinds
    DEF Init, TransportInit, GatewayInit, Routing, DeliveredOnlyByBoundAgent,
        ForwardedOnlyToBoundAgent
<1>2. TypeOK /\ HandlerState /\ Routing /\ [Next]_vars => Routing'
  <2> SUFFICES ASSUME TypeOK, HandlerState, Routing, [Next]_vars PROVE Routing'
    OBVIOUS
  <2>1. CASE UNCHANGED vars
    BY <2>1 DEF vars, transportVars, gatewayVars, Routing, DeliveredOnlyByBoundAgent,
                ForwardedOnlyToBoundAgent
  <2>2. ASSUME NEW x \in Streams, GatewayStep(RejectUnauthorized(x)) PROVE Routing'
    <3>1. /\ UNCHANGED <<fromGw, toGw, hand, bound, seen>>
          /\ \A y \in Streams : y # x => hpc'[y] = hpc[y]
          /\ hpc'[x] = "done"
      BY <2>2 DEF GatewayStep, RejectUnauthorized, Goto, TypeOK, GatewayTypeOK
    <3> QED
      BY <3>1, StreamKinds
      DEF Routing, DeliveredOnlyByBoundAgent, ForwardedOnlyToBoundAgent
  <2> QED
    BY <2>1, <2>2, PeerStepRouting, AgentStepRouting, ClientStepRouting, StreamKinds DEF Next
<1> QED
  BY <1>1, <1>2, Typing, PTL DEF Spec

\* A client only ever gets packets of its own session that were sent by the
\* agent connection the session captured when it was created, whatever agents
\* and clients do and however often an agent reconnects.
THEOREM RoutingIsolation == Spec => []DeliveredOnlyByBoundAgent
<1>1. Routing => DeliveredOnlyByBoundAgent
  BY DEF Routing
<1> QED
  BY <1>1, RoutingInvariance, PTL

\* An agent only ever gets packets of sessions that captured its connection,
\* sent by the client of the session.
THEOREM ForwardingIsolation == Spec => []ForwardedOnlyToBoundAgent
<1>1. Routing => ForwardedOnlyToBoundAgent
  BY DEF Routing
<1> QED
  BY <1>1, RoutingInvariance, PTL

-----------------------------------------------------------------------------
(* The session mutex *)

\* The inductive strengthening: a session found by GetSession stays stored as
\* long as it is not closed, and is only deleted after it was closed.
SessionLock ==
    /\ \A s \in AgentStreams : hpc[s] = "sending" => ~closed[hand[s].sid]
    /\ \A s \in AgentStreams : hpc[s] \in {"route", "sending"} /\ ~closed[hand[s].sid] =>
          hand[s].sid \in sessions
    /\ \A c \in ClientStreams : hpc[c] = "deleting" => closed[c]

\* Every step keeps the lock discipline of the sessions.
LEMMA SessionLockStep ==
    ASSUME TypeOK, HandlerState, SessionLock, [Next]_vars
    PROVE  SessionLock'
<1>0. /\ hpc \in [Streams -> AgentPC \cup ClientPC]
      /\ hand \in [Streams -> Packet \cup {None}]
      /\ closed \in [ClientStreams -> BOOLEAN]
      /\ sessions \subseteq ClientStreams
  BY DEF TypeOK, GatewayTypeOK
<1>1. CASE UNCHANGED gatewayVars
  BY <1>1 DEF gatewayVars, SessionLock
<1>2. ASSUME NEW x \in Streams, RejectUnauthorized(x) PROVE SessionLock'
  <2>1. /\ UNCHANGED <<sessions, closed, hand>>
        /\ hpc'[x] = "done" /\ \A y \in Streams : y # x => hpc'[y] = hpc[y]
    BY <1>0, <1>2 DEF RejectUnauthorized, Goto
  <2> QED
    BY <2>1, StreamKinds DEF SessionLock
<1>3. ASSUME NEW s \in AgentStreams, AgentHandler(s, GatewayBody) PROVE SessionLock'
  <2>1. s \in Streams /\ UNCHANGED <<sessions, closed>>
    BY <1>3, StreamKinds
    DEF AgentHandler, AgentConnect, SendConnectOK, AgentRecv, AgentRecvFails,
        LockSession, SendToClient, AgentReturn
  <2>2. /\ \A y \in Streams : y # s => hpc'[y] = hpc[y] /\ hand'[y] = hand[y]
        /\ hpc'[s] = "sending" => ~closed[hand'[s].sid]
        /\ hpc'[s] \in {"route", "sending"} /\ ~closed[hand'[s].sid] =>
              hand'[s].sid \in sessions
    <3>1. CASE AgentRecv(s)
      <4>1. CASE Head(toGw[s]).sid \in sessions
        BY <1>0, <2>1, <3>1, <4>1 DEF AgentRecv, Goto
      <4>2. CASE Head(toGw[s]).sid \notin sessions
        BY <1>0, <2>1, <3>1, <4>2 DEF AgentRecv, Goto
      <4> QED
        BY <4>1, <4>2
    <3>2. CASE LockSession(s)
      BY <1>0, <2>1, <3>2 DEF LockSession, Goto, SessionLock
    <3>3. CASE SendToClient(s)
      BY <1>0, <2>1, <3>3 DEF SendToClient, Goto
    <3>4. CASE AgentConnect(s) \/ SendConnectOK(s, GatewayBody) \/ AgentRecvFails(s)
               \/ AgentReturn(s)
      BY <1>0, <2>1, <3>4 DEF AgentConnect, SendConnectOK, AgentRecvFails, AgentReturn, Goto
    <3> QED
      BY <1>3, <3>1, <3>2, <3>3, <3>4 DEF AgentHandler
  <2>3. \A y \in AgentStreams :
          /\ hpc'[y] = "sending" => ~closed'[hand'[y].sid]
          /\ hpc'[y] \in {"route", "sending"} /\ ~closed'[hand'[y].sid] =>
                hand'[y].sid \in sessions'
    BY <2>1, <2>2, StreamKinds DEF SessionLock
  <2>4. \A c \in ClientStreams : hpc'[c] = "deleting" => closed'[c]
    BY <2>1, <2>2, StreamKinds DEF SessionLock
  <2> QED
    BY <2>3, <2>4 DEF SessionLock
<1>4. ASSUME NEW c \in ClientStreams, ClientHandler(c) PROVE SessionLock'
  <2>1. c \in Streams
    BY StreamKinds
  <2>2. \A y \in AgentStreams : hpc'[y] = hpc[y] /\ hand'[y] = hand[y]
    BY <1>0, <1>4, <2>1, StreamKinds
    DEF ClientHandler, FindAgent, RejectUnavailable, CreateSession, ClientRecv,
        ClientRecvFails, ForwardToAgent, CloseSession, DeleteSession, Goto
  <2>3. \A d \in ClientStreams : d # c => hpc'[d] = hpc[d]
    BY <1>0, <1>4, <2>1, StreamKinds
    DEF ClientHandler, FindAgent, RejectUnavailable, CreateSession, ClientRecv,
        ClientRecvFails, ForwardToAgent, CloseSession, DeleteSession, Goto
  <2>4. CASE CloseSession(c)
    <3>1. /\ UNCHANGED sessions /\ closed'[c] = TRUE
          /\ \A d \in ClientStreams : d # c => closed'[d] = closed[d]
          /\ \A y \in AgentStreams : hpc[y] = "sending" => hand[y].sid # c
      BY <1>0, <2>4 DEF CloseSession, Locked
    <3> QED
      BY <2>2, <2>3, <3>1 DEF SessionLock, HandlerState
  <2>5. CASE DeleteSession(c)
    <3>1. /\ sessions' = sessions \ {c} /\ closed' = closed
          /\ hpc[c] = "deleting" /\ hpc'[c] = "done"
      BY <1>0, <2>1, <2>5 DEF DeleteSession, Goto
    <3> QED
      BY <2>2, <2>3, <3>1 DEF SessionLock
  <2>6. CASE ~CloseSession(c) /\ ~DeleteSession(c)
    <3>1. sessions \subseteq sessions' /\ closed' = closed /\ hpc'[c] # "deleting"
      BY <1>0, <1>4, <2>1, <2>6
      DEF ClientHandler, FindAgent, RejectUnavailable, CreateSession, ClientRecv,
          ClientRecvFails, ForwardToAgent, Goto
    <3> QED
      BY <2>2, <2>3, <3>1 DEF SessionLock
  <2> QED
    BY <2>4, <2>5, <2>6
<1>5. \A x \in Streams :
        PeerDials(x) \/ PeerBreaks(x) \/ Receives(x) => UNCHANGED gatewayVars
  BY DEF PeerDials, PeerBreaks, Receives
<1>6. /\ \A s \in AgentStreams : AgentSends(s) => UNCHANGED gatewayVars
      /\ \A c \in ClientStreams : ClientSends(c) => UNCHANGED gatewayVars
  BY DEF AgentSends, ClientSends
<1>7. UNCHANGED vars => UNCHANGED gatewayVars
  BY DEF vars
<1> QED
  BY <1>1, <1>2, <1>3, <1>4, <1>5, <1>6, <1>7 DEF Next, GatewayStep

\* A handler that is sending to a client holds the mutex of a session that is
\* stored and open: Session.Close cannot overtake it.
THEOREM SessionMutex == Spec => []LockedSessionIsOpen
<1>1. Init => SessionLock
  BY StreamKinds DEF Init, GatewayInit, SessionLock
<1>2. TypeOK /\ HandlerState /\ SessionLock /\ [Next]_vars => SessionLock'
  BY SessionLockStep
<1>3. SessionLock => LockedSessionIsOpen
  BY DEF SessionLock, LockedSessionIsOpen
<1> QED
  BY <1>1, <1>2, <1>3, Typing, PTL DEF Spec

\* A closed session is never written to again: the only step that queues a
\* packet for a client is SendToClient, under the mutex.
THEOREM ClosedIsSilent == Spec => ClosedSessionIsSilent
<1> DEFINE Silent == \A c \in ClientStreams : closed[c] => Len(fromGw'[c]) <= Len(fromGw[c])
<1>1. TypeOK /\ HandlerState /\ SessionLock /\ [Next]_vars => Silent
  <2> SUFFICES ASSUME TypeOK, HandlerState, SessionLock, [Next]_vars,
                      NEW c \in ClientStreams, closed[c]
               PROVE  Len(fromGw'[c]) <= Len(fromGw[c])
    OBVIOUS
  <2>0. c \in Streams /\ fromGw \in [Streams -> Seq(Packet)] /\ Len(fromGw[c]) \in Nat
    BY StreamKinds DEF TypeOK, TransportTypeOK
  <2>1. CASE fromGw'[c] = fromGw[c]
    BY <2>0, <2>1
  <2>2. ASSUME NEW x \in Streams, Receives(x) PROVE Len(fromGw'[c]) <= Len(fromGw[c])
    <3>1. CASE x = c
      <4>1. fromGw[c] # << >> /\ fromGw'[c] = Tail(fromGw[c]) /\ fromGw[c] \in Seq(Packet)
        BY <2>0, <2>2, <3>1 DEF Receives, PeerRecv, Take
      <4> QED
        BY <4>1
    <3>2. CASE x # c
      BY <2>0, <2>1, <2>2, <3>2 DEF Receives, PeerRecv, Take
    <3> QED
      BY <3>1, <3>2
  <2>3. ASSUME NEW s \in AgentStreams, AgentHandler(s, GatewayBody)
        PROVE  fromGw'[c] = fromGw[c]
    <3>1. CASE SendConnectOK(s, GatewayBody)
      BY <2>0, <3>1, StreamKinds DEF SendConnectOK, Put
    <3>2. CASE SendToClient(s)
      BY <2>0, <3>2 DEF SendToClient, Put, SessionLock
    <3>3. CASE ~SendConnectOK(s, GatewayBody) /\ ~SendToClient(s)
      BY <2>3, <3>3 DEF AgentHandler, AgentConnect, AgentRecv, AgentRecvFails,
                        LockSession, AgentReturn
    <3> QED
      BY <3>1, <3>2, <3>3
  <2>4. ASSUME NEW d \in ClientStreams, ClientHandler(d) PROVE fromGw'[c] = fromGw[c]
    <3>1. CASE ForwardToAgent(d)
      <4>1. bound[d] \in AgentStreams
        BY <3>1 DEF ForwardToAgent, HandlerState
      <4> QED
        BY <2>0, <3>1, <4>1, StreamKinds DEF ForwardToAgent, Put
    <3>2. CASE ~ForwardToAgent(d)
      BY <2>4, <3>2
      DEF ClientHandler, FindAgent, RejectUnavailable, CreateSession, ClientRecv,
          ClientRecvFails, CloseSession, DeleteSession
    <3> QED
      BY <3>1, <3>2
  <2>5. \A x \in Streams : PeerDials(x) \/ PeerBreaks(x) \/ RejectUnauthorized(x) =>
          UNCHANGED fromGw
    BY DEF PeerDials, PeerBreaks, Dial, Break, RejectUnauthorized
  <2>6. /\ \A s \in AgentStreams : AgentSends(s) => UNCHANGED fromGw
        /\ \A d \in ClientStreams : ClientSends(d) => UNCHANGED fromGw
    BY DEF AgentSends, ClientSends, PeerSend
  <2>7. UNCHANGED vars => UNCHANGED fromGw
    BY DEF vars, transportVars
  <2> QED
    BY <2>1, <2>2, <2>3, <2>4, <2>5, <2>6, <2>7 DEF Next, GatewayStep
<1>2. Init => SessionLock
  BY StreamKinds DEF Init, GatewayInit, SessionLock
<1>3. TypeOK /\ HandlerState /\ SessionLock /\ [Next]_vars => SessionLock'
  BY SessionLockStep
<1>4. TypeOK /\ HandlerState /\ SessionLock /\ [Next]_vars => [Silent]_vars
  BY <1>1
<1> QED
  BY <1>2, <1>3, <1>4, Typing, PTL DEF Spec, ClosedSessionIsSilent

-----------------------------------------------------------------------------
(* The registry *)

\* How each step changes the registry and who is served.
LEMMA RegistryStep ==
    ASSUME TypeOK, [Next]_vars
    PROVE  \/ /\ UNCHANGED agents
              /\ \A s \in AgentStreams : Served(s)' = Served(s)
           \/ /\ UNCHANGED agents
              /\ \E s \in AgentStreams :
                   /\ hpc[s] = "none" /\ ~Served(s)'
                   /\ \A t \in AgentStreams : t # s => Served(t)' = Served(t)
           \/ \E s \in AgentStreams :
                /\ agents' = [agents EXCEPT ![IdOf[s]] = s]
                /\ ~Served(s) /\ Served(s)'
                /\ \A t \in AgentStreams : t # s => Served(t)' = Served(t)
           \/ \E s \in AgentStreams :
                /\ agents' = [agents EXCEPT ![IdOf[s]] = None]
                /\ Served(s) /\ ~Served(s)'
                /\ \A t \in AgentStreams : t # s => Served(t)' = Served(t)
<1>0. hpc \in [Streams -> AgentPC \cup ClientPC]
  BY DEF TypeOK, GatewayTypeOK
<1>1. CASE UNCHANGED <<agents, hpc>>
  BY <1>1 DEF Served
<1>2. ASSUME NEW x \in Streams, RejectUnauthorized(x)
      PROVE  /\ UNCHANGED agents /\ hpc[x] = "none" /\ hpc'[x] = "done"
             /\ \A y \in Streams : y # x => hpc'[y] = hpc[y]
  BY <1>0, <1>2 DEF RejectUnauthorized, Arrived, Goto
<1>3. ASSUME NEW x \in Streams, RejectUnauthorized(x), x \in AgentStreams
      PROVE  /\ UNCHANGED agents /\ hpc[x] = "none" /\ ~Served(x)'
             /\ \A t \in AgentStreams : t # x => Served(t)' = Served(t)
  BY <1>2, <1>3, StreamKinds DEF Served
<1>4. ASSUME NEW x \in Streams, RejectUnauthorized(x), x \notin AgentStreams
      PROVE  UNCHANGED agents /\ \A t \in AgentStreams : Served(t)' = Served(t)
  BY <1>2, <1>4, StreamKinds DEF Served
<1>5. ASSUME NEW c \in ClientStreams, ClientHandler(c)
      PROVE  UNCHANGED agents /\ \A t \in AgentStreams : Served(t)' = Served(t)
  <2>1. UNCHANGED agents /\ \A t \in AgentStreams : hpc'[t] = hpc[t]
    BY <1>0, <1>5, StreamKinds
    DEF ClientHandler, FindAgent, RejectUnavailable, CreateSession, ClientRecv,
        ClientRecvFails, ForwardToAgent, CloseSession, DeleteSession, Goto
  <2> QED
    BY <2>1 DEF Served
<1>6. ASSUME NEW s \in AgentStreams, AgentHandler(s, GatewayBody)
      PROVE  \/ UNCHANGED agents /\ \A t \in AgentStreams : Served(t)' = Served(t)
             \/ /\ agents' = [agents EXCEPT ![IdOf[s]] = s]
                /\ ~Served(s) /\ Served(s)'
                /\ \A t \in AgentStreams : t # s => Served(t)' = Served(t)
             \/ /\ agents' = [agents EXCEPT ![IdOf[s]] = None]
                /\ Served(s) /\ ~Served(s)'
                /\ \A t \in AgentStreams : t # s => Served(t)' = Served(t)
  <2>0. s \in Streams
    BY StreamKinds
  <2>1. CASE AgentConnect(s)
    BY <1>0, <2>0, <2>1, StreamKinds DEF AgentConnect, Arrived, Goto, Served
  <2>2. CASE AgentReturn(s)
    BY <1>0, <2>0, <2>2, StreamKinds DEF AgentReturn, Goto, Served
  <2>3. CASE ~AgentConnect(s) /\ ~AgentReturn(s)
    <3>1. /\ UNCHANGED agents
          /\ hpc[s] \notin {"none", "done"} /\ hpc'[s] \notin {"none", "done"}
          /\ \A y \in Streams : y # s => hpc'[y] = hpc[y]
      BY <1>0, <1>6, <2>0, <2>3
      DEF AgentHandler, SendConnectOK, AgentRecv, AgentRecvFails, LockSession,
          SendToClient, Goto
    <3> QED
      BY <3>1, StreamKinds DEF Served
  <2> QED
    BY <2>1, <2>2, <2>3
<1>7. \A x \in Streams :
        PeerDials(x) \/ PeerBreaks(x) \/ Receives(x) => UNCHANGED <<agents, hpc>>
  BY DEF PeerDials, PeerBreaks, Receives, gatewayVars
<1>8. /\ \A s \in AgentStreams : AgentSends(s) => UNCHANGED <<agents, hpc>>
      /\ \A c \in ClientStreams : ClientSends(c) => UNCHANGED <<agents, hpc>>
  BY DEF AgentSends, ClientSends, gatewayVars
<1>9. UNCHANGED vars => UNCHANGED <<agents, hpc>>
  BY DEF vars, gatewayVars
<1>10. CASE \E x \in Streams : RejectUnauthorized(x)
  BY <1>3, <1>4, <1>10
<1>11. CASE \E s \in AgentStreams : AgentHandler(s, GatewayBody)
  BY <1>6, <1>11
<1>12. CASE \E c \in ClientStreams : ClientHandler(c)
  BY <1>5, <1>12
<1> QED
  BY <1>1, <1>7, <1>8, <1>9, <1>10, <1>11, <1>12 DEF Next, GatewayStep

\* The registry never points to a connection whose handler has returned, so a
\* client is never bound to one that is already gone from the gateway.
THEOREM RegistryNamesServedAgents == Spec => []RegisteredIsServed
<1>1. Init => RegisteredIsServed
  BY DEF Init, GatewayInit, RegisteredIsServed
<1>2. TypeOK /\ TypeOK' /\ RegisteredIsServed /\ [Next]_vars => RegisteredIsServed'
  <2> SUFFICES ASSUME TypeOK, RegisteredIsServed, [Next]_vars, TypeOK',
                      NEW id \in AgentIds, NEW t \in AgentStreams, agents'[id] = t
               PROVE  IdOf[t] = id /\ Served(t)'
    BY DEF RegisteredIsServed, Served, TypeOK, GatewayTypeOK
  <2>0. /\ agents \in [AgentIds -> AgentStreams \cup {None}]
        /\ \A i \in AgentIds : agents[i] = t => IdOf[t] = i /\ Served(t)
    BY StreamKinds DEF TypeOK, GatewayTypeOK, RegisteredIsServed, Served
  <2>1. \A s \in AgentStreams : hpc[s] = "none" => ~Served(s)
    BY DEF Served
  <2> QED
    BY <2>0, <2>1, RegistryStep, GatewayAssumption, StreamKinds
<1> QED
  BY <1>1, <1>2, Typing, PTL DEF Spec

\* If the connections of an agent id never overlap, every served agent is in
\* the registry under its own connection.
THEOREM RegistryExactWithoutOverlap == Spec => ExactWithoutOverlap
<1>1. Init => RegistryExact
  BY StreamKinds DEF Init, GatewayInit, RegistryExact, Served
<1>2. TypeOK /\ RegistryExact /\ NoOverlap /\ NoOverlap' /\ [Next]_vars => RegistryExact'
  <2> SUFFICES ASSUME TypeOK, RegistryExact, NoOverlap, NoOverlap', [Next]_vars,
                      NEW t \in AgentStreams, Served(t)'
               PROVE  agents'[IdOf[t]] = t
    BY DEF RegistryExact
  <2>0. /\ agents \in [AgentIds -> AgentStreams \cup {None}]
        /\ IdOf \in [AgentStreams -> AgentIds]
        /\ \A s \in AgentStreams : Served(s) => agents[IdOf[s]] = s
        /\ \A s \in AgentStreams : s # t /\ IdOf[s] = IdOf[t] =>
              ~(Served(s) /\ Served(t)) /\ ~(Served(s)' /\ Served(t)')
    BY GatewayAssumption DEF TypeOK, GatewayTypeOK, RegistryExact, NoOverlap
  <2> QED
    BY <2>0, RegistryStep
<1> QED
  BY <1>1, <1>2, Typing, PTL DEF Spec, ExactWithoutOverlap

-----------------------------------------------------------------------------
(* The order of packets *)

\* The packet with number m has passed the handler of stream x.
Passed(m, x) ==
    /\ m <= sent[x]
    /\ \A p \in Range(toGw[x]) : m < p.body.n
    /\ hand[x] # None => m < hand[x].body.n

\* The packets of stream x before the handler's hand are in order, behind it.
Line(x) ==
    /\ \A i, j \in DOMAIN toGw[x] : i < j => toGw[x][i].body.n < toGw[x][j].body.n
    /\ \A p \in Range(toGw[x]) : 0 < p.body.n /\ p.body.n <= sent[x]
    /\ hand[x] # None => /\ 0 < hand[x].body.n /\ hand[x].body.n <= sent[x]
                         /\ \A p \in Range(toGw[x]) : hand[x].body.n < p.body.n

\* The packets of session c from x are in order before y.
Flow(x, y, c) ==
    /\ InOrder(fromGw[y], c)
    /\ \A i \in Of(fromGw[y], c) : /\ seen[y][c] < fromGw[y][i].body.n
                                   /\ Passed(fromGw[y][i].body.n, x)
    /\ Passed(seen[y][c], x)

\* A handler has a packet in hand only while it works on it.
HandEmpty ==
    /\ \A s \in AgentStreams : hpc[s] \notin {"route", "sending"} => hand[s] = None
    /\ \A c \in ClientStreams : hpc[c] # "forward" => hand[c] = None

Order ==
    /\ HandEmpty
    /\ \A x \in Streams : Line(x)
    /\ \A c \in ClientStreams : seen[c][c] > 0 => bound[c] # None
    /\ \A c \in ClientStreams : bound[c] # None => Flow(bound[c], c, c) /\ Flow(c, bound[c], c)

\* The places of packets after one is appended.
LEMMA AppendPlaces ==
    ASSUME NEW q \in Seq(Packet), NEW p \in Packet, NEW c
    PROVE  /\ \A i \in DOMAIN q : i \in 1..Len(q) /\ i \in DOMAIN Append(q, p) /\ Append(q, p)[i] = q[i]
           /\ \A i \in DOMAIN Append(q, p) : i \in DOMAIN q \/ i = Len(q) + 1
           /\ Append(q, p)[Len(q) + 1] = p
           /\ Len(q) \in Nat
  OBVIOUS

\* And after one is taken.
LEMMA TailPlaces ==
    ASSUME NEW q \in Seq(Packet), q # << >>
    PROVE  /\ \A i \in DOMAIN Tail(q) : i \in Nat /\ i + 1 \in DOMAIN q /\ Tail(q)[i] = q[i + 1]
                                        /\ 1 < i + 1
           /\ 1 \in DOMAIN q /\ Head(q) = q[1]
  OBVIOUS

\* Numbers are naturals.
LEMMA NumberTypes ==
    ASSUME TypeOK, NEW x \in Streams
    PROVE  /\ \A i \in DOMAIN toGw[x] : toGw[x][i] \in Packet /\ toGw[x][i].body.n \in Nat
           /\ \A i \in DOMAIN fromGw[x] : fromGw[x][i] \in Packet /\ fromGw[x][i].body.n \in Nat
           /\ \A p \in Range(toGw[x]) : p \in Packet /\ p.body.n \in Nat
           /\ hand[x] # None => hand[x] \in Packet /\ hand[x].body.n \in Nat
           /\ sent[x] \in Nat
           /\ \A c \in ClientStreams : seen[x][c] \in Nat
           /\ toGw[x] \in Seq(Packet) /\ fromGw[x] \in Seq(Packet)
<1>1. \A p \in Packet : p.body.n \in Nat
  BY PacketParts, MaxSendAssumption
<1>2. toGw[x] \in Seq(Packet) /\ fromGw[x] \in Seq(Packet)
  BY DEF TypeOK, TransportTypeOK
<1>3. /\ \A i \in DOMAIN toGw[x] : toGw[x][i] \in Packet
      /\ \A i \in DOMAIN fromGw[x] : fromGw[x][i] \in Packet
      /\ \A p \in Range(toGw[x]) : p \in Packet
  BY <1>2, RangeMember
<1>4. hand[x] # None => hand[x] \in Packet
  BY DEF TypeOK, GatewayTypeOK
<1>5. sent[x] \in Nat /\ \A c \in ClientStreams : seen[x][c] \in Nat
  BY MaxSendAssumption DEF TypeOK
<1> QED
  BY <1>1, <1>2, <1>3, <1>4, <1>5

\* A stream whose queue stays as it is.
LEMMA LineKeeps ==
    ASSUME NEW x \in Streams, Line(x), toGw'[x] = toGw[x], sent'[x] = sent[x],
           hand'[x] = hand[x] \/ hand'[x] = None
    PROVE  Line(x)'
  BY DEF Line, Range

\* A peer sends its next packet.
LEMMA LineSends ==
    ASSUME TypeOK, NEW x \in Streams, Line(x), NEW p \in Packet, p.body.n = sent[x] + 1,
           toGw'[x] = Append(toGw[x], p), sent'[x] = sent[x] + 1, hand'[x] = hand[x]
    PROVE  Line(x)'
<1>1. toGw[x] \in Seq(Packet) /\ sent[x] \in Nat
  BY NumberTypes
<1>2. \A i \in DOMAIN toGw[x] : toGw[x][i].body.n \in Nat /\ toGw[x][i].body.n <= sent[x]
  BY NumberTypes DEF Line, Range
<1>3. \A i, j \in DOMAIN toGw'[x] : i < j => toGw'[x][i].body.n < toGw'[x][j].body.n
  <2> SUFFICES ASSUME NEW i \in DOMAIN toGw'[x], NEW j \in DOMAIN toGw'[x], i < j
               PROVE  toGw'[x][i].body.n < toGw'[x][j].body.n
    OBVIOUS
  <2>1. CASE j \in DOMAIN toGw[x]
    BY <1>1, <2>1, AppendPlaces DEF Line
  <2>2. CASE j = Len(toGw[x]) + 1
    <3>1. i \in DOMAIN toGw[x]
      BY <1>1, <2>2, AppendPlaces
    <3> QED
      BY <1>1, <1>2, <2>2, <3>1, AppendPlaces
  <2> QED
    BY <1>1, <2>1, <2>2, AppendPlaces
<1>4. Range(toGw'[x]) = Range(toGw[x]) \cup {p}
  BY <1>1, RangeAppend
<1>5. \A r \in Range(toGw'[x]) : 0 < r.body.n /\ r.body.n <= sent'[x]
  BY <1>1, <1>4, NumberTypes DEF Line
<1>6. ASSUME hand'[x] # None
      PROVE  /\ 0 < hand'[x].body.n /\ hand'[x].body.n <= sent'[x]
             /\ \A r \in Range(toGw'[x]) : hand'[x].body.n < r.body.n
  BY <1>1, <1>4, <1>6, NumberTypes DEF Line
<1> QED
  BY <1>3, <1>5, <1>6 DEF Line

\* The handler takes a packet, into its hand or not.
LEMMA LineTakes ==
    ASSUME TypeOK, NEW x \in Streams, Line(x), toGw[x] # << >>, toGw'[x] = Tail(toGw[x]),
           sent'[x] = sent[x], hand[x] = None,
           hand'[x] = None \/ hand'[x].body = Head(toGw[x]).body
    PROVE  Line(x)'
<1>1. toGw[x] \in Seq(Packet)
  BY NumberTypes
<1>2. \A i, j \in DOMAIN toGw'[x] : i < j => toGw'[x][i].body.n < toGw'[x][j].body.n
  <2> SUFFICES ASSUME NEW i \in DOMAIN toGw'[x], NEW j \in DOMAIN toGw'[x], i < j
               PROVE  toGw'[x][i].body.n < toGw'[x][j].body.n
    OBVIOUS
  <2>1. i + 1 < j + 1 /\ i + 1 \in DOMAIN toGw[x] /\ j + 1 \in DOMAIN toGw[x]
    BY <1>1, TailPlaces
  <2> QED
    BY <1>1, <2>1, TailPlaces DEF Line
<1>3. Range(toGw'[x]) \subseteq Range(toGw[x]) /\ Head(toGw[x]) \in Range(toGw[x])
  BY <1>1, RangeTail
<1>4. \A r \in Range(toGw'[x]) : Head(toGw[x]).body.n < r.body.n
  <2> SUFFICES ASSUME NEW i \in DOMAIN toGw'[x]
               PROVE  Head(toGw[x]).body.n < toGw'[x][i].body.n
    BY DEF Range
  <2> QED
    BY <1>1, TailPlaces DEF Line
<1> QED
  BY <1>2, <1>3, <1>4 DEF Line

\* What has passed stays ahead of what is sent later.
LEMMA PassedStays ==
    ASSUME TypeOK, NEW x \in Streams, NEW m \in Nat, Passed(m, x),
           sent'[x] = sent[x] \/ sent'[x] = sent[x] + 1,
           \A p \in Range(toGw'[x]) : p \in Range(toGw[x]) \/ p.body.n = sent[x] + 1,
           \/ hand'[x] = None \/ hand'[x] = hand[x]
           \/ \E p \in Range(toGw[x]) : hand'[x].body = p.body
    PROVE  Passed(m, x)'
<1>1. sent[x] \in Nat
  BY NumberTypes
<1> QED
  BY <1>1 DEF Passed

\* A flow that only what is behind it moves.
LEMMA FlowKeeps ==
    ASSUME TypeOK, NEW x \in Streams, NEW y \in Streams, NEW c \in ClientStreams, Flow(x, y, c),
           \A m \in Nat : Passed(m, x) => Passed(m, x)',
           fromGw'[y] = fromGw[y], seen'[y][c] = seen[y][c]
    PROVE  Flow(x, y, c)'
<1>1. \A i \in Of(fromGw[y], c) : i \in DOMAIN fromGw[y] /\ fromGw[y][i].body.n \in Nat
  BY NumberTypes DEF Of
<1>2. seen[y][c] \in Nat
  BY NumberTypes
<1>3. \A i \in Of(fromGw'[y], c) : Passed(fromGw[y][i].body.n, x)'
  BY <1>1 DEF Flow
<1>4. Passed(seen[y][c], x)'
  BY <1>2 DEF Flow
<1> QED
  BY <1>3, <1>4 DEF Flow, InOrder, Of, Passed

\* A packet of another session is put before y.
LEMMA FlowSkips ==
    ASSUME TypeOK, NEW x \in Streams, NEW y \in Streams, NEW c \in ClientStreams, Flow(x, y, c),
           \A m \in Nat : Passed(m, x) => Passed(m, x)',
           NEW p \in Packet, p.sid # c, fromGw'[y] = Append(fromGw[y], p), seen'[y][c] = seen[y][c]
    PROVE  Flow(x, y, c)'
<1>1. fromGw[y] \in Seq(Packet) /\ seen[y][c] \in Nat
  BY NumberTypes
<1>2. ASSUME NEW i \in Of(fromGw'[y], c)
      PROVE  /\ i \in Of(fromGw[y], c) /\ fromGw'[y][i] = fromGw[y][i]
             /\ fromGw[y][i].body.n \in Nat
  BY <1>1, <1>2, AppendPlaces, NumberTypes DEF Of
<1>3. InOrder(fromGw'[y], c)
  BY <1>2 DEF InOrder, Flow
<1>4. \A i \in Of(fromGw'[y], c) : /\ seen'[y][c] < fromGw'[y][i].body.n
                                   /\ Passed(fromGw[y][i].body.n, x)
  BY <1>2 DEF Flow
<1>5. ASSUME NEW i \in Of(fromGw'[y], c), NEW m, m = fromGw'[y][i].body.n
      PROVE  Passed(m, x)'
  BY <1>2, <1>4, <1>5
<1>6. ASSUME NEW m, m = seen[y][c]
      PROVE  Passed(m, x)'
  BY <1>1, <1>6 DEF Flow
<1> QED
  BY <1>3, <1>4, <1>5, <1>6 DEF Flow, InOrder, Of, Passed

\* The packet in the hand of x's handler is put before y.
LEMMA FlowPuts ==
    ASSUME TypeOK, NEW x \in Streams, NEW y \in Streams, NEW c \in ClientStreams, Flow(x, y, c),
           Line(x), \A m \in Nat : Passed(m, x) => Passed(m, x)',
           hand[x] # None, hand[x].sid = c, hand'[x] = None,
           fromGw'[y] = Append(fromGw[y], hand[x]), seen'[y][c] = seen[y][c],
           toGw'[x] = toGw[x], sent'[x] = sent[x]
    PROVE  Flow(x, y, c)'
<1>0. PICK n : n = hand[x].body.n
  OBVIOUS
<1>1. /\ fromGw[y] \in Seq(Packet) /\ seen[y][c] \in Nat /\ hand[x] \in Packet /\ n \in Nat
  BY <1>0, NumberTypes
<1>2. Passed(n, x)'
  BY <1>0 DEF Passed, Line
<1>3. ASSUME NEW i \in Of(fromGw'[y], c)
      PROVE  \/ /\ i \in Of(fromGw[y], c) /\ fromGw'[y][i] = fromGw[y][i]
                /\ fromGw[y][i].body.n \in Nat /\ i \in 1..Len(fromGw[y])
             \/ i = Len(fromGw[y]) + 1 /\ fromGw'[y][i].body.n = n
  BY <1>0, <1>1, <1>3, AppendPlaces, NumberTypes DEF Of
<1>4. \A i \in Of(fromGw[y], c) : fromGw[y][i].body.n < n /\ seen[y][c] < fromGw[y][i].body.n
  BY <1>0 DEF Flow, Passed
<1>5. seen[y][c] < n
  BY <1>0 DEF Flow, Passed
<1>6. InOrder(fromGw'[y], c)
  <2> SUFFICES ASSUME NEW i \in Of(fromGw'[y], c), NEW j \in Of(fromGw'[y], c), i < j
               PROVE  fromGw'[y][i].body.n < fromGw'[y][j].body.n
    BY DEF InOrder
  <2>1. CASE j \in Of(fromGw[y], c) /\ fromGw'[y][j] = fromGw[y][j] /\ j \in 1..Len(fromGw[y])
    <3>1. i \in Of(fromGw[y], c) /\ fromGw'[y][i] = fromGw[y][i]
      BY <1>1, <1>3, <2>1
    <3> QED
      BY <2>1, <3>1 DEF Flow, InOrder
  <2>2. CASE j = Len(fromGw[y]) + 1 /\ fromGw'[y][j].body.n = n
    <3>0. Len(fromGw[y]) \in Nat
      BY <1>1
    <3>1. i \in Of(fromGw[y], c) /\ fromGw'[y][i] = fromGw[y][i]
      <4>1. i # Len(fromGw[y]) + 1
        BY <2>2, <3>0
      <4> QED
        BY <1>3, <4>1
    <3> QED
      BY <1>4, <2>2, <3>1
  <2> QED
    BY <1>3, <2>1, <2>2
<1>7. ASSUME NEW i \in Of(fromGw'[y], c)
      PROVE  seen'[y][c] < fromGw'[y][i].body.n
  BY <1>3, <1>4, <1>5, <1>7
<1>8. ASSUME NEW i \in Of(fromGw'[y], c), NEW m, m = fromGw'[y][i].body.n
      PROVE  Passed(m, x)'
  <2>1. CASE i \in Of(fromGw[y], c) /\ fromGw'[y][i] = fromGw[y][i] /\ fromGw[y][i].body.n \in Nat
    <3>1. Passed(m, x) /\ m \in Nat
      BY <1>8, <2>1 DEF Flow
    <3> QED
      BY <3>1
  <2> QED
    BY <1>2, <1>3, <1>8, <2>1
<1>9. ASSUME NEW m, m = seen[y][c]
      PROVE  Passed(m, x)'
  BY <1>1, <1>9 DEF Flow
<1> QED
  BY <1>6, <1>7, <1>8, <1>9 DEF Flow, InOrder, Of, Passed

\* The peer y receives a packet.
LEMMA FlowTakes ==
    ASSUME TypeOK, NEW x \in Streams, NEW y \in Streams, NEW c \in ClientStreams, Flow(x, y, c),
           fromGw[y] # << >>, fromGw'[y] = Tail(fromGw[y]),
           seen'[y][c] = IF Head(fromGw[y]).sid = c THEN Head(fromGw[y]).body.n ELSE seen[y][c],
           toGw'[x] = toGw[x], sent'[x] = sent[x], hand'[x] = hand[x]
    PROVE  Flow(x, y, c)'
<1>1. fromGw[y] \in Seq(Packet)
  BY NumberTypes
<1>2. ASSUME NEW i \in Of(fromGw'[y], c)
      PROVE  i + 1 \in Of(fromGw[y], c) /\ fromGw'[y][i] = fromGw[y][i + 1] /\ i \in Nat
             /\ 1 < i + 1
  BY <1>1, <1>2, TailPlaces DEF Of
<1>3. 1 \in DOMAIN fromGw[y] /\ Head(fromGw[y]) = fromGw[y][1]
  BY <1>1, TailPlaces
<1>4. InOrder(fromGw'[y], c)
  <2> SUFFICES ASSUME NEW i \in Of(fromGw'[y], c), NEW j \in Of(fromGw'[y], c), i < j
               PROVE  fromGw'[y][i].body.n < fromGw'[y][j].body.n
    BY DEF InOrder
  <2>1. i + 1 < j + 1
    BY <1>2
  <2> QED
    BY <1>2, <2>1 DEF Flow, InOrder
<1>5. ASSUME NEW i \in Of(fromGw'[y], c)
      PROVE  seen'[y][c] < fromGw'[y][i].body.n
  <2>1. CASE Head(fromGw[y]).sid = c
    <3>1. 1 \in Of(fromGw[y], c)
      BY <1>3, <2>1 DEF Of
    <3> QED
      BY <1>2, <1>3, <1>5, <2>1, <3>1 DEF Flow, InOrder
  <2>2. CASE Head(fromGw[y]).sid # c
    BY <1>2, <1>5, <2>2 DEF Flow
  <2> QED
    BY <2>1, <2>2
<1>6. \A m : Passed(m, x) => Passed(m, x)'
  BY DEF Passed
<1>7. ASSUME NEW i \in Of(fromGw'[y], c), NEW m, m = fromGw'[y][i].body.n
      PROVE  Passed(m, x)'
  <2>1. Passed(m, x)
    BY <1>2, <1>7 DEF Flow
  <2> QED
    BY <1>6, <2>1
<1>8. ASSUME NEW m, m = seen'[y][c]
      PROVE  Passed(m, x)'
  <2>1. CASE Head(fromGw[y]).sid = c
    <3>1. 1 \in Of(fromGw[y], c)
      BY <1>3, <2>1 DEF Of
    <3>2. Passed(m, x)
      BY <1>3, <1>8, <2>1, <3>1 DEF Flow
    <3> QED
      BY <1>6, <3>2
  <2>2. CASE Head(fromGw[y]).sid # c
    <3>1. Passed(m, x)
      BY <1>8, <2>2 DEF Flow
    <3> QED
      BY <1>6, <3>1
  <2> QED
    BY <2>1, <2>2
<1> QED
  BY <1>4, <1>5, <1>7, <1>8 DEF Flow, InOrder, Of, Passed

\* A step after which everything that was queued by the gateway is where it was.
LEMMA OrderKeeps ==
    ASSUME TypeOK, Order, HandEmpty', UNCHANGED <<bound, seen, fromGw>>,
           \A x \in Streams : Line(x)' /\ \A m \in Nat : Passed(m, x) => Passed(m, x)'
    PROVE  Order'
<1>1. ASSUME NEW c \in ClientStreams, bound[c] # None
      PROVE  Flow(bound[c], c, c)' /\ Flow(c, bound[c], c)'
  <2>1. PICK s \in AgentStreams : s = bound[c]
    BY <1>1 DEF TypeOK, GatewayTypeOK
  <2>2. Flow(s, c, c) /\ Flow(c, s, c)
    BY <1>1, <2>1 DEF Order
  <2>3. Flow(s, c, c)' /\ Flow(c, s, c)'
    BY <2>2, FlowKeeps, StreamKinds
  <2> QED
    BY <2>1, <2>3 DEF Flow, Passed
<1> QED
  BY <1>1 DEF Order

\* A peer sends a packet.
LEMMA OrderSends ==
    ASSUME TypeOK, Order, NEW x \in Streams, NEW p \in Packet, p.body.n = sent[x] + 1,
           toGw' = Put(toGw, x, p), sent' = [sent EXCEPT ![x] = @ + 1],
           UNCHANGED <<bound, seen, fromGw, hpc, hand>>
    PROVE  Order'
<1>1. /\ toGw'[x] = Append(toGw[x], p) /\ sent'[x] = sent[x] + 1
      /\ \A y \in Streams : y # x => toGw'[y] = toGw[y] /\ sent'[y] = sent[y]
  BY PutType DEF TypeOK, TransportTypeOK
<1>2. ASSUME NEW y \in Streams
      PROVE  Line(y)' /\ \A m \in Nat : Passed(m, y) => Passed(m, y)'
  <2>1. CASE y = x
    <3>1. Range(toGw'[x]) = Range(toGw[x]) \cup {p}
      BY <1>1, RangeAppend, NumberTypes
    <3> QED
      BY <1>1, <2>1, <3>1, LineSends, PassedStays DEF Order
  <2>2. CASE y # x
    BY <1>1, <1>2, <2>2, LineKeeps, PassedStays DEF Order
  <2> QED
    BY <2>1, <2>2
<1>3. HandEmpty'
  BY DEF Order, HandEmpty
<1> QED
  BY <1>2, <1>3, OrderKeeps

\* A handler takes a packet, into its hand or not.
LEMMA OrderTakes ==
    ASSUME TypeOK, Order, NEW x \in Streams, toGw[x] # << >>, toGw' = Take(toGw, x), hand[x] = None,
           hand'[x] = None \/ hand'[x].body = Head(toGw[x]).body, HandEmpty',
           \A y \in Streams : y # x => hand'[y] = hand[y],
           UNCHANGED <<bound, seen, fromGw, sent>>
    PROVE  Order'
<1>1. /\ toGw'[x] = Tail(toGw[x]) /\ \A y \in Streams : y # x => toGw'[y] = toGw[y]
  BY TakeType DEF TypeOK, TransportTypeOK
<1>2. ASSUME NEW y \in Streams
      PROVE  Line(y)' /\ \A m \in Nat : Passed(m, y) => Passed(m, y)'
  <2>1. CASE y = x
    <3>1. Range(toGw'[x]) \subseteq Range(toGw[x]) /\ Head(toGw[x]) \in Range(toGw[x])
      BY <1>1, RangeTail, NumberTypes
    <3>2. \/ hand'[x] = None \/ \E p \in Range(toGw[x]) : hand'[x].body = p.body
      BY <3>1
    <3> QED
      BY <1>1, <2>1, <3>1, <3>2, LineTakes, PassedStays DEF Order
  <2>2. CASE y # x
    BY <1>1, <1>2, <2>2, LineKeeps, PassedStays DEF Order
  <2> QED
    BY <2>1, <2>2
<1> QED
  BY <1>2, OrderKeeps

\* A handler drops the packet in its hand.
LEMMA OrderDrops ==
    ASSUME TypeOK, Order, HandEmpty', UNCHANGED <<bound, seen, fromGw, toGw, sent>>,
           \A y \in Streams : hand'[y] = hand[y] \/ hand'[y] = None
    PROVE  Order'
<1>1. ASSUME NEW y \in Streams
      PROVE  Line(y)' /\ \A m \in Nat : Passed(m, y) => Passed(m, y)'
  BY <1>1, LineKeeps, PassedStays DEF Order
<1> QED
  BY <1>1, OrderKeeps

\* The handler of x puts what it has in hand before y, the other end of the
\* session.
LEMMA OrderPuts ==
    ASSUME TypeOK, Order, HandEmpty', NEW x \in Streams, NEW y \in Streams, NEW c \in ClientStreams,
           hand[x] # None, hand[x].sid = c, hand'[x] = None, bound[c] # None,
           \/ y = c /\ x = bound[c]
           \/ x = c /\ y = bound[c],
           \A z \in Streams : z # x => hand'[z] = hand[z],
           fromGw' = Put(fromGw, y, hand[x]), UNCHANGED <<bound, seen, toGw, sent>>
    PROVE  Order'
<1>0. hand[x] \in Packet
  BY NumberTypes
<1>1. /\ fromGw'[y] = Append(fromGw[y], hand[x])
      /\ \A z \in Streams : z # y => fromGw'[z] = fromGw[z]
  BY <1>0, PutType DEF TypeOK, TransportTypeOK
<1>2. ASSUME NEW z \in Streams
      PROVE  Line(z)' /\ \A m \in Nat : Passed(m, z) => Passed(m, z)'
  BY <1>2, LineKeeps, PassedStays DEF Order
<1>3. ASSUME NEW z \in Streams, NEW t \in Streams, NEW d \in ClientStreams, Flow(z, t, d),
             t = y /\ d = c => z = x
      PROVE  Flow(z, t, d)'
  <2>1. CASE t # y
    BY <1>1, <1>2, <1>3, <2>1, FlowKeeps
  <2>2. CASE t = y /\ d # c
    BY <1>0, <1>1, <1>2, <1>3, <2>2, FlowSkips
  <2>3. CASE t = y /\ d = c
    BY <1>1, <1>2, <1>3, <2>3, FlowPuts DEF Order
  <2> QED
    BY <2>1, <2>2, <2>3
<1>4. ASSUME NEW d \in ClientStreams, bound[d] # None
      PROVE  Flow(bound[d], d, d)' /\ Flow(d, bound[d], d)'
  <2>1. PICK s \in AgentStreams : s = bound[d]
    BY <1>4 DEF TypeOK, GatewayTypeOK
  <2>2. Flow(s, d, d) /\ Flow(d, s, d)
    BY <1>4, <2>1 DEF Order
  <2>3. /\ d = y /\ d = c => s = x
        /\ s = y /\ d = c => d = x
    BY <2>1, StreamKinds DEF TypeOK, GatewayTypeOK
  <2>4. Flow(s, d, d)' /\ Flow(d, s, d)'
    BY <1>3, <2>2, <2>3, StreamKinds
  <2> QED
    BY <2>1, <2>4 DEF Flow, Passed
<1> QED
  BY <1>2, <1>4 DEF Order

\* A packet without a session is queued, for an agent.
LEMMA OrderGreets ==
    ASSUME TypeOK, Order, HandEmpty', NEW y \in Streams, NEW p \in Packet, p.sid = None,
           fromGw' = Put(fromGw, y, p), UNCHANGED <<bound, seen, toGw, sent, hand>>
    PROVE  Order'
<1>1. /\ fromGw'[y] = Append(fromGw[y], p)
      /\ \A z \in Streams : z # y => fromGw'[z] = fromGw[z]
  BY PutType DEF TypeOK, TransportTypeOK
<1>2. ASSUME NEW z \in Streams
      PROVE  Line(z)' /\ \A m \in Nat : Passed(m, z) => Passed(m, z)'
  BY <1>2, LineKeeps, PassedStays DEF Order
<1>3. ASSUME NEW z \in Streams, NEW t \in Streams, NEW d \in ClientStreams, Flow(z, t, d)
      PROVE  Flow(z, t, d)'
  <2>1. CASE t # y
    BY <1>1, <1>2, <1>3, <2>1, FlowKeeps
  <2>2. CASE t = y
    BY <1>1, <1>2, <1>3, <2>2, FlowSkips, StreamKinds
  <2> QED
    BY <2>1, <2>2
<1>4. ASSUME NEW d \in ClientStreams, bound[d] # None
      PROVE  Flow(bound[d], d, d)' /\ Flow(d, bound[d], d)'
  <2>1. PICK s \in AgentStreams : s = bound[d]
    BY <1>4 DEF TypeOK, GatewayTypeOK
  <2>2. Flow(s, d, d)' /\ Flow(d, s, d)'
    BY <1>3, <1>4, <2>1, StreamKinds DEF Order
  <2> QED
    BY <2>1, <2>2 DEF Flow, Passed
<1> QED
  BY <1>2, <1>4 DEF Order

\* A peer receives a packet.
LEMMA OrderReceives ==
    ASSUME TypeOK, Routing, Order, NEW y \in Streams, Receives(y)
    PROVE  Order'
<1>1. /\ fromGw[y] # << >> /\ fromGw' = Take(fromGw, y) /\ Head(fromGw[y]) \in Packet
      /\ UNCHANGED <<toGw, bound, hpc, hand, sent>>
  BY TakeType DEF Receives, PeerRecv, gatewayVars, TypeOK, TransportTypeOK
<1>2. /\ fromGw'[y] = Tail(fromGw[y]) /\ \A z \in Streams : z # y => fromGw'[z] = fromGw[z]
  BY <1>1, TakeType DEF TypeOK, TransportTypeOK
<1>3. /\ \A z \in Streams, c \in ClientStreams : z # y => seen'[z][c] = seen[z][c]
      /\ \A c \in ClientStreams : seen'[y][c] =
           IF Head(fromGw[y]).sid = c THEN Head(fromGw[y]).body.n ELSE seen[y][c]
  <2>1. seen \in [Streams -> [ClientStreams -> 0..MaxSend]]
    BY DEF TypeOK
  <2>2. Head(fromGw[y]).sid \in ClientStreams \cup {None}
    BY <1>1, PacketParts
  <2>3. seen' = IF Head(fromGw[y]).sid = None THEN seen
                ELSE [seen EXCEPT ![y][Head(fromGw[y]).sid] = Head(fromGw[y]).body.n]
    BY DEF Receives
  <2>4. None \notin ClientStreams
    BY StreamKinds
  <2> QED
    BY <2>1, <2>2, <2>3, <2>4
<1>4. HandEmpty' /\ \A z \in Streams : Line(z)' /\ \A m \in Nat : Passed(m, z) => Passed(m, z)'
  BY <1>1 DEF Order, HandEmpty, Line, Passed
<1>5. ASSUME NEW z \in Streams, NEW t \in Streams, NEW d \in ClientStreams, Flow(z, t, d)
      PROVE  Flow(z, t, d)'
  <2>1. CASE t # y
    BY <1>2, <1>3, <1>4, <1>5, <2>1, FlowKeeps
  <2>2. CASE t = y
    BY <1>1, <1>2, <1>3, <1>5, <2>2, FlowTakes
  <2> QED
    BY <2>1, <2>2
<1>6. ASSUME NEW d \in ClientStreams, bound[d] # None
      PROVE  Flow(bound[d], d, d)' /\ Flow(d, bound[d], d)'
  <2>1. PICK s \in AgentStreams : s = bound[d]
    BY <1>6 DEF TypeOK, GatewayTypeOK
  <2>2. Flow(s, d, d)' /\ Flow(d, s, d)'
    BY <1>5, <1>6, <2>1, StreamKinds DEF Order
  <2> QED
    BY <1>1, <2>1, <2>2 DEF Flow, Passed
<1>7. ASSUME NEW c \in ClientStreams, seen'[c][c] > 0
      PROVE  bound'[c] # None
  BY <1>1, <1>3, <1>7, StreamKinds DEF Order, Routing
<1> QED
  BY <1>1, <1>4, <1>6, <1>7 DEF Order

\* A session captures its agent: nothing has been sent on it yet.
LEMMA OrderBinds ==
    ASSUME TypeOK, Routing, Order, NEW c \in ClientStreams, FindAgent(c), UNCHANGED <<sent, seen>>
    PROVE  Order'
<1>0. PICK s \in AgentStreams : bound' = [bound EXCEPT ![c] = s]
  <2>1. Candidates(c) \subseteq AgentStreams
    BY GatewayAssumption DEF Candidates, TypeOK, GatewayTypeOK
  <2> QED
    BY <2>1 DEF FindAgent
<1>1. /\ hpc[c] = "none" /\ hpc' = [hpc EXCEPT ![c] = "found"]
      /\ UNCHANGED <<toGw, fromGw, hand, sent, seen>>
  BY DEF FindAgent, Arrived, Goto
<1>2. bound[c] = None /\ bound'[c] = s /\ \A d \in ClientStreams : d # c => bound'[d] = bound[d]
  BY <1>0, <1>1 DEF Routing, TypeOK, GatewayTypeOK
<1>3. HandEmpty' /\ \A z \in Streams : Line(z)' /\ \A m \in Nat : Passed(m, z) => Passed(m, z)'
  <2>1. HandEmpty'
    BY <1>1, StreamKinds DEF Order, HandEmpty, TypeOK, GatewayTypeOK
  <2> QED
    BY <1>1, <2>1 DEF Order, Line, Passed
<1>4. ASSUME NEW z \in Streams
      PROVE  Passed(0, z)
  BY <1>4, NumberTypes DEF Order, Line, Passed
<1>5. s \in Streams /\ c \in Streams /\ s # None
  BY StreamKinds
<1>6. Flow(s, c, c)
  <2>1. fromGw[c] = << >> /\ seen[c][c] = 0
    BY <1>2, <1>5, NumberTypes DEF Routing, Order
  <2>2. Of(fromGw[c], c) = {}
    BY <2>1 DEF Of
  <2> QED
    BY <1>4, <1>5, <2>1, <2>2 DEF Flow, InOrder, Passed
<1>7. Flow(c, s, c)
  <2>1. seen[s][c] = 0
    BY <1>2, <1>5, NumberTypes DEF Routing
  <2>2. \A p \in Range(fromGw[s]) : p.sid # c
    BY <1>2, <1>5, StreamKinds DEF Routing, ForwardedOnlyToBoundAgent
  <2>3. Of(fromGw[s], c) = {}
    BY <2>2 DEF Of, Range
  <2> QED
    BY <1>4, <1>5, <2>1, <2>3 DEF Flow, InOrder, Passed
<1>8. ASSUME NEW d \in ClientStreams, bound'[d] # None
      PROVE  Flow(bound[d], d, d)' /\ Flow(d, bound[d], d)'
  <2>1. PICK t \in AgentStreams : t = bound'[d]
    BY <1>0, <1>2, <1>8 DEF TypeOK, GatewayTypeOK
  <2>2. Flow(t, d, d) /\ Flow(d, t, d)
    BY <1>2, <1>6, <1>7, <1>8, <2>1 DEF Order
  <2>3. Flow(t, d, d)' /\ Flow(d, t, d)'
    BY <1>1, <1>3, <2>2, FlowKeeps, StreamKinds
  <2> QED
    BY <1>1, <2>1, <2>3 DEF Flow, Passed
<1>9. \A d \in ClientStreams : seen'[d][d] > 0 => bound'[d] # None
  BY <1>1, <1>2, <1>5 DEF Order
<1> QED
  BY <1>3, <1>8, <1>9 DEF Order

\* Every step keeps packets in order.
LEMMA OrderStep ==
    ASSUME TypeOK, HandlerState, Routing, Order, [Next]_vars
    PROVE  Order'
<1>0. /\ hpc \in [Streams -> AgentPC \cup ClientPC] /\ hand \in [Streams -> Packet \cup {None}]
      /\ HandEmpty
  BY DEF TypeOK, GatewayTypeOK, Order
<1>1. CASE UNCHANGED vars
  <2>1. HandEmpty'
    BY <1>0, <1>1 DEF HandEmpty, vars, gatewayVars
  <2> QED
    BY <1>1, <2>1, OrderDrops DEF vars, gatewayVars, transportVars
<1>2. ASSUME NEW x \in Streams, PeerDials(x) \/ PeerBreaks(x)
      PROVE  Order'
  <2>1. UNCHANGED <<bound, seen, fromGw, toGw, sent, hand, hpc>>
    BY <1>2 DEF PeerDials, PeerBreaks, Dial, Break, gatewayVars
  <2> QED
    BY <1>0, <2>1, OrderDrops DEF HandEmpty
<1>3. ASSUME NEW x \in Streams, GatewayStep(RejectUnauthorized(x))
      PROVE  Order'
  <2>1. UNCHANGED <<bound, seen, fromGw, toGw, sent, hand>> /\ hpc' = [hpc EXCEPT ![x] = "done"]
        /\ hpc[x] = "none"
    BY <1>3 DEF GatewayStep, RejectUnauthorized, Arrived, Goto
  <2>2. HandEmpty'
    BY <1>0, <2>1, StreamKinds DEF HandEmpty
  <2> QED
    BY <2>1, <2>2, OrderDrops
<1>4. ASSUME NEW s \in AgentStreams, AgentSends(s)
      PROVE  Order'
  <2>1. PICK c \in ClientStreams \cup {None}, t \in PacketTypes :
          PeerSend(s, NextPacket(s, t, c))
    BY <1>4 DEF AgentSends, PacketTypes, ClientPacketTypes
  <2> DEFINE p == NextPacket(s, t, c)
  <2>2. p \in Packet /\ p.body.n = sent[s] + 1 /\ s \in Streams
    BY <1>4, NextPacketType, StreamKinds DEF AgentSends, NextPacket
  <2>3. /\ toGw' = Put(toGw, s, p) /\ sent' = [sent EXCEPT ![s] = @ + 1]
        /\ UNCHANGED <<bound, seen, fromGw, hpc, hand>>
    BY <1>4, <2>1 DEF AgentSends, PeerSend, gatewayVars
  <2> HIDE DEF p
  <2> QED
    BY <2>2, <2>3, OrderSends
<1>5. ASSUME NEW c \in ClientStreams, ClientSends(c)
      PROVE  Order'
  <2> DEFINE p == NextPacket(c, "AgentSessionOpen", None)
  <2>2. p \in Packet /\ p.body.n = sent[c] + 1 /\ c \in Streams
    BY <1>5, NextPacketType, StreamKinds DEF ClientSends, NextPacket, PacketTypes, AgentPacketTypes
  <2>3. /\ toGw' = Put(toGw, c, p) /\ sent' = [sent EXCEPT ![c] = @ + 1]
        /\ UNCHANGED <<bound, seen, fromGw, hpc, hand>>
    BY <1>5 DEF ClientSends, PeerSend, gatewayVars
  <2> HIDE DEF p
  <2> QED
    BY <2>2, <2>3, OrderSends
<1>6. ASSUME NEW s \in AgentStreams, AgentHandler(s, GatewayBody), UNCHANGED <<sent, seen>>
      PROVE  Order'
  <2>0. s \in Streams
    BY StreamKinds
  <2>1. CASE AgentConnect(s) \/ AgentRecvFails(s) \/ AgentReturn(s)
    <3>1. /\ UNCHANGED <<bound, seen, fromGw, toGw, sent, hand>>
          /\ hpc[s] \notin {"route", "sending"}
          /\ \E pc \in {"greet", "returning", "done"} : hpc' = [hpc EXCEPT ![s] = pc]
      BY <1>6, <2>1 DEF AgentConnect, AgentRecvFails, AgentReturn, Goto, Arrived
    <3>2. HandEmpty'
      BY <1>0, <2>0, <3>1, StreamKinds DEF HandEmpty
    <3> QED
      BY <3>1, <3>2, OrderDrops
  <2>2. CASE SendConnectOK(s, GatewayBody)
    <3> DEFINE ok == [type |-> "AgentGatewayConnectOK", sid |-> None, conn |-> None,
                      body |-> GatewayBody]
    <3>1. ok \in Packet /\ ok.sid = None
      BY ConnectOKType
    <3>2. fromGw' = fromGw \/ fromGw' = Put(fromGw, s, ok)
      BY <2>2 DEF SendConnectOK
    <3>3. /\ UNCHANGED <<bound, seen, toGw, sent, hand>> /\ hpc[s] = "greet"
          /\ \E pc \in {"recv", "returning"} : hpc' = [hpc EXCEPT ![s] = pc]
      BY <1>6, <2>2 DEF SendConnectOK, Goto
    <3>4. HandEmpty'
      BY <1>0, <2>0, <3>3, StreamKinds DEF HandEmpty
    <3> HIDE DEF ok
    <3> QED
      BY <2>0, <3>1, <3>2, <3>3, <3>4, OrderDrops, OrderGreets
  <2>3. CASE AgentRecv(s)
    <3>1. /\ hpc[s] = "recv" /\ toGw[s] # << >> /\ toGw' = Take(toGw, s)
          /\ UNCHANGED <<bound, seen, fromGw, sent>>
          /\ \/ UNCHANGED <<hpc, hand>>
             \/ /\ hpc' = [hpc EXCEPT ![s] = "route"]
                /\ hand' = [hand EXCEPT ![s] = Head(toGw[s])]
      BY <1>6, <2>3 DEF AgentRecv, Goto
    <3>2. hand[s] = None
      BY <1>0, <3>1 DEF HandEmpty
    <3>3. /\ HandEmpty' /\ \A y \in Streams : y # s => hand'[y] = hand[y]
          /\ hand'[s] = None \/ hand'[s].body = Head(toGw[s]).body
      <4>1. CASE UNCHANGED <<hpc, hand>>
        BY <1>0, <3>2, <4>1 DEF HandEmpty
      <4>2. CASE hpc' = [hpc EXCEPT ![s] = "route"] /\ hand' = [hand EXCEPT ![s] = Head(toGw[s])]
        BY <1>0, <2>0, <4>2, StreamKinds DEF HandEmpty
      <4> QED
        BY <3>1, <4>1, <4>2
    <3> QED
      BY <2>0, <3>1, <3>2, <3>3, OrderTakes
  <2>4. CASE LockSession(s)
    <3>1. /\ hpc[s] = "route" /\ UNCHANGED <<bound, seen, fromGw, toGw, sent>>
          /\ \/ hpc' = [hpc EXCEPT ![s] = "recv"] /\ hand' = [hand EXCEPT ![s] = None]
             \/ hpc' = [hpc EXCEPT ![s] = "sending"] /\ hand' = hand
      BY <1>6, <2>4 DEF LockSession, Goto
    <3>2. HandEmpty' /\ \A y \in Streams : hand'[y] = hand[y] \/ hand'[y] = None
      BY <1>0, <2>0, <3>1, StreamKinds DEF HandEmpty
    <3> QED
      BY <3>1, <3>2, OrderDrops
  <2>5. CASE SendToClient(s)
    <3>1. /\ hpc[s] = "sending" /\ UNCHANGED <<bound, seen, toGw, sent>>
          /\ hpc' = [hpc EXCEPT ![s] = "recv"] /\ hand' = [hand EXCEPT ![s] = None]
          /\ fromGw' = fromGw \/ fromGw' = Put(fromGw, hand[s].sid, hand[s])
      BY <1>6, <2>5 DEF SendToClient, Goto
    <3>2. /\ HandEmpty' /\ hand'[s] = None /\ \A y \in Streams : y # s => hand'[y] = hand[y]
      BY <1>0, <2>0, <3>1, StreamKinds DEF HandEmpty
    <3>3. PICK c \in ClientStreams : c = hand[s].sid
      BY <3>1 DEF HandlerState
    <3>4. bound[c] = s /\ bound[c] # None
      BY <2>0, <3>1, <3>3, StreamKinds DEF Routing
    <3>5. hand[s] # None
      BY <3>1, PacketAssumption DEF HandlerState
    <3> QED
      BY <2>0, <3>1, <3>2, <3>3, <3>4, <3>5, OrderDrops, OrderPuts, StreamKinds
  <2> QED
    BY <1>6, <2>1, <2>2, <2>3, <2>4, <2>5 DEF AgentHandler
<1>7. ASSUME NEW c \in ClientStreams, ClientHandler(c), UNCHANGED <<sent, seen>>
      PROVE  Order'
  <2>0. c \in Streams
    BY StreamKinds
  <2>1. CASE FindAgent(c)
    BY <1>7, <2>1, OrderBinds
  <2>2. CASE \/ RejectUnavailable(c) \/ CreateSession(c) \/ ClientRecvFails(c)
             \/ CloseSession(c) \/ DeleteSession(c)
    <3>1. /\ UNCHANGED <<bound, seen, fromGw, toGw, sent, hand>> /\ hpc[c] # "forward"
          /\ \E pc \in {"recv", "closing", "deleting", "done"} : hpc' = [hpc EXCEPT ![c] = pc]
      BY <1>7, <2>2 DEF RejectUnavailable, CreateSession, ClientRecvFails, CloseSession,
                        DeleteSession, Goto, Arrived
    <3>2. HandEmpty'
      BY <1>0, <2>0, <3>1, StreamKinds DEF HandEmpty
    <3> QED
      BY <3>1, <3>2, OrderDrops
  <2>3. CASE ClientRecv(c)
    <3>1. /\ hpc[c] = "recv" /\ toGw[c] # << >> /\ toGw' = Take(toGw, c)
          /\ UNCHANGED <<bound, seen, fromGw, sent>>
          /\ hpc' = [hpc EXCEPT ![c] = "forward"]
          /\ hand' = [hand EXCEPT ![c] = [Head(toGw[c]) EXCEPT !.sid = c]]
      BY <1>7, <2>3 DEF ClientRecv, Goto
    <3>2. hand[c] = None
      BY <1>0, <3>1 DEF HandEmpty
    <3>3. Head(toGw[c]) \in Packet
      BY <2>0, <3>1, TakeType DEF TypeOK, TransportTypeOK
    <3>4. [Head(toGw[c]) EXCEPT !.sid = c].body = Head(toGw[c]).body
      BY <3>3, PacketParts
    <3>5. /\ HandEmpty' /\ \A y \in Streams : y # c => hand'[y] = hand[y]
          /\ hand'[c].body = Head(toGw[c]).body
      <4> DEFINE h == [Head(toGw[c]) EXCEPT !.sid = c]
      <4>1. hand' = [hand EXCEPT ![c] = h] /\ h.body = Head(toGw[c]).body
        BY <3>1, <3>4
      <4> HIDE DEF h
      <4> QED
        BY <1>0, <2>0, <3>1, <4>1, StreamKinds DEF HandEmpty
    <3> QED
      BY <2>0, <3>1, <3>2, <3>5, OrderTakes
  <2>4. CASE ForwardToAgent(c)
    <3>1. /\ hpc[c] = "forward" /\ UNCHANGED <<bound, seen, toGw, sent>>
          /\ \E pc \in {"recv", "closing"} : hpc' = [hpc EXCEPT ![c] = pc]
          /\ hand' = [hand EXCEPT ![c] = None]
          /\ fromGw' = fromGw \/ fromGw' = Put(fromGw, bound[c], hand[c])
      BY <1>7, <2>4 DEF ForwardToAgent, Goto
    <3>2. /\ HandEmpty' /\ hand'[c] = None /\ \A y \in Streams : y # c => hand'[y] = hand[y]
      BY <1>0, <2>0, <3>1, StreamKinds DEF HandEmpty
    <3>3. hand[c] \in Packet /\ hand[c].sid = c /\ bound[c] \in AgentStreams
      BY <3>1 DEF HandlerState
    <3>4. PICK s \in AgentStreams : s = bound[c] /\ s \in Streams /\ s # None
      BY <3>3, StreamKinds
    <3>5. hand[c] # None
      BY <3>3, PacketAssumption
    <3> QED
      BY <2>0, <3>1, <3>2, <3>3, <3>4, <3>5, OrderDrops, OrderPuts
  <2> QED
    BY <1>7, <2>1, <2>2, <2>3, <2>4 DEF ClientHandler
<1> QED
  BY <1>1, <1>2, <1>3, <1>4, <1>5, <1>6, <1>7, OrderReceives DEF Next, GatewayStep

\* What a handler forwards keeps the order of the queues before and behind it,
\* on every stretch of the way of session c from x to y.
LEMMA FlowAscends ==
    ASSUME TypeOK, NEW x \in Streams, NEW y \in Streams, NEW c \in ClientStreams, NEW d,
           Line(x), Flow(x, y, c)
    PROVE  /\ InOrder(fromGw[y], c) /\ InOrder(toGw[x], d)
           /\ Ascending(<<{seen[y][c]}, Numbers(fromGw[y], c), HandNumbers(x, c),
                          Numbers(toGw[x], d)>>)
<1> DEFINE S == {seen[y][c]}
           F == Numbers(fromGw[y], c)
           H == HandNumbers(x, c)
           G == Numbers(toGw[x], d)
<1>1. InOrder(fromGw[y], c)
  BY DEF Flow
<1>2. InOrder(toGw[x], d)
  BY DEF Line, InOrder, Of
<1>3. \A m \in S, n \in F : m < n
  BY DEF Flow, Numbers
<1>4. \A m \in S, n \in H : m < n
  BY DEF Flow, Passed, HandNumbers
<1>5. \A n \in G : \E p \in Range(toGw[x]) : n = p.body.n
  BY DEF Numbers, Of, Range
<1>6. \A m \in S, n \in G : m < n
  BY <1>5 DEF Flow, Passed
<1>7. \A m \in F : Passed(m, x)
  BY DEF Flow, Numbers
<1>8. \A m \in F, n \in H : m < n
  BY <1>7 DEF Passed, HandNumbers
<1>9. \A m \in F, n \in G : m < n
  BY <1>5, <1>7 DEF Passed
<1>10. \A m \in H, n \in G : m < n
  BY <1>5 DEF Line, HandNumbers
<1>11. Ascending(<<S, F, H, G>>)
  <2> HIDE DEF S, F, H, G
  <2> QED
    BY <1>3, <1>4, <1>6, <1>8, <1>9, <1>10 DEF Ascending
<1> QED
  BY <1>1, <1>2, <1>11

\* The order of packets is an invariant.
LEMMA OrderInvariance == Spec => []Order
<1>1. Init => Order
  <2> SUFFICES ASSUME Init
               PROVE  Order
    OBVIOUS
  <2>1. /\ \A x \in Streams : toGw[x] = << >> /\ hand[x] = None
        /\ \A c \in ClientStreams : seen[c][c] = 0 /\ bound[c] = None
    BY StreamKinds DEF Init, GatewayInit, TransportInit
  <2>2. HandEmpty
    BY <2>1, StreamKinds DEF HandEmpty
  <2>3. \A x \in Streams : Line(x)
    BY <2>1 DEF Line, Range
  <2> QED
    BY <2>1, <2>2, <2>3 DEF Order
<1> QED
  BY <1>1, OrderStep, Typing, RoutingInvariance, PTL DEF Spec

\* What the agent of a session sends to its client is neither reordered nor
\* duplicated, received, queued or in a handler of the gateway.
THEOREM AnswersKeepOrder == Spec => []AnswersInOrder
<1>1. TypeOK /\ Order => AnswersInOrder
  <2> SUFFICES ASSUME TypeOK, Order, NEW c \in ClientStreams, bound[c] # None
               PROVE  /\ InOrder(fromGw[c], c) /\ InOrder(toGw[bound[c]], c)
                      /\ Ascending(<<{seen[c][c]}, Numbers(fromGw[c], c),
                                     HandNumbers(bound[c], c), Numbers(toGw[bound[c]], c)>>)
    BY DEF AnswersInOrder
  <2>1. bound[c] \in Streams /\ c \in Streams
    BY StreamKinds DEF TypeOK, GatewayTypeOK
  <2>2. Line(bound[c]) /\ Flow(bound[c], c, c)
    BY <2>1 DEF Order
  <2> QED
    BY <2>1, <2>2, FlowAscends
<1> QED
  BY <1>1, OrderInvariance, Typing, PTL

\* What the client of a session sends to its agent is neither reordered nor
\* duplicated, received, queued or in a handler of the gateway.
THEOREM RequestsKeepOrder == Spec => []RequestsInOrder
<1>1. TypeOK /\ Order => RequestsInOrder
  <2> SUFFICES ASSUME TypeOK, Order, NEW c \in ClientStreams, bound[c] # None
               PROVE  /\ InOrder(fromGw[bound[c]], c) /\ InOrder(toGw[c], None)
                      /\ Ascending(<<{seen[bound[c]][c]}, Numbers(fromGw[bound[c]], c),
                                     HandNumbers(c, c), Numbers(toGw[c], None)>>)
    BY DEF RequestsInOrder
  <2>1. bound[c] \in Streams /\ c \in Streams
    BY StreamKinds DEF TypeOK, GatewayTypeOK
  <2>2. Line(c) /\ Flow(c, bound[c], c)
    BY <2>1 DEF Order
  <2> QED
    BY <2>1, <2>2, FlowAscends
<1> QED
  BY <1>1, OrderInvariance, Typing, PTL

=============================================================================
