----------------------------- MODULE Transport -----------------------------
(***************************************************************************)
(* The gRPC streams between the gateway and its peers.                     *)
(*                                                                         *)
(* Every peer of the gateway, an agent or an API-server request, holds one *)
(* bidirectional stream of Packets (common/proto).  A stream is named by a *)
(* model value; a peer that reconnects uses a new stream.  gRPC itself is  *)
(* external: what is kept of it is that each direction is FIFO, that a     *)
(* sender blocks when the flow-control window is full, and that a stream   *)
(* can break at any time, losing any suffix of what is in flight.          *)
(***************************************************************************)
EXTENDS Naturals, Sequences

CONSTANTS
    AgentStreams,   \* streams opened by agents
    ClientStreams,  \* streams opened by clients; also the names of sessions
    ConnIds,        \* client connection ids a packet may carry
    Bodies,         \* payloads, abstract
    None,           \* the empty string, the nil pointer, the missing entry
    Window          \* packets a direction holds before its sender blocks

ASSUME WindowAssumption == Window \in Nat \ {0}

ASSUME StreamsAssumption ==
    /\ AgentStreams \cap ClientStreams = {}
    /\ None \notin AgentStreams \cup ClientStreams \cup ConnIds

VARIABLES
    link,    \* link[x]: "idle", "open", "broken" or "ended"
    toGw,    \* toGw[x]: packets sent by the peer, not yet received
    fromGw   \* fromGw[x]: packets sent by the gateway, not yet received

transportVars == <<link, toGw, fromGw>>

Streams == AgentStreams \cup ClientStreams

\* Packet types an agent handles; the gateway tells none of them apart.
AgentPacketTypes ==
    {"AgentGatewayConnectOK", "AgentSessionOpen", "AgentSessionClose",
     "AgentExecWriteStdin", "AgentTerminalWriteStdin",
     "AgentTerminalResizeTTY", "AgentCloseTCPConnection",
     "AgentTCPConnectionWrite", "AgentPGConnectionWrite",
     "AgentMySQLConnectionWrite", "AgentMSSQLConnectionWrite",
     "AgentMongoDBConnectionWrite", "AgentSSHConnectionWrite",
     "AgentHttpProxyConnectionWrite"}

\* Packet types a client handles.
ClientPacketTypes ==
    {"ClientSessionOpenOK", "ClientSessionClose",
     "ClientTCPConnectionClose", "ClientTCPConnectionWrite",
     "ClientPGConnectionWrite", "ClientMySQLConnectionWrite",
     "ClientMSSQLConnectionWrite", "ClientMongoDBConnectionWrite"}

PacketTypes == AgentPacketTypes \cup ClientPacketTypes \cup {"GatewayKeepAlive"}

\* A packet: its type, the two fields of its Spec map the control depends on
\* (gateway session id and client connection id) and its payload.
Packet ==
    [type : PacketTypes,
     sid  : ClientStreams \cup {None},
     conn : ConnIds \cup {None},
     body : Bodies]

\* The nil pointer is not a packet.
ASSUME PacketAssumption == None \notin Packet

LinkState == {"idle", "open", "broken", "ended"}

TransportTypeOK ==
    /\ link \in [Streams -> LinkState]
    /\ toGw \in [Streams -> Seq(Packet)]
    /\ fromGw \in [Streams -> Seq(Packet)]

TransportInit ==
    /\ link = [x \in Streams |-> "idle"]
    /\ toGw = [x \in Streams |-> << >>]
    /\ fromGw = [x \in Streams |-> << >>]

Put(q, x, p) == [q EXCEPT ![x] = Append(@, p)]
Take(q, x) == [q EXCEPT ![x] = Tail(@)]
Room(q, x) == Len(q[x]) < Window

\* The peer dials the gateway and creates its stream.
Dial(x) ==
    /\ link[x] = "idle"
    /\ link' = [link EXCEPT ![x] = "open"]
    /\ UNCHANGED <<toGw, fromGw>>

\* The connection is lost, or the peer's process ends or cancels the call.
\* The packets in flight stay in the queues: the error may be returned to a
\* receiver before any of them, so every suffix of them can be lost.
Break(x) ==
    /\ link[x] \in {"open", "ended"}
    /\ link' = [link EXCEPT ![x] = "broken"]
    /\ UNCHANGED <<toGw, fromGw>>

\* stream.Send of the peer.  It blocks while the window is full and fails
\* once the stream is not open any more.
PeerSend(x, p) ==
    /\ link[x] = "open"
    /\ Room(toGw, x)
    /\ toGw' = Put(toGw, x, p)
    /\ UNCHANGED <<link, fromGw>>

\* stream.Recv of the peer returns a packet.  What the gateway sent before
\* it ended the stream is still received.
PeerRecv(x) ==
    /\ fromGw[x] # << >>
    /\ fromGw' = Take(fromGw, x)
    /\ UNCHANGED <<link, toGw>>

\* stream.Recv of the peer returns an error.
PeerRecvFails(x) == \/ link[x] = "broken"
                    \/ link[x] = "ended" /\ fromGw[x] = << >>

=============================================================================
