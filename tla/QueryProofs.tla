---------------------------- MODULE QueryProofs ----------------------------
(***************************************************************************)
(* Theorems about the query path: what the API server, the gateway and the *)
(* agents do together.                                                     *)
(*                                                                         *)
(* The proofs follow one session through the system.  Its packets pass     *)
(* eight stages: from the client to the agent (8 its stream, 7 the         *)
(* gateway's hand, 6 the agent's stream) and back (5 the probe goroutine,  *)
(* 4 the loop of Run, 3 the agent's stream, 2 the gateway's hand, 1 the    *)
(* client's stream).  A session has one packet on its way to the agent or  *)
(* one batch of packets on its way back, never more; that is what makes    *)
(* the request of a query its only execution and its answer complete.      *)
(***************************************************************************)
EXTENDS QuerySystem, AgentLemmas

\* The packets in a queue, and those of session c.
Elems(q) == {q[i] : i \in DOMAIN q}
Of(q, c) == {i \in DOMAIN q : q[i].sid = c}
InQ(q, c) == {q[i] : i \in Of(q, c)}

AgentHands(c) == {hand[s] : s \in {t \in AgentStreams : hand[t] # None /\ hand[t].sid = c}}
ClientHand(c) == IF hand[c] = None THEN {} ELSE {hand[c]}

\* The packets of session c, by stage; the lower, the further ahead.
Stage(c) ==
    <<InQ(fromGw[c], c),
      AgentHands(c),
      UNION {InQ(toGw[s], c) : s \in AgentStreams},
      UNION {InQ(outbox[s], c) : s \in AgentStreams},
      UNION {InQ(opened[s][c], c) : s \in AgentStreams},
      UNION {InQ(fromGw[s], c) : s \in AgentStreams},
      ClientHand(c),
      InQ(toGw[c], None)>>

Stages == 1..8

ResultTypes == {"ClientMySQLConnectionWrite", "ClientPGConnectionWrite",
                "ClientMSSQLConnectionWrite", "ClientMongoDBConnectionWrite"}
WriteTypes == {"AgentMySQLConnectionWrite", "AgentPGConnectionWrite",
               "AgentMSSQLConnectionWrite", "AgentMongoDBConnectionWrite"}

\* Packet q of a session may follow packet p: output is followed by the end of
\* the session, and the end of a session by another or by SessionOpenOK, which
\* a failed probe sends all the same.
MayPrecede(p, q) ==
    \/ p.type \in ResultTypes /\ q.type = "ClientSessionClose"
    \/ p.type = "ClientSessionClose" /\ q.type \in {"ClientSessionClose", "ClientSessionOpenOK"}

\* The stages of a session hold its packets in a legal order.
Lined(D) ==
    /\ \A k, l \in Stages : k < l => \A p \in D[k], q \in D[l] : MayPrecede(p, q)
    /\ D[4] = {} \/ D[5] = {}

\* The packets of session c in one queue are in a legal order.
InSeq(q, c) == \A i, j \in Of(q, c) : i < j => MayPrecede(q[i], q[j])

Tidy ==
    \A c \in ClientStreams :
      /\ InSeq(fromGw[c], c) /\ InSeq(toGw[c], None)
      /\ \A s \in AgentStreams : /\ InSeq(fromGw[s], c) /\ InSeq(toGw[s], c)
                                 /\ InSeq(outbox[s], c) /\ InSeq(opened[s][c], c)

\* An agent only has packets of the sessions that captured its stream.
Owns(s, p) == p.sid \in ClientStreams => bound[p.sid] = s

\* Who the packets in the queues are addressed to.
Routing ==
    /\ \A s \in AgentStreams :
         /\ \A p \in Elems(fromGw[s]) : Addressed(p) /\ Owns(s, p)
         /\ \A p \in Elems(toGw[s]) : Owns(s, p)
         /\ \A p \in Elems(outbox[s]) : Owns(s, p)
         /\ \A c \in ClientStreams : \A p \in Elems(opened[s][c]) : p.sid = c /\ bound[c] = s
         /\ hand[s] # None => Owns(s, hand[s])
         /\ \A c \in probing[s] : bound[c] = s
    /\ \A c \in ClientStreams :
         /\ hpc[c] = "none" => bound[c] = None
         /\ \A p \in Elems(toGw[c]) : p.sid = None
         /\ \A p \in Elems(fromGw[c]) : p.sid = c
         /\ hand[c] # None => hand[c].sid = c

\* The agent of session c has its connection parameters.
Prepared(c) == bound[c] \in AgentStreams /\ c \in params[bound[c]]

\* What a packet of session c at stage k may be, and what it tells.
Content(c, k, p) ==
    /\ k <= 5 => p.type \in ResultTypes \cup {"ClientSessionClose", "ClientSessionOpenOK"}
    /\ k > 5 => /\ p.type \in {"AgentSessionOpen", SendType(c)}
                /\ p.body.query = c /\ ran[c] = 0 /\ ~Responded(c) /\ DbRow[c] \in DbTypes
    /\ p.type \in ResultTypes => p.body.query = c /\ ran[c] > 0 /\ ~Responded(c)
    /\ p.type = "ClientSessionClose" => /\ p.body.code \in ExitCodes
                                        /\ p.body.code = "0" => ran[c] > 0
    /\ p.type = "ClientSessionOpenOK" => ran[c] = 0
    /\ p.type \in WriteTypes \cup {"ClientSessionOpenOK"} => Prepared(c)

\* Nothing of session c is on its way.
Quiet(c) == \A k \in Stages : Stage(c)[k] = {}

Session(c) ==
    /\ Lined(Stage(c))
    /\ \A k \in Stages : \A p \in Stage(c)[k] : Content(c, k, p)
    /\ qpc[c] \in {"idle", "opening", "sending"} =>
         Quiet(c) /\ ran[c] = 0 /\ \A s \in AgentStreams : c \notin probing[s]
    /\ qpc[c] # "done" => answer[c] = None
    /\ qpc[c] \in {"opening", "waiting", "sending"} => DbRow[c] \in DbTypes
    /\ qpc[c] = "sending" => Prepared(c)
    /\ \A s \in AgentStreams : c \in probing[s] =>
         Quiet(c) /\ ran[c] = 0 /\ ~Responded(c) /\ c \in params[s]
    /\ Responded(c) => DbRow[c] \in DbTypes
    /\ results[c] # None => results[c] = c /\ ran[c] > 0
    /\ ran[c] <= IF DbRow[c] = "mongodb" THEN 2 ELSE 1

Answers == {[kind |-> "badRequest"], [kind |-> "error"]} \cup
           [kind : {"response"}, code : ExitCodes, results : ClientStreams \cup {None}]

ApiTypeOK ==
    /\ qpc \in [ClientStreams -> {"idle", "opening", "waiting", "sending", "done"}]
    /\ results \in [ClientStreams -> ClientStreams \cup {None}]
    /\ answer \in [ClientStreams -> Answers \cup {None}]

\* What a handler of the gateway holds at each point.
HandlerState ==
    /\ \A s \in AgentStreams : hpc[s] \in {"route", "sending"} =>
          hand[s] \in Packet /\ hand[s].sid \in ClientStreams
    /\ \A c \in ClientStreams :
          /\ hpc[c] = "forward" => hand[c] \in Packet /\ hand[c].sid = c
          /\ hpc[c] \in {"found", "recv", "forward"} => bound[c] \in AgentStreams

Types == TransportTypeOK /\ GatewayTypeOK /\ AgentTypeOK /\ ApiTypeOK /\ HandlerState

IInv == Types /\ Routing /\ Tidy /\ \A c \in ClientStreams : Session(c)

-----------------------------------------------------------------------------
(* Queues *)

\* The packets of a session in a queue after another packet was put in.
LEMMA QueueAppend ==
    ASSUME NEW q \in Seq(Packet), NEW p \in Packet, NEW c
    PROVE  /\ p.sid = c => InQ(Append(q, p), c) = InQ(q, c) \cup {p}
           /\ p.sid # c => InQ(Append(q, p), c) = InQ(q, c)
           /\ InSeq(q, c) /\ (p.sid = c => \A r \in InQ(q, c) : MayPrecede(r, p)) =>
                InSeq(Append(q, p), c)
<1>0. /\ Len(q) \in Nat /\ DOMAIN q = 1..Len(q) /\ DOMAIN Append(q, p) = 1..(Len(q) + 1)
      /\ \A i \in DOMAIN q : Append(q, p)[i] = q[i]
      /\ Append(q, p)[Len(q) + 1] = p
  OBVIOUS
<1>1. p.sid = c => Of(Append(q, p), c) = Of(q, c) \cup {Len(q) + 1}
  BY <1>0 DEF Of
<1>2. p.sid # c => Of(Append(q, p), c) = Of(q, c)
  BY <1>0 DEF Of
<1>3. \A i \in Of(q, c) : i \in DOMAIN q /\ i < Len(q) + 1 /\ q[i] \in InQ(q, c)
  BY <1>0 DEF Of, InQ
<1>4. p.sid = c => InQ(Append(q, p), c) = InQ(q, c) \cup {p}
  BY <1>0, <1>1, <1>3 DEF InQ
<1>5. p.sid # c => InQ(Append(q, p), c) = InQ(q, c)
  BY <1>0, <1>2, <1>3 DEF InQ
<1>6. ASSUME InSeq(q, c), p.sid = c => \A r \in InQ(q, c) : MayPrecede(r, p)
      PROVE  InSeq(Append(q, p), c)
  <2> SUFFICES ASSUME NEW i \in Of(Append(q, p), c), NEW j \in Of(Append(q, p), c), i < j
               PROVE  MayPrecede(Append(q, p)[i], Append(q, p)[j])
    BY DEF InSeq
  <2>1. i \in Of(q, c)
    BY <1>0, <1>1, <1>2, <1>3 DEF Of
  <2>2. CASE j \in Of(q, c)
    BY <1>0, <1>3, <1>6, <2>1, <2>2 DEF InSeq
  <2>3. CASE j \notin Of(q, c)
    BY <1>0, <1>1, <1>2, <1>3, <1>6, <2>1, <2>3
  <2> QED
    BY <2>2, <2>3
<1> QED
  BY <1>0, <1>4, <1>5, <1>6

\* The packets of a session in a queue after the first packet was taken out.
LEMMA QueueTail ==
    ASSUME NEW q \in Seq(Packet), q # << >>, NEW c
    PROVE  /\ Head(q) \in Packet
           /\ InQ(Tail(q), c) \subseteq InQ(q, c)
           /\ Head(q).sid = c => Head(q) \in InQ(q, c)
           /\ InSeq(q, c) => InSeq(Tail(q), c)
           /\ InSeq(q, c) /\ Head(q).sid = c => \A r \in InQ(Tail(q), c) : MayPrecede(Head(q), r)
           /\ \A i \in DOMAIN Tail(q) : i + 1 \in DOMAIN q /\ Tail(q)[i] = q[i + 1]
<1>0. /\ Len(q) \in Nat \ {0} /\ DOMAIN q = 1..Len(q) /\ DOMAIN Tail(q) = 1..(Len(q) - 1)
      /\ \A i \in DOMAIN Tail(q) : i + 1 \in DOMAIN q /\ Tail(q)[i] = q[i + 1] /\ 1 < i + 1
      /\ 1 \in DOMAIN q /\ Head(q) = q[1] /\ Head(q) \in Packet
  OBVIOUS
<1>1. \A i \in Of(Tail(q), c) : i + 1 \in Of(q, c) /\ Tail(q)[i] = q[i + 1] /\ 1 < i + 1
  BY <1>0 DEF Of
<1>2. InQ(Tail(q), c) \subseteq InQ(q, c)
  BY <1>1 DEF InQ
<1>3. Head(q).sid = c => 1 \in Of(q, c)
  BY <1>0 DEF Of
<1>4. Head(q).sid = c => Head(q) \in InQ(q, c)
  BY <1>0, <1>3 DEF InQ
<1>5. ASSUME InSeq(q, c), NEW i \in Of(Tail(q), c), NEW j \in Of(Tail(q), c), i < j
      PROVE  MayPrecede(Tail(q)[i], Tail(q)[j])
  <2>1. i \in Int /\ j \in Int /\ i + 1 < j + 1
    BY <1>0, <1>5 DEF Of
  <2> QED
    BY <1>1, <1>5, <2>1 DEF InSeq
<1>6. InSeq(q, c) /\ Head(q).sid = c => \A r \in InQ(Tail(q), c) : MayPrecede(Head(q), r)
  BY <1>0, <1>1, <1>3 DEF InSeq, InQ
<1> QED
  BY <1>0, <1>2, <1>4, <1>5, <1>6 DEF InSeq

\* A queue without packets of a session.
LEMMA QueueEmpty ==
    ASSUME NEW c
    PROVE  InQ(<< >>, c) = {} /\ InSeq(<< >>, c)
BY DEF InQ, Of, InSeq

\* A queue loses its first packet, or all of them.
Shorter(q, r) == r = q \/ r = << >> \/ (q # << >> /\ r = Tail(q))

\* The packets of a shorter queue.
LEMMA ShorterQueue ==
    ASSUME NEW q \in Seq(Packet), NEW r, Shorter(q, r)
    PROVE  /\ Elems(r) \subseteq Elems(q)
           /\ \A c : InQ(r, c) \subseteq InQ(q, c) /\ (InSeq(q, c) => InSeq(r, c))
<1>1. CASE r = q
  BY <1>1
<1>2. CASE r = << >>
  BY <1>2, QueueEmpty DEF Elems
<1>3. CASE q # << >> /\ r = Tail(q)
  <2>1. \A c : InQ(r, c) \subseteq InQ(q, c) /\ (InSeq(q, c) => InSeq(r, c))
    BY <1>3, QueueTail
  <2>2. \A i \in DOMAIN Tail(q) : i + 1 \in DOMAIN q /\ Tail(q)[i] = q[i + 1]
    BY <1>3, QueueTail
  <2>3. Elems(Tail(q)) \subseteq Elems(q)
    BY <2>2 DEF Elems
  <2> QED
    BY <1>3, <2>1, <2>3
<1> QED
  BY <1>1, <1>2, <1>3 DEF Shorter

\* The packets of a longer queue.
LEMMA LongerQueue ==
    ASSUME NEW q \in Seq(Packet), NEW p \in Packet
    PROVE  /\ Elems(Append(q, p)) = Elems(q) \cup {p}
           /\ \A c : InQ(Append(q, p), c) = InQ(q, c) \cup (IF p.sid = c THEN {p} ELSE {})
           /\ \A c : InSeq(q, c) /\ (p.sid = c => \A r \in InQ(q, c) : MayPrecede(r, p)) =>
                       InSeq(Append(q, p), c)
<1>1. Elems(Append(q, p)) = Elems(q) \cup {p}
  <2>1. /\ Len(q) \in Nat /\ DOMAIN q = 1..Len(q) /\ DOMAIN Append(q, p) = 1..(Len(q) + 1)
        /\ \A i \in DOMAIN q : Append(q, p)[i] = q[i]
        /\ Append(q, p)[Len(q) + 1] = p
    OBVIOUS
  <2> QED
    BY <2>1 DEF Elems
<1>2. ASSUME NEW c
      PROVE  InQ(Append(q, p), c) = InQ(q, c) \cup (IF p.sid = c THEN {p} ELSE {})
  <2>1. CASE p.sid = c
    BY <2>1, QueueAppend
  <2>2. CASE p.sid # c
    BY <2>2, QueueAppend
  <2> QED
    BY <2>1, <2>2
<1>3. ASSUME NEW c, InSeq(q, c), p.sid = c => \A r \in InQ(q, c) : MayPrecede(r, p)
      PROVE  InSeq(Append(q, p), c)
  BY <1>3, QueueAppend
<1> QED
  BY <1>1, <1>2, <1>3

\* The packets of a session are packets of the queue.
LEMMA InQElems ==
    ASSUME NEW q, NEW c
    PROVE  \A p : p \in InQ(q, c) <=> p \in Elems(q) /\ p.sid = c
BY DEF InQ, Of, Elems

-----------------------------------------------------------------------------
(* Stages *)

\* Packets may be lost.
LEMMA LinedDrops ==
    ASSUME NEW D, NEW E, Lined(D), \A k \in Stages : E[k] \subseteq D[k]
    PROVE  Lined(E)
<1>1. E[4] \subseteq D[4] /\ E[5] \subseteq D[5]
  BY DEF Stages
<1>2. E[4] = {} \/ E[5] = {}
  BY <1>1 DEF Lined
<1> QED
  BY <1>2 DEF Lined

\* A packet moves on to a stage further ahead.
LEMMA LinedMoves ==
    ASSUME NEW D, NEW E, NEW k \in Stages, NEW l \in Stages, k < l, k \notin {4, 5}, Lined(D),
           NEW p \in D[l], NEW r, r.type = p.type,
           E[k] \subseteq D[k] \cup {r},
           \A q \in E[l] : q \in D[l] /\ MayPrecede(p, q),
           \A m \in Stages : m # k /\ m # l => E[m] \subseteq D[m],
           \A m \in Stages : k < m /\ m < l => D[m] = {}
    PROVE  Lined(E)
<1>0. \A q : (MayPrecede(p, q) <=> MayPrecede(r, q)) /\ (MayPrecede(q, p) <=> MayPrecede(q, r))
  BY DEF MayPrecede
<1>1. \A m \in Stages : m # k => E[m] \subseteq D[m]
  OBVIOUS
<1>2. E[4] = {} \/ E[5] = {}
  <2>1. E[4] \subseteq D[4] /\ E[5] \subseteq D[5]
    BY <1>1 DEF Stages
  <2> QED
    BY <2>1 DEF Lined
<1>3. ASSUME NEW a \in Stages, NEW b \in Stages, a < b, NEW x \in E[a], NEW y \in E[b]
      PROVE  MayPrecede(x, y)
  <2>1. CASE x \in D[a] /\ y \in D[b]
    BY <1>3, <2>1 DEF Lined
  <2>2. CASE x \notin D[a]
    <3>1. a = k /\ x = r
      BY <1>1, <2>2
    <3>2. y \in D[b] /\ b # k
      BY <1>1, <1>3, <3>1 DEF Stages
    <3>3. CASE b = l
      BY <1>0, <3>1, <3>3
    <3>4. CASE b < l
      BY <1>3, <3>1, <3>2, <3>4
    <3>5. CASE l < b
      BY <1>0, <3>1, <3>2, <3>5 DEF Lined
    <3> QED
      BY <3>3, <3>4, <3>5 DEF Stages
  <2>3. CASE y \notin D[b]
    <3>1. b = k /\ y = r /\ a # k /\ a < l
      BY <1>1, <1>3, <2>3 DEF Stages
    <3>2. x \in D[a]
      BY <1>1, <3>1
    <3> QED
      BY <1>0, <3>1, <3>2 DEF Lined
  <2> QED
    BY <2>1, <2>2, <2>3
<1> QED
  BY <1>2, <1>3 DEF Lined

\* All packets of a session are at one stage.
LEMMA LinedAlone ==
    ASSUME NEW E, NEW k \in Stages, \A m \in Stages : m # k => E[m] = {}
    PROVE  Lined(E)
<1>1. E[4] = {} \/ E[5] = {}
  BY DEF Stages
<1>2. \A a, b \in Stages : a < b => E[a] = {} \/ E[b] = {}
  BY DEF Stages
<1> QED
  BY <1>1, <1>2 DEF Lined

\* Where the packets of a session are.
LEMMA StageIs ==
    ASSUME NEW c
    PROVE  /\ \A p : p \in Stage(c)[1] <=> p \in InQ(fromGw[c], c)
           /\ \A p : p \in Stage(c)[2] <=>
                \E s \in AgentStreams : p = hand[s] /\ p # None /\ p.sid = c
           /\ \A p : p \in Stage(c)[3] <=> \E s \in AgentStreams : p \in InQ(toGw[s], c)
           /\ \A p : p \in Stage(c)[4] <=> \E s \in AgentStreams : p \in InQ(outbox[s], c)
           /\ \A p : p \in Stage(c)[5] <=> \E s \in AgentStreams : p \in InQ(opened[s][c], c)
           /\ \A p : p \in Stage(c)[6] <=> \E s \in AgentStreams : p \in InQ(fromGw[s], c)
           /\ \A p : p \in Stage(c)[7] <=> p = hand[c] /\ p # None
           /\ \A p : p \in Stage(c)[8] <=> p \in InQ(toGw[c], None)
<1> DEFINE A == InQ(fromGw[c], c)
           B == AgentHands(c)
           C == (UNION {InQ(toGw[s], c) : s \in AgentStreams})
           D == (UNION {InQ(outbox[s], c) : s \in AgentStreams})
           E == (UNION {InQ(opened[s][c], c) : s \in AgentStreams})
           F == (UNION {InQ(fromGw[s], c) : s \in AgentStreams})
           G == ClientHand(c)
           H == InQ(toGw[c], None)
<1>1. Stage(c) = <<A, B, C, D, E, F, G, H>>
  BY DEF Stage
<1>2. \A p : p \in B <=> \E s \in AgentStreams : p = hand[s] /\ p # None /\ p.sid = c
  BY DEF AgentHands
<1>3. \A p : p \in G <=> p = hand[c] /\ p # None
  BY DEF ClientHand
<1>4. \A p : p \in C <=> \E s \in AgentStreams : p \in InQ(toGw[s], c)
  OBVIOUS
<1>5. \A p : p \in D <=> \E s \in AgentStreams : p \in InQ(outbox[s], c)
  OBVIOUS
<1>6. \A p : p \in E <=> \E s \in AgentStreams : p \in InQ(opened[s][c], c)
  OBVIOUS
<1>7. \A p : p \in F <=> \E s \in AgentStreams : p \in InQ(fromGw[s], c)
  OBVIOUS
<1>8. A = InQ(fromGw[c], c) /\ H = InQ(toGw[c], None)
  OBVIOUS
<1> HIDE DEF A, B, C, D, E, F, G, H
<1>9. /\ Stage(c)[1] = A /\ Stage(c)[2] = B /\ Stage(c)[3] = C /\ Stage(c)[4] = D
      /\ Stage(c)[5] = E /\ Stage(c)[6] = F /\ Stage(c)[7] = G /\ Stage(c)[8] = H
  BY <1>1
<1> QED
  BY <1>2, <1>3, <1>4, <1>5, <1>6, <1>7, <1>8, <1>9

\* The same after a step.
LEMMA StageNext ==
    ASSUME NEW c
    PROVE  /\ \A p : p \in Stage(c)'[1] <=> p \in InQ(fromGw'[c], c)
           /\ \A p : p \in Stage(c)'[2] <=>
                \E s \in AgentStreams : p = hand'[s] /\ p # None /\ p.sid = c
           /\ \A p : p \in Stage(c)'[3] <=> \E s \in AgentStreams : p \in InQ(toGw'[s], c)
           /\ \A p : p \in Stage(c)'[4] <=> \E s \in AgentStreams : p \in InQ(outbox'[s], c)
           /\ \A p : p \in Stage(c)'[5] <=> \E s \in AgentStreams : p \in InQ(opened'[s][c], c)
           /\ \A p : p \in Stage(c)'[6] <=> \E s \in AgentStreams : p \in InQ(fromGw'[s], c)
           /\ \A p : p \in Stage(c)'[7] <=> p = hand'[c] /\ p # None
           /\ \A p : p \in Stage(c)'[8] <=> p \in InQ(toGw'[c], None)
<1> DEFINE A == InQ(fromGw[c], c)'
           B == AgentHands(c)'
           C == (UNION {InQ(toGw[s], c) : s \in AgentStreams})'
           D == (UNION {InQ(outbox[s], c) : s \in AgentStreams})'
           E == (UNION {InQ(opened[s][c], c) : s \in AgentStreams})'
           F == (UNION {InQ(fromGw[s], c) : s \in AgentStreams})'
           G == ClientHand(c)'
           H == InQ(toGw[c], None)'
<1>1. Stage(c)' = <<A, B, C, D, E, F, G, H>>
  BY DEF Stage
<1>2. \A p : p \in B <=> \E s \in AgentStreams : p = hand'[s] /\ p # None /\ p.sid = c
  BY DEF AgentHands
<1>3. \A p : p \in G <=> p = hand'[c] /\ p # None
  BY DEF ClientHand
<1>4. \A p : p \in C <=> \E s \in AgentStreams : p \in InQ(toGw'[s], c)
  OBVIOUS
<1>5. \A p : p \in D <=> \E s \in AgentStreams : p \in InQ(outbox'[s], c)
  OBVIOUS
<1>6. \A p : p \in E <=> \E s \in AgentStreams : p \in InQ(opened'[s][c], c)
  OBVIOUS
<1>7. \A p : p \in F <=> \E s \in AgentStreams : p \in InQ(fromGw'[s], c)
  OBVIOUS
<1>8. A = InQ(fromGw'[c], c) /\ H = InQ(toGw'[c], None)
  OBVIOUS
<1> HIDE DEF A, B, C, D, E, F, G, H
<1>9. /\ Stage(c)'[1] = A /\ Stage(c)'[2] = B /\ Stage(c)'[3] = C /\ Stage(c)'[4] = D
      /\ Stage(c)'[5] = E /\ Stage(c)'[6] = F /\ Stage(c)'[7] = G /\ Stage(c)'[8] = H
  BY <1>1
<1> QED
  BY <1>2, <1>3, <1>4, <1>5, <1>6, <1>7, <1>8, <1>9

\* A stage gains nothing in a step that adds nothing to its queues.
LEMMA StageShrinks ==
    ASSUME NEW c
    PROVE  /\ InQ(fromGw'[c], c) \subseteq InQ(fromGw[c], c) => Stage(c)'[1] \subseteq Stage(c)[1]
           /\ (\A s \in AgentStreams : hand'[s] \in {hand[s], None}) => Stage(c)'[2] \subseteq Stage(c)[2]
           /\ (\A s \in AgentStreams : InQ(toGw'[s], c) \subseteq InQ(toGw[s], c)) =>
                Stage(c)'[3] \subseteq Stage(c)[3]
           /\ (\A s \in AgentStreams : InQ(outbox'[s], c) \subseteq InQ(outbox[s], c)) =>
                Stage(c)'[4] \subseteq Stage(c)[4]
           /\ (\A s \in AgentStreams : InQ(opened'[s][c], c) \subseteq InQ(opened[s][c], c)) =>
                Stage(c)'[5] \subseteq Stage(c)[5]
           /\ (\A s \in AgentStreams : InQ(fromGw'[s], c) \subseteq InQ(fromGw[s], c)) =>
                Stage(c)'[6] \subseteq Stage(c)[6]
           /\ hand'[c] \in {hand[c], None} => Stage(c)'[7] \subseteq Stage(c)[7]
           /\ InQ(toGw'[c], None) \subseteq InQ(toGw[c], None) => Stage(c)'[8] \subseteq Stage(c)[8]
<1>1. InQ(fromGw'[c], c) \subseteq InQ(fromGw[c], c) => Stage(c)'[1] \subseteq Stage(c)[1]
  BY StageIs, StageNext
<1>2. (\A s \in AgentStreams : hand'[s] \in {hand[s], None}) => Stage(c)'[2] \subseteq Stage(c)[2]
  BY StageIs, StageNext
<1>3. (\A s \in AgentStreams : InQ(toGw'[s], c) \subseteq InQ(toGw[s], c)) =>
          Stage(c)'[3] \subseteq Stage(c)[3]
  BY StageIs, StageNext
<1>4. (\A s \in AgentStreams : InQ(outbox'[s], c) \subseteq InQ(outbox[s], c)) =>
          Stage(c)'[4] \subseteq Stage(c)[4]
  BY StageIs, StageNext
<1>5. (\A s \in AgentStreams : InQ(opened'[s][c], c) \subseteq InQ(opened[s][c], c)) =>
          Stage(c)'[5] \subseteq Stage(c)[5]
  BY StageIs, StageNext
<1>6. (\A s \in AgentStreams : InQ(fromGw'[s], c) \subseteq InQ(fromGw[s], c)) =>
          Stage(c)'[6] \subseteq Stage(c)[6]
  BY StageIs, StageNext
<1>7. hand'[c] \in {hand[c], None} => Stage(c)'[7] \subseteq Stage(c)[7]
  BY StageIs, StageNext
<1>8. InQ(toGw'[c], None) \subseteq InQ(toGw[c], None) => Stage(c)'[8] \subseteq Stage(c)[8]
  BY StageIs, StageNext
<1> QED
  BY <1>1, <1>2, <1>3, <1>4, <1>5, <1>6, <1>7, <1>8

\* Facts about each of the stages are facts about all of them.
LEMMA EveryStage ==
    /\ \A k \in Stages : k \in {1, 2, 3, 4, 5, 6, 7, 8}
    /\ {1, 2, 3, 4, 5, 6, 7, 8} \subseteq Stages
BY DEF Stages

\* A step that leaves everything but the packets of session c alone.
Same(c) ==
    /\ qpc'[c] = qpc[c] /\ results'[c] = results[c] /\ answer'[c] = answer[c] /\ ran'[c] = ran[c]
    /\ \A s \in AgentStreams : c \in probing'[s] => c \in probing[s]
    /\ \A s \in AgentStreams : c \in params[s] => c \in params'[s]
    /\ Prepared(c) => Prepared(c)'

\* What is said of a packet stays true.
LEMMA ContentKept ==
    ASSUME NEW c \in ClientStreams, Same(c), NEW k \in Stages, NEW l \in Stages, k <= 5 <=> l <= 5,
           NEW p, NEW r, r.type = p.type, r.body = p.body, Content(c, l, p)
    PROVE  Content(c, k, r)'
<1>1. Responded(c)' <=> Responded(c)
  BY DEF Same, Responded
<1>2. k > 5 => l > 5
  BY DEF Stages
<1> QED
  BY <1>1, <1>2 DEF Content, Same

\* The rest of what is said of a session stays true.
LEMMA SessionKept ==
    ASSUME NEW c \in ClientStreams, Session(c), Same(c), Lined(Stage(c)'),
           \A k \in Stages : \A p \in Stage(c)'[k] : Content(c, k, p)',
           Quiet(c) => Quiet(c)'
    PROVE  Session(c)'
<1>1. Responded(c)' <=> Responded(c)
  BY DEF Same, Responded
<1>2. Lined(Stage(c))'
  BY DEF Lined, MayPrecede
<1>3. \A k \in Stages : \A p \in Stage(c)'[k] : Content(c, k, p)'
  OBVIOUS
<1>4. /\ qpc'[c] \in {"idle", "opening", "sending"} =>
           Quiet(c)' /\ ran'[c] = 0 /\ \A s \in AgentStreams : c \notin probing'[s]
      /\ qpc'[c] # "done" => answer'[c] = None
      /\ qpc'[c] \in {"opening", "waiting", "sending"} => DbRow[c] \in DbTypes
      /\ qpc'[c] = "sending" => Prepared(c)'
      /\ Responded(c)' => DbRow[c] \in DbTypes
      /\ results'[c] # None => results'[c] = c /\ ran'[c] > 0
      /\ ran'[c] <= IF DbRow[c] = "mongodb" THEN 2 ELSE 1
  BY <1>1 DEF Session, Same
<1>5. \A s \in AgentStreams : c \in probing'[s] =>
           Quiet(c)' /\ ran'[c] = 0 /\ ~Responded(c)' /\ c \in params'[s]
  BY <1>1 DEF Session, Same
<1> QED
  BY <1>2, <1>3, <1>4, <1>5 DEF Session, Stages

\* Packets of a session are lost.
LEMMA SessionDrops ==
    ASSUME NEW c \in ClientStreams, Session(c), Same(c),
           \A k \in Stages : Stage(c)'[k] \subseteq Stage(c)[k]
    PROVE  Session(c)'
<1>1. Lined(Stage(c)')
  BY LinedDrops DEF Session
<1>2. \A k \in Stages : \A p \in Stage(c)'[k] : Content(c, k, p)'
  BY ContentKept DEF Session
<1>3. Quiet(c) => Quiet(c)'
  <2>1. Quiet(c)' <=> \A k \in Stages : Stage(c)'[k] = {}
    BY DEF Quiet, Stages
  <2> QED
    BY <2>1 DEF Quiet
<1> QED
  BY <1>1, <1>2, <1>3, SessionKept

\* A packet of a session moves on.
LEMMA SessionMoves ==
    ASSUME NEW c \in ClientStreams, Session(c), Same(c),
           NEW k \in Stages, NEW l \in Stages, k < l, k \notin {4, 5}, k <= 5 <=> l <= 5,
           NEW p \in Stage(c)[l], NEW r, r.type = p.type, r.body = p.body,
           Stage(c)'[k] \subseteq Stage(c)[k] \cup {r},
           \A q \in Stage(c)'[l] : q \in Stage(c)[l] /\ MayPrecede(p, q),
           \A m \in Stages : m # k /\ m # l => Stage(c)'[m] \subseteq Stage(c)[m],
           \A m \in Stages : k < m /\ m < l => Stage(c)[m] = {}
    PROVE  Session(c)'
<1>1. Lined(Stage(c)')
  BY LinedMoves DEF Session
<1>2. ASSUME NEW m \in Stages, NEW q \in Stage(c)'[m]
      PROVE  Content(c, m, q)'
  <2>1. CASE q \in Stage(c)[m]
    BY <2>1, ContentKept DEF Session
  <2>2. CASE q \notin Stage(c)[m]
    <3>1. m = k /\ q = r
      BY <1>2, <2>2
    <3> QED
      BY <3>1, ContentKept DEF Session
  <2> QED
    BY <2>1, <2>2
<1>3. ~Quiet(c)
  BY DEF Quiet
<1> QED
  BY <1>1, <1>2, <1>3, SessionKept

\* A request of a session is its only packet.
LEMMA RequestAlone ==
    ASSUME NEW c \in ClientStreams, Session(c), NEW k \in {6, 7, 8}, NEW p \in Stage(c)[k]
    PROVE  /\ \A m \in Stages : m # k => Stage(c)[m] = {}
           /\ p.type \in WriteTypes \cup {"AgentSessionOpen"} /\ \A r : ~MayPrecede(p, r)
           /\ qpc[c] \notin {"idle", "opening", "sending"} /\ \A s \in AgentStreams : c \notin probing[s]
<1>0. k \in Stages /\ k > 5
  BY EveryStage
<1>1. p.type \in {"AgentSessionOpen", SendType(c)} /\ DbRow[c] \in DbTypes
  BY <1>0 DEF Session, Content
<1>2. SendType(c) \in WriteTypes
  BY <1>1 DEF SendType, WriteTypes, DbTypes
<1>3. p.type \in WriteTypes \cup {"AgentSessionOpen"} /\ \A r : ~MayPrecede(p, r) /\ ~MayPrecede(r, p)
  BY <1>1, <1>2 DEF WriteTypes, MayPrecede, ResultTypes
<1>4. ASSUME NEW m \in Stages, m # k, NEW q \in Stage(c)[m]
      PROVE  FALSE
  <2>1. m < k \/ k < m
    BY <1>0, <1>4 DEF Stages
  <2> QED
    BY <1>0, <1>3, <2>1 DEF Session, Lined
<1>5. ~Quiet(c)
  BY <1>0 DEF Quiet
<1> QED
  BY <1>3, <1>4, <1>5 DEF Session

-----------------------------------------------------------------------------
(* Types *)

GatewayTypes == TransportTypeOK /\ GatewayTypeOK /\ HandlerState

\* Agents' and clients' streams differ, and none is None.
LEMMA StreamKinds ==
    /\ \A s \in AgentStreams : s \in Streams /\ s \notin ClientStreams /\ s # None
    /\ \A c \in ClientStreams : c \in Streams /\ c \notin AgentStreams /\ c # None
BY StreamsAssumption DEF Streams

\* Setting the session id of a packet changes nothing else.
LEMMA PacketParts ==
    ASSUME NEW p \in Packet, NEW c \in ClientStreams
    PROVE  /\ [p EXCEPT !.sid = c] \in Packet
           /\ [p EXCEPT !.sid = c].sid = c
           /\ [p EXCEPT !.sid = c].type = p.type
           /\ [p EXCEPT !.sid = c].body = p.body
BY DEF Packet

\* The greeting of the gateway is a packet.
LEMMA ConnectOKType ==
    [type |-> "AgentGatewayConnectOK", sid |-> None, conn |-> None, body |-> NoBody] \in Packet
<1>1. NoBody \in Bodies
  BY BodiesAssumption DEF AgentBodies, NoBody
<1> QED
  BY <1>1 DEF Packet, PacketTypes, AgentPacketTypes

\* A step of an agent's handler keeps the types, and a packet in hand.
LEMMA AgentStepTypes ==
    ASSUME GatewayTypes, NEW s \in AgentStreams,
           AgentHandler(s, NoBody)
    PROVE  GatewayTypes'
<1>0. s \in Streams /\ UNCHANGED <<closed, bound>>
  BY StreamKinds DEF AgentHandler, AgentConnect, SendConnectOK, AgentRecv,
                     AgentRecvFails, LockSession, SendToClient, AgentReturn
<1>1. link' \in [Streams -> LinkState] /\ agents' \in [AgentIds -> AgentStreams \cup {None}]
      /\ sessions' = sessions
  BY <1>0, GatewayAssumption
  DEF AgentHandler, AgentConnect, SendConnectOK, AgentRecv, AgentRecvFails,
      LockSession, SendToClient, AgentReturn, EndStream, LinkState, GatewayTypes,
      TransportTypeOK, GatewayTypeOK
<1>2. toGw' \in [Streams -> Seq(Packet)]
  <2>1. CASE AgentRecv(s)
    BY <2>1, <1>0, QueueTypes DEF AgentRecv, GatewayTypes, TransportTypeOK
  <2>2. CASE ~AgentRecv(s)
    BY <2>2 DEF AgentHandler, AgentConnect, SendConnectOK,
                AgentRecvFails, LockSession, SendToClient, AgentReturn, GatewayTypes, TransportTypeOK
  <2> QED
    BY <2>1, <2>2
<1>3. fromGw' \in [Streams -> Seq(Packet)]
  <2>1. CASE SendConnectOK(s, NoBody)
    <3> DEFINE ok == [type |-> "AgentGatewayConnectOK", sid |-> None, conn |-> None,
                      body |-> NoBody]
    <3>1. ok \in Packet
      BY ConnectOKType
    <3>2. fromGw' = fromGw \/ fromGw' = Put(fromGw, s, ok)
      BY <2>1 DEF SendConnectOK
    <3>3. Put(fromGw, s, ok) \in [Streams -> Seq(Packet)]
      BY <1>0, <3>1, QueueTypes DEF GatewayTypes, TransportTypeOK
    <3> QED
      BY <3>2, <3>3 DEF GatewayTypes, TransportTypeOK
  <2>2. CASE SendToClient(s)
    <3>1. hand[s] \in Packet /\ hand[s].sid \in Streams
      BY <2>2, StreamKinds DEF SendToClient, GatewayTypes, HandlerState
    <3>2. fromGw' = fromGw \/ fromGw' = Put(fromGw, hand[s].sid, hand[s])
      BY <2>2 DEF SendToClient
    <3>3. Put(fromGw, hand[s].sid, hand[s]) \in [Streams -> Seq(Packet)]
      BY <3>1, QueueTypes DEF GatewayTypes, TransportTypeOK
    <3> QED
      BY <3>2, <3>3 DEF GatewayTypes, TransportTypeOK
  <2>3. CASE ~SendConnectOK(s, NoBody) /\ ~SendToClient(s)
    BY <2>3 DEF AgentHandler, AgentConnect, AgentRecv, AgentRecvFails,
                LockSession, AgentReturn, GatewayTypes, TransportTypeOK
  <2> QED
    BY <2>1, <2>2, <2>3
<1>4. /\ hpc' \in [Streams -> AgentPC \cup ClientPC]
      /\ hand' \in [Streams -> Packet \cup {None}]
      /\ \A x \in Streams : x # s => hpc'[x] = hpc[x] /\ hand'[x] = hand[x]
      /\ hpc'[s] \in {"route", "sending"} => hand'[s] \in Packet /\ hand'[s].sid \in ClientStreams
  <2> USE <1>0 DEF GatewayTypes, GatewayTypeOK, Goto, AgentPC
  <2>1. CASE AgentRecv(s)
    <3>1. Head(toGw[s]) \in Packet
      BY <2>1, QueueTypes DEF AgentRecv, TransportTypeOK
    <3>2. CASE Head(toGw[s]).sid \in sessions
      BY <2>1, <3>1, <3>2 DEF AgentRecv
    <3>3. CASE Head(toGw[s]).sid \notin sessions
      BY <2>1, <3>3 DEF AgentRecv
    <3> QED
      BY <3>2, <3>3
  <2>2. CASE LockSession(s)
    BY <2>2 DEF LockSession, HandlerState
  <2>3. CASE SendToClient(s)
    BY <2>3 DEF SendToClient
  <2>4. CASE AgentConnect(s) \/ SendConnectOK(s, NoBody) \/ AgentRecvFails(s) \/ AgentReturn(s)
    BY <2>4 DEF AgentConnect, SendConnectOK, AgentRecvFails, AgentReturn
  <2> QED
    BY <2>1, <2>2, <2>3, <2>4 DEF AgentHandler
<1>5. TransportTypeOK' /\ GatewayTypeOK'
  BY <1>0, <1>1, <1>2, <1>3, <1>4 DEF GatewayTypes, TransportTypeOK, GatewayTypeOK
<1>6. HandlerState'
  BY <1>0, <1>4, StreamKinds DEF GatewayTypes, HandlerState
<1> QED
  BY <1>5, <1>6 DEF GatewayTypes

\* A step of a client's handler keeps the types, the packet in hand and the
\* captured agent.
LEMMA ClientStepTypes ==
    ASSUME GatewayTypes, NEW c \in ClientStreams,
           ClientHandler(c)
    PROVE  GatewayTypes'
<1>0. c \in Streams /\ UNCHANGED agents
  BY StreamKinds
  DEF ClientHandler, FindAgent, RejectUnavailable, CreateSession,
      ClientRecv, ClientRecvFails, ForwardToAgent, CloseSession, DeleteSession
<1>1. /\ link' \in [Streams -> LinkState]
      /\ sessions' \subseteq ClientStreams
      /\ closed' \in [ClientStreams -> BOOLEAN]
  BY <1>0
  DEF ClientHandler, FindAgent, RejectUnavailable, CreateSession,
      ClientRecv, ClientRecvFails, ForwardToAgent, CloseSession, DeleteSession,
      EndStream, LinkState, GatewayTypes, TransportTypeOK, GatewayTypeOK
<1>2. toGw' \in [Streams -> Seq(Packet)]
  <2>1. CASE ClientRecv(c)
    BY <2>1, <1>0, QueueTypes DEF ClientRecv, GatewayTypes, TransportTypeOK
  <2>2. CASE ~ClientRecv(c)
    BY <2>2
    DEF ClientHandler, FindAgent, RejectUnavailable, CreateSession,
        ClientRecvFails, ForwardToAgent, CloseSession, DeleteSession, GatewayTypes, TransportTypeOK
  <2> QED
    BY <2>1, <2>2
<1>3. fromGw' \in [Streams -> Seq(Packet)]
  <2>1. CASE ForwardToAgent(c)
    <3>1. hand[c] \in Packet /\ bound[c] \in Streams
      BY <2>1, StreamKinds DEF ForwardToAgent, GatewayTypes, HandlerState
    <3>2. fromGw' = fromGw \/ fromGw' = Put(fromGw, bound[c], hand[c])
      BY <2>1 DEF ForwardToAgent
    <3>3. Put(fromGw, bound[c], hand[c]) \in [Streams -> Seq(Packet)]
      BY <3>1, QueueTypes DEF GatewayTypes, TransportTypeOK
    <3> QED
      BY <3>2, <3>3 DEF GatewayTypes, TransportTypeOK
  <2>2. CASE ~ForwardToAgent(c)
    BY <2>2
    DEF ClientHandler, FindAgent, RejectUnavailable, CreateSession,
        ClientRecv, ClientRecvFails, CloseSession, DeleteSession, GatewayTypes, TransportTypeOK
  <2> QED
    BY <2>1, <2>2
<1>4. /\ hpc' \in [Streams -> AgentPC \cup ClientPC]
      /\ hand' \in [Streams -> Packet \cup {None}]
      /\ bound' \in [ClientStreams -> AgentStreams \cup {None}]
      /\ \A x \in Streams : x # c => hpc'[x] = hpc[x] /\ hand'[x] = hand[x]
      /\ \A d \in ClientStreams : d # c => bound'[d] = bound[d]
      /\ hpc'[c] = "forward" => hand'[c] \in Packet /\ hand'[c].sid = c
      /\ hpc'[c] \in {"found", "recv", "forward"} => bound'[c] \in AgentStreams
  <2> USE <1>0 DEF GatewayTypes, GatewayTypeOK, Goto, ClientPC
  <2>1. CASE FindAgent(c)
    <3>1. Candidates(c) \subseteq AgentStreams
      BY GatewayAssumption DEF Candidates
    <3> QED
      BY <2>1, <3>1 DEF FindAgent, Arrived
  <2>2. CASE ClientRecv(c)
    <3>1. /\ [Head(toGw[c]) EXCEPT !.sid = c] \in Packet
          /\ [Head(toGw[c]) EXCEPT !.sid = c].sid = c
      BY <2>2, QueueTypes, PacketParts DEF ClientRecv, TransportTypeOK
    <3> QED
      BY <2>2, <3>1 DEF ClientRecv, HandlerState
  <2>3. CASE CreateSession(c)
    BY <2>3 DEF CreateSession, HandlerState
  <2>4. CASE ForwardToAgent(c)
    BY <2>4 DEF ForwardToAgent, HandlerState
  <2>5. CASE RejectUnavailable(c) \/ ClientRecvFails(c) \/ CloseSession(c) \/ DeleteSession(c)
    BY <2>5 DEF RejectUnavailable, ClientRecvFails, CloseSession, DeleteSession
  <2> QED
    BY <2>1, <2>2, <2>3, <2>4, <2>5 DEF ClientHandler
<1>5. TransportTypeOK' /\ GatewayTypeOK'
  BY <1>0, <1>1, <1>2, <1>3, <1>4 DEF GatewayTypes, TransportTypeOK, GatewayTypeOK
<1>6. HandlerState'
  BY <1>0, <1>4, StreamKinds DEF GatewayTypes, HandlerState
<1> QED
  BY <1>5, <1>6 DEF GatewayTypes

\* The refusal of a stream keeps the types.
LEMMA RejectTypes ==
    ASSUME GatewayTypes, NEW x \in Streams, RejectUnauthorized(x)
    PROVE  GatewayTypes'
<1>1. /\ link' \in [Streams -> LinkState] /\ hpc' \in [Streams -> AgentPC \cup ClientPC]
      /\ hpc'[x] = "done" /\ \A y \in Streams : y # x => hpc'[y] = hpc[y]
      /\ UNCHANGED <<toGw, fromGw, agents, sessions, bound, closed, hand>>
  BY DEF RejectUnauthorized, Goto, EndStream, GatewayTypes, TransportTypeOK, GatewayTypeOK,
         LinkState, AgentPC
<1>2. TransportTypeOK' /\ GatewayTypeOK'
  BY <1>1 DEF GatewayTypes, TransportTypeOK, GatewayTypeOK
<1>3. HandlerState'
  BY <1>1, StreamKinds DEF GatewayTypes, HandlerState
<1> QED
  BY <1>2, <1>3 DEF GatewayTypes

\* The packets the API server makes are packets.
LEMMA QueryPacketType ==
    ASSUME NEW c \in ClientStreams, DbRow[c] \in DbTypes
    PROVE  /\ QueryPacket(c, "AgentSessionOpen", None) \in Packet
           /\ QueryPacket(c, SendType(c), "web-conn-1") \in Packet
<1>1. [query |-> c, code |-> None] \in Bodies
  BY BodiesAssumption DEF AgentBodies
<1>2. SendType(c) \in PacketTypes /\ "AgentSessionOpen" \in PacketTypes
  BY DEF SendType, DbTypes, PacketTypes, AgentPacketTypes
<1> QED
  BY <1>1, <1>2, ApiAssumption DEF QueryPacket, Packet

\* A step of the API server keeps the types.
LEMMA ApiStepTypes ==
    ASSUME TransportTypeOK, ApiTypeOK, Routing, NEW c \in ClientStreams, Session(c), QueryStep(c)
    PROVE  TransportTypeOK' /\ ApiTypeOK'
<1>0. c \in Streams
  BY StreamKinds
<1>1. ASSUME NEW a \in Answers, Respond(c, a)
      PROVE  /\ qpc' \in [ClientStreams -> {"idle", "opening", "waiting", "sending", "done"}]
             /\ answer' \in [ClientStreams -> Answers \cup {None}]
  BY <1>1 DEF Respond, ApiTypeOK
<1>2. [kind |-> "badRequest"] \in Answers /\ [kind |-> "error"] \in Answers
  BY DEF Answers
<1>3. CASE RejectRequest(c) \/ QueryFailsEarly(c) \/ SendFails(c) \/ ReceiveFails(c)
  <2>1. UNCHANGED <<transportVars, results>> /\ \E a \in Answers : Respond(c, a)
    BY <1>2, <1>3 DEF RejectRequest, QueryFailsEarly, SendFails, ReceiveFails
  <2> QED
    BY <1>0, <1>1, <2>1, PeerTypes DEF ApiTypeOK
<1>4. CASE StartQuery(c)
  BY <1>0, <1>4, PeerTypes DEF StartQuery, ApiTypeOK
<1>5. CASE SendSessionOpen(c)
  <2>1. QueryPacket(c, "AgentSessionOpen", None) \in Packet
    BY <1>5, QueryPacketType DEF SendSessionOpen, Session
  <2> QED
    BY <1>0, <1>5, <2>1, PeerTypes DEF SendSessionOpen, ApiTypeOK
<1>6. CASE SendQuery(c)
  <2>1. QueryPacket(c, SendType(c), "web-conn-1") \in Packet
    BY <1>6, QueryPacketType DEF SendQuery, Session
  <2> QED
    BY <1>0, <1>6, <2>1, PeerTypes DEF SendQuery, ApiTypeOK
<1>7. CASE ReceiveReply(c)
  <2>1. Head(fromGw[c]) \in Packet
    BY <1>0, <1>7, QueueTypes DEF ReceiveReply, PeerRecv, TransportTypeOK
  <2>2. Head(fromGw[c]).body.query \in ClientStreams \cup {None}
    BY <2>1, BodiesAssumption DEF Packet, AgentBodies
  <2>3. /\ qpc' \in [ClientStreams -> {"idle", "opening", "waiting", "sending", "done"}]
        /\ results' \in [ClientStreams -> ClientStreams \cup {None}]
    BY <1>7, <2>2 DEF ReceiveReply, ApiTypeOK
  <2> QED
    BY <1>0, <1>7, <2>3, PeerTypes DEF ReceiveReply, ApiTypeOK
<1>8. CASE ReceiveClose(c)
  <2> DEFINE p == Head(fromGw[c])
             a == [kind |-> "response", code |-> p.body.code, results |-> results[c]]
  <2>0. /\ fromGw[c] # << >> /\ p.type = "ClientSessionClose" /\ Respond(c, a)
        /\ fromGw' = Take(fromGw, c) /\ Hangup(c) /\ UNCHANGED <<toGw, results>>
    BY <1>8 DEF ReceiveClose
  <2>1. p \in Packet /\ fromGw' \in [Streams -> Seq(Packet)]
    BY <1>0, <2>0, QueueTypes DEF TransportTypeOK
  <2>2. link' \in [Streams -> LinkState]
    BY <1>0, <2>0 DEF Hangup, TransportTypeOK, LinkState
  <2>3. p.body.code \in ExitCodes
    <3>1. fromGw[c] \in Seq(Packet)
      BY <1>0 DEF TransportTypeOK
    <3>2. p.sid = c
      <4>1. 1 \in DOMAIN fromGw[c] /\ p = fromGw[c][1]
        BY <2>0, <3>1
      <4> QED
        BY <4>1 DEF Routing, Elems
    <3>3. p \in Stage(c)[1]
      BY <2>0, <3>1, <3>2, QueueTail, StageIs
    <3> QED
      BY <2>0, <3>3, EveryStage DEF Session, Content
  <2>4. a \in Answers
    BY <2>3 DEF Answers, ApiTypeOK
  <2>5. TransportTypeOK'
    BY <2>0, <2>1, <2>2 DEF TransportTypeOK
  <2> HIDE DEF a
  <2> QED
    BY <1>1, <2>0, <2>4, <2>5 DEF ApiTypeOK
<1> QED
  BY <1>3, <1>4, <1>5, <1>6, <1>7, <1>8 DEF QueryStep

\* Every step keeps the types.
LEMMA TypesStep ==
    ASSUME IInv, Next
    PROVE  Types'
<1>0. TransportTypeOK /\ GatewayTypeOK /\ AgentTypeOK /\ ApiTypeOK /\ HandlerState
      /\ GatewayTypes
  BY DEF IInv, Types, GatewayTypes
<1>1. ASSUME GatewayTypes', UNCHANGED <<agentVars, apiVars, faults>>
      PROVE  Types'
  BY <1>0, <1>1 DEF Types, GatewayTypes, AgentTypeOK, ApiTypeOK, agentVars, apiVars
<1>2. ASSUME TransportTypeOK', AgentTypeOK', UNCHANGED gatewayVars, UNCHANGED apiVars
      PROVE  Types'
  <2>1. GatewayTypeOK' /\ HandlerState'
    BY <1>0, <1>2 DEF gatewayVars, GatewayTypeOK, HandlerState
  <2>2. ApiTypeOK'
    BY <1>0, <1>2 DEF ApiTypeOK, apiVars
  <2> QED
    BY <1>2, <2>1, <2>2 DEF Types
<1>3. ASSUME TransportTypeOK', UNCHANGED agentVars
      PROVE  AgentTypeOK'
  BY <1>0, <1>3 DEF AgentTypeOK, agentVars
<1>4. ASSUME NEW x \in Streams, GatewayStep(x)
      PROVE  Types'
  BY <1>0, <1>1, <1>4, RejectTypes, AgentStepTypes, ClientStepTypes DEF GatewayStep
<1>5. ASSUME NEW s \in AgentStreams, StartAgent(s)
      PROVE  Types'
  BY <1>0, <1>2, <1>5, AgentStartTypes DEF StartAgent
<1>6. ASSUME NEW s \in AgentStreams, AgentStep(s)
      PROVE  Types'
  <2>1. fromGw[s] # << >> => Addressed(Front(s))
    <3>1. fromGw[s] \in Seq(Packet)
      BY <1>0, StreamKinds DEF TransportTypeOK
    <3>2. fromGw[s] # << >> => 1 \in DOMAIN fromGw[s] /\ Front(s) = fromGw[s][1]
      BY <3>1 DEF Front
    <3> QED
      BY <3>2 DEF IInv, Routing, Elems
  <2>2. CASE RunStep(s)
    BY <1>0, <1>2, <1>6, <2>1, <2>2, RunStepTypes DEF AgentStep
  <2>3. CASE \E c \in ClientStreams : ProbeStep(s, c)
    BY <1>0, <1>2, <1>6, <2>3, ProbeStepTypes DEF AgentStep
  <2> QED
    BY <1>6, <2>2, <2>3 DEF AgentStep
<1>7. ASSUME NEW s \in AgentStreams, AgentFault(s)
      PROVE  Types'
  <2>1. UNCHANGED gatewayVars /\ UNCHANGED apiVars
    BY <1>7 DEF AgentFault
  <2>2. CASE AgentCrash(s)
    BY <1>0, <1>2, <2>1, <2>2, AgentStartTypes
  <2>3. CASE Break(s) /\ UNCHANGED agentVars
    BY <1>0, <1>2, <1>3, <2>1, <2>3, PeerTypes, StreamKinds
  <2> QED
    BY <1>7, <2>2, <2>3 DEF AgentFault
<1>8. ASSUME NEW x \in Streams, Break(x), UNCHANGED <<gatewayVars, agentVars, apiVars>>
      PROVE  Types'
  <2>1. TransportTypeOK'
    BY <1>0, <1>8, PeerTypes
  <2>2. AgentTypeOK'
    BY <1>3, <1>8, <2>1
  <2> QED
    BY <1>2, <1>8, <2>1, <2>2
<1>9. ASSUME NEW c \in ClientStreams, ApiStep(c)
      PROVE  Types'
  <2>1. TransportTypeOK' /\ ApiTypeOK'
    BY <1>0, <1>9, ApiStepTypes DEF ApiStep, IInv
  <2>2. GatewayTypeOK' /\ HandlerState'
    BY <1>0, <1>9 DEF ApiStep, gatewayVars, GatewayTypeOK, HandlerState
  <2>3. AgentTypeOK'
    BY <1>3, <1>9, <2>1 DEF ApiStep
  <2> QED
    BY <2>1, <2>2, <2>3 DEF Types
<1>10. ASSUME NEW s \in AgentStreams, CommandStep(s)
       PROVE  Types'
  BY <1>0, <1>2, <1>10, AgentStartTypes DEF CommandStep
<1> QED
  BY <1>4, <1>5, <1>6, <1>7, <1>8, <1>9, <1>10, StreamKinds
  DEF Next, StreamOfDeadAgentBreaks, ClientFault

-----------------------------------------------------------------------------
(* Steps that add no packet *)

\* The conclusion of the lemmas about the steps.
Keeps == Routing' /\ Tidy' /\ \A c \in ClientStreams : Session(c)'

\* The types of the queues.
LEMMA QueuesTyped ==
    ASSUME Types
    PROVE  /\ \A x \in Streams : toGw[x] \in Seq(Packet) /\ fromGw[x] \in Seq(Packet)
                                 /\ hand[x] \in Packet \cup {None}
           /\ \A s \in AgentStreams : outbox[s] \in Seq(Packet)
           /\ \A s \in AgentStreams, c \in ClientStreams : opened[s][c] \in Seq(Packet)
           /\ \A s \in AgentStreams : s \in Streams
           /\ \A c \in ClientStreams : c \in Streams
BY DEF Types, TransportTypeOK, GatewayTypeOK, AgentTypeOK, Streams

\* No queue has grown and no hand holds another packet.
Fewer ==
    /\ \A x \in Streams : /\ Shorter(toGw[x], toGw'[x]) /\ Shorter(fromGw[x], fromGw'[x])
                          /\ hand'[x] \in {hand[x], None}
    /\ \A s \in AgentStreams : Shorter(outbox[s], outbox'[s])
    /\ \A s \in AgentStreams, c \in ClientStreams : Shorter(opened[s][c], opened'[s][c])

\* The routing and the order in the queues when none has grown.
LEMMA FewerQueues ==
    ASSUME Types, Routing, Tidy, Fewer, bound' = bound,
           \A c \in ClientStreams : hpc'[c] = "none" => hpc[c] = "none",
           \A s \in AgentStreams : probing'[s] \subseteq probing[s]
    PROVE  /\ Routing' /\ Tidy'
           /\ \A c \in ClientStreams : \A k \in Stages : Stage(c)'[k] \subseteq Stage(c)[k]
<1>1. /\ \A x \in Streams : /\ Elems(toGw'[x]) \subseteq Elems(toGw[x])
                            /\ Elems(fromGw'[x]) \subseteq Elems(fromGw[x])
      /\ \A s \in AgentStreams : Elems(outbox'[s]) \subseteq Elems(outbox[s])
      /\ \A s \in AgentStreams, c \in ClientStreams : Elems(opened'[s][c]) \subseteq Elems(opened[s][c])
  BY QueuesTyped, ShorterQueue DEF Fewer
<1>2. /\ \A c : \A x \in Streams : /\ InQ(toGw'[x], c) \subseteq InQ(toGw[x], c)
                                   /\ InQ(fromGw'[x], c) \subseteq InQ(fromGw[x], c)
      /\ \A c : \A s \in AgentStreams : InQ(outbox'[s], c) \subseteq InQ(outbox[s], c)
      /\ \A s \in AgentStreams, c \in ClientStreams :
           InQ(opened'[s][c], c) \subseteq InQ(opened[s][c], c)
  BY QueuesTyped, ShorterQueue DEF Fewer
<1>3. /\ \A c : \A x \in Streams : /\ InSeq(toGw[x], c) => InSeq(toGw'[x], c)
                                   /\ InSeq(fromGw[x], c) => InSeq(fromGw'[x], c)
      /\ \A c : \A s \in AgentStreams : InSeq(outbox[s], c) => InSeq(outbox'[s], c)
      /\ \A s \in AgentStreams, c \in ClientStreams :
           InSeq(opened[s][c], c) => InSeq(opened'[s][c], c)
  BY QueuesTyped, ShorterQueue DEF Fewer
<1>4. Tidy'
  BY <1>3, StreamKinds DEF Tidy
<1>5. Routing'
  <2>1. ASSUME NEW s \in AgentStreams
        PROVE  /\ \A p \in Elems(fromGw'[s]) : Addressed(p) /\ Owns(s, p)'
               /\ \A p \in Elems(toGw'[s]) : Owns(s, p)'
               /\ \A p \in Elems(outbox'[s]) : Owns(s, p)'
               /\ \A c \in ClientStreams : \A p \in Elems(opened'[s][c]) : p.sid = c /\ bound'[c] = s
               /\ hand'[s] # None => Owns(s, hand[s])'
               /\ \A c \in probing'[s] : bound'[c] = s
    <3>0. s \in Streams
      BY StreamKinds
    <3>1. /\ \A p \in Elems(fromGw'[s]) : Addressed(p) /\ Owns(s, p)'
          /\ \A p \in Elems(toGw'[s]) : Owns(s, p)'
      BY <1>1, <3>0 DEF Routing, Owns
    <3>2. \A p \in Elems(outbox'[s]) : Owns(s, p)'
      BY <1>1 DEF Routing, Owns
    <3>5. \A c \in ClientStreams : \A p \in Elems(opened'[s][c]) : p.sid = c /\ bound'[c] = s
      BY <1>1 DEF Routing
    <3>3. hand'[s] # None => Owns(s, hand[s])'
      BY <3>0 DEF Routing, Owns, Fewer
    <3>4. \A c \in probing'[s] : bound'[c] = s
      BY DEF Routing
    <3> QED
      BY <3>1, <3>2, <3>3, <3>4, <3>5
  <2>2. ASSUME NEW c \in ClientStreams
        PROVE  /\ hpc'[c] = "none" => bound'[c] = None
               /\ \A p \in Elems(toGw'[c]) : p.sid = None
               /\ \A p \in Elems(fromGw'[c]) : p.sid = c
               /\ hand'[c] # None => hand'[c].sid = c
    BY <1>1, <2>2, StreamKinds DEF Routing, Fewer
  <2> QED
    BY <2>1, <2>2 DEF Routing, Elems, Addressed
<1>6. ASSUME NEW c \in ClientStreams, NEW k \in Stages
      PROVE  Stage(c)'[k] \subseteq Stage(c)[k]
  <2>1. \A x \in Streams : hand'[x] \in {hand[x], None}
    BY DEF Fewer
  <2>2. /\ Stage(c)'[1] \subseteq Stage(c)[1] /\ Stage(c)'[2] \subseteq Stage(c)[2]
        /\ Stage(c)'[3] \subseteq Stage(c)[3] /\ Stage(c)'[4] \subseteq Stage(c)[4]
    BY <1>2, <2>1, StageShrinks, StreamKinds
  <2>3. /\ Stage(c)'[5] \subseteq Stage(c)[5] /\ Stage(c)'[6] \subseteq Stage(c)[6]
        /\ Stage(c)'[7] \subseteq Stage(c)[7] /\ Stage(c)'[8] \subseteq Stage(c)[8]
    BY <1>2, <2>1, StageShrinks, StreamKinds
  <2> QED
    BY <2>2, <2>3, EveryStage
<1> QED
  BY <1>4, <1>5, <1>6

\* Nothing changes of what is said of a session but its packets.
LEMMA SameKept ==
    ASSUME NEW c \in ClientStreams, UNCHANGED <<qpc, results, answer, ran, params, bound>>,
           \A s \in AgentStreams : c \in probing'[s] => c \in probing[s]
    PROVE  Same(c)
BY DEF Same, Prepared

\* A step that only loses packets.
LEMMA FewerKeeps ==
    ASSUME IInv, Fewer, UNCHANGED <<qpc, results, answer, ran, params, bound>>,
           \A c \in ClientStreams : hpc'[c] = "none" => hpc[c] = "none",
           \A s \in AgentStreams : probing'[s] \subseteq probing[s]
    PROVE  Keeps
<1>1. /\ Routing' /\ Tidy'
      /\ \A c \in ClientStreams : \A k \in Stages : Stage(c)'[k] \subseteq Stage(c)[k]
  BY FewerQueues DEF IInv
<1>2. ASSUME NEW c \in ClientStreams
      PROVE  Session(c)'
  <2>1. Same(c)
    BY SameKept
  <2> QED
    BY <1>1, <2>1, SessionDrops DEF IInv
<1> QED
  BY <1>1, <1>2 DEF Keeps

\* No queue and no hand changes.
LEMMA StillKeeps ==
    ASSUME IInv, UNCHANGED <<toGw, fromGw, hand, outbox, opened, probing, bound, params, ran>>,
           UNCHANGED <<qpc, results, answer>>,
           \A c \in ClientStreams : hpc'[c] = "none" => hpc[c] = "none"
    PROVE  Keeps
<1>1. \A q : Shorter(q, q)
  BY DEF Shorter
<1>2. Fewer
  BY <1>1 DEF Fewer
<1> QED
  BY <1>2, FewerKeeps

-----------------------------------------------------------------------------
(* Steps that move a packet *)

\* A stage gains nothing when its queues lose packets only.
LEMMA StageShorter ==
    ASSUME Types, NEW c \in ClientStreams
    PROVE  /\ Shorter(fromGw[c], fromGw'[c]) => Stage(c)'[1] \subseteq Stage(c)[1]
           /\ (\A s \in AgentStreams : hand'[s] \in {hand[s], None}) => Stage(c)'[2] \subseteq Stage(c)[2]
           /\ (\A s \in AgentStreams : Shorter(toGw[s], toGw'[s])) => Stage(c)'[3] \subseteq Stage(c)[3]
           /\ (\A s \in AgentStreams : Shorter(outbox[s], outbox'[s])) => Stage(c)'[4] \subseteq Stage(c)[4]
           /\ (\A s \in AgentStreams : Shorter(opened[s][c], opened'[s][c])) =>
                Stage(c)'[5] \subseteq Stage(c)[5]
           /\ (\A s \in AgentStreams : Shorter(fromGw[s], fromGw'[s])) => Stage(c)'[6] \subseteq Stage(c)[6]
           /\ hand'[c] \in {hand[c], None} => Stage(c)'[7] \subseteq Stage(c)[7]
           /\ Shorter(toGw[c], toGw'[c]) => Stage(c)'[8] \subseteq Stage(c)[8]
<1>1. /\ \A d : \A x \in Streams :
           /\ Shorter(toGw[x], toGw'[x]) => InQ(toGw'[x], d) \subseteq InQ(toGw[x], d)
           /\ Shorter(fromGw[x], fromGw'[x]) => InQ(fromGw'[x], d) \subseteq InQ(fromGw[x], d)
      /\ \A s \in AgentStreams :
           /\ Shorter(outbox[s], outbox'[s]) => InQ(outbox'[s], c) \subseteq InQ(outbox[s], c)
           /\ Shorter(opened[s][c], opened'[s][c]) => InQ(opened'[s][c], c) \subseteq InQ(opened[s][c], c)
  BY QueuesTyped, ShorterQueue
<1>2. /\ Shorter(fromGw[c], fromGw'[c]) => Stage(c)'[1] \subseteq Stage(c)[1]
      /\ (\A s \in AgentStreams : hand'[s] \in {hand[s], None}) => Stage(c)'[2] \subseteq Stage(c)[2]
      /\ (\A s \in AgentStreams : Shorter(toGw[s], toGw'[s])) => Stage(c)'[3] \subseteq Stage(c)[3]
  BY <1>1, StageShrinks, StreamKinds
<1>3. /\ (\A s \in AgentStreams : Shorter(outbox[s], outbox'[s])) => Stage(c)'[4] \subseteq Stage(c)[4]
      /\ (\A s \in AgentStreams : Shorter(opened[s][c], opened'[s][c])) =>
           Stage(c)'[5] \subseteq Stage(c)[5]
  BY <1>1, StageShrinks
<1>4. /\ (\A s \in AgentStreams : Shorter(fromGw[s], fromGw'[s])) => Stage(c)'[6] \subseteq Stage(c)[6]
      /\ hand'[c] \in {hand[c], None} => Stage(c)'[7] \subseteq Stage(c)[7]
      /\ Shorter(toGw[c], toGw'[c]) => Stage(c)'[8] \subseteq Stage(c)[8]
  BY <1>1, StageShrinks, StreamKinds
<1> QED
  BY <1>2, <1>3, <1>4

\* Packet p may be put in queue q.
Fits(q, p) == \A r \in InQ(q, p.sid) : MayPrecede(r, p)

\* Packet p is the only one that arrives somewhere, and it may.
Arrives(p) ==
    /\ \A s \in AgentStreams :
         /\ \/ Shorter(fromGw[s], fromGw'[s])
            \/ /\ fromGw'[s] = Append(fromGw[s], p) /\ Addressed(p) /\ Owns(s, p)
               /\ p.sid # None => Fits(fromGw[s], p)
         /\ \/ Shorter(toGw[s], toGw'[s])
            \/ toGw'[s] = Append(toGw[s], p) /\ Owns(s, p) /\ (p.sid # None => Fits(toGw[s], p))
         /\ hand'[s] \in {hand[s], None} \/ (hand'[s] = p /\ Owns(s, p))
         /\ Shorter(outbox[s], outbox'[s])
         /\ \A c \in ClientStreams : Shorter(opened[s][c], opened'[s][c])
    /\ \A c \in ClientStreams :
         /\ \/ Shorter(fromGw[c], fromGw'[c])
            \/ fromGw'[c] = Append(fromGw[c], p) /\ p.sid = c /\ Fits(fromGw[c], p)
         /\ \/ Shorter(toGw[c], toGw'[c])
            \/ toGw'[c] = Append(toGw[c], p) /\ p.sid = None /\ Fits(toGw[c], p)
         /\ hand'[c] \in {hand[c], None} \/ (hand'[c] = p /\ p.sid = c)

\* Routing and order when a packet arrives, and the stages of the sessions.
LEMMA ArrivalStep ==
    ASSUME Types, Routing, Tidy, NEW p \in Packet, Arrives(p), bound' = bound,
           \A c \in ClientStreams : hpc'[c] = "none" => hpc[c] = "none",
           \A s \in AgentStreams : probing'[s] \subseteq probing[s]
    PROVE  /\ Routing' /\ Tidy'
           /\ \A c \in ClientStreams : \A k \in 1..7 :
                Stage(c)'[k] \subseteq Stage(c)[k] \cup (IF p.sid = c THEN {p} ELSE {})
<1>0. ASSUME NEW q \in Seq(Packet), NEW r, Shorter(q, r) \/ r = Append(q, p)
      PROVE  /\ Elems(r) \subseteq Elems(q) \cup {p}
             /\ \A c : InQ(r, c) \subseteq InQ(q, c) \cup (IF p.sid = c THEN {p} ELSE {})
             /\ \A c : InSeq(q, c) /\ (p.sid = c /\ ~Shorter(q, r) => Fits(q, p)) => InSeq(r, c)
  <2>1. CASE Shorter(q, r)
    BY <2>1, ShorterQueue
  <2>2. CASE r = Append(q, p) /\ ~Shorter(q, r)
    <3>1. /\ Elems(r) \subseteq Elems(q) \cup {p}
          /\ \A c : InQ(r, c) \subseteq InQ(q, c) \cup (IF p.sid = c THEN {p} ELSE {})
      BY <2>2, LongerQueue
    <3>2. ASSUME NEW c, InSeq(q, c), p.sid = c => Fits(q, p)
          PROVE  InSeq(r, c)
      BY <2>2, <3>2, LongerQueue DEF Fits
    <3> QED
      BY <2>2, <3>1, <3>2
  <2> QED
    BY <1>0, <2>1, <2>2
<1>1. ASSUME NEW q \in Seq(Packet), NEW r, Shorter(q, r)
      PROVE  Elems(r) \subseteq Elems(q)
  BY <1>1, ShorterQueue
<1>2. ASSUME NEW s \in AgentStreams
      PROVE  /\ \A c \in ClientStreams : /\ InSeq(fromGw'[s], c) /\ InSeq(toGw'[s], c)
                                         /\ InSeq(outbox'[s], c) /\ InSeq(opened'[s][c], c)
             /\ \A x \in Elems(fromGw'[s]) : Addressed(x) /\ Owns(s, x)
             /\ \A x \in Elems(toGw'[s]) : Owns(s, x)
             /\ \A x \in Elems(outbox'[s]) : Owns(s, x)
             /\ \A c \in ClientStreams : \A x \in Elems(opened'[s][c]) : x.sid = c /\ bound[c] = s
             /\ hand'[s] # None => Owns(s, hand'[s])
  <2>0. /\ fromGw[s] \in Seq(Packet) /\ toGw[s] \in Seq(Packet) /\ outbox[s] \in Seq(Packet)
        /\ \A c \in ClientStreams : opened[s][c] \in Seq(Packet) /\ c # None
    BY QueuesTyped, StreamKinds
  <2>1. \A c \in ClientStreams : InSeq(outbox'[s], c) /\ InSeq(opened'[s][c], c)
    BY <2>0, ShorterQueue DEF Arrives, Tidy
  <2>2. ASSUME NEW c \in ClientStreams
        PROVE  InSeq(fromGw'[s], c)
    <3>1. Shorter(fromGw[s], fromGw'[s]) \/ fromGw'[s] = Append(fromGw[s], p)
      BY DEF Arrives
    <3>2. InSeq(fromGw[s], c) /\ (p.sid = c /\ ~Shorter(fromGw[s], fromGw'[s]) => Fits(fromGw[s], p))
      BY <2>0 DEF Arrives, Tidy
    <3> QED
      BY <1>0, <2>0, <3>1, <3>2
  <2>3. ASSUME NEW c \in ClientStreams
        PROVE  InSeq(toGw'[s], c)
    <3>1. Shorter(toGw[s], toGw'[s]) \/ toGw'[s] = Append(toGw[s], p)
      BY DEF Arrives
    <3>2. InSeq(toGw[s], c) /\ (p.sid = c /\ ~Shorter(toGw[s], toGw'[s]) => Fits(toGw[s], p))
      BY <2>0 DEF Arrives, Tidy
    <3> QED
      BY <1>0, <2>0, <3>1, <3>2
  <2>4. \A x \in Elems(fromGw'[s]) : Addressed(x) /\ Owns(s, x)
    <3>1. CASE Shorter(fromGw[s], fromGw'[s])
      BY <1>1, <2>0, <3>1 DEF Routing
    <3>2. CASE fromGw'[s] = Append(fromGw[s], p) /\ Addressed(p) /\ Owns(s, p)
      <4>1. Elems(fromGw'[s]) = Elems(fromGw[s]) \cup {p}
        BY <2>0, <3>2, LongerQueue
      <4> QED
        BY <3>2, <4>1 DEF Routing
    <3> QED
      BY <3>1, <3>2 DEF Arrives
  <2>5. \A x \in Elems(toGw'[s]) : Owns(s, x)
    <3>1. CASE Shorter(toGw[s], toGw'[s])
      BY <1>1, <2>0, <3>1 DEF Routing
    <3>2. CASE toGw'[s] = Append(toGw[s], p) /\ Owns(s, p)
      <4>1. Elems(toGw'[s]) = Elems(toGw[s]) \cup {p}
        BY <2>0, <3>2, LongerQueue
      <4> QED
        BY <3>2, <4>1 DEF Routing
    <3> QED
      BY <3>1, <3>2 DEF Arrives
  <2>6. \A x \in Elems(outbox'[s]) : Owns(s, x)
    BY <1>1, <2>0 DEF Routing, Arrives
  <2>7. \A c \in ClientStreams : \A x \in Elems(opened'[s][c]) : x.sid = c /\ bound[c] = s
    BY <1>1, <2>0 DEF Routing, Arrives
  <2>8. hand'[s] # None => Owns(s, hand'[s])
    BY DEF Routing, Arrives
  <2> QED
    BY <2>1, <2>2, <2>3, <2>4, <2>5, <2>6, <2>7, <2>8
<1>3. ASSUME NEW c \in ClientStreams
      PROVE  /\ InSeq(fromGw'[c], c) /\ InSeq(toGw'[c], None)
             /\ \A x \in Elems(toGw'[c]) : x.sid = None
             /\ \A x \in Elems(fromGw'[c]) : x.sid = c
             /\ hand'[c] # None => hand'[c].sid = c
  <2>0. fromGw[c] \in Seq(Packet) /\ toGw[c] \in Seq(Packet)
    BY QueuesTyped
  <2>1. InSeq(fromGw'[c], c) /\ InSeq(toGw'[c], None)
    BY <1>0, <2>0 DEF Arrives, Tidy
  <2>2. \A x \in Elems(toGw'[c]) : x.sid = None
    <3>1. CASE Shorter(toGw[c], toGw'[c])
      BY <1>1, <2>0, <3>1 DEF Routing
    <3>2. CASE toGw'[c] = Append(toGw[c], p) /\ p.sid = None
      <4>1. Elems(toGw'[c]) = Elems(toGw[c]) \cup {p}
        BY <2>0, <3>2, LongerQueue
      <4> QED
        BY <3>2, <4>1 DEF Routing
    <3> QED
      BY <3>1, <3>2 DEF Arrives
  <2>3. \A x \in Elems(fromGw'[c]) : x.sid = c
    <3>1. CASE Shorter(fromGw[c], fromGw'[c])
      BY <1>1, <2>0, <3>1 DEF Routing
    <3>2. CASE fromGw'[c] = Append(fromGw[c], p) /\ p.sid = c
      <4>1. Elems(fromGw'[c]) = Elems(fromGw[c]) \cup {p}
        BY <2>0, <3>2, LongerQueue
      <4> QED
        BY <3>2, <4>1 DEF Routing
    <3> QED
      BY <3>1, <3>2 DEF Arrives
  <2>4. hand'[c] # None => hand'[c].sid = c
    BY DEF Routing, Arrives
  <2> QED
    BY <2>1, <2>2, <2>3, <2>4
<1>4. Tidy'
  BY <1>2, <1>3 DEF Tidy
<1>5. Routing'
  <2>1. \A s \in AgentStreams : \A c \in probing'[s] : bound'[c] = s
    BY DEF Routing
  <2>2. \A c \in ClientStreams : hpc'[c] = "none" => bound'[c] = None
    BY DEF Routing
  <2>3. \A s, x : Owns(s, x)' <=> Owns(s, x)
    BY DEF Owns
  <2>4. \A s \in AgentStreams : hand'[s] # None => Owns(s, hand[s])'
    BY <1>2 DEF Owns
  <2>5. ASSUME NEW s \in AgentStreams
        PROVE  /\ \A r \in Elems(fromGw'[s]) : Addressed(r) /\ Owns(s, r)'
               /\ \A r \in Elems(toGw'[s]) : Owns(s, r)'
               /\ \A r \in Elems(outbox'[s]) : Owns(s, r)'
               /\ \A c \in ClientStreams : \A r \in Elems(opened'[s][c]) : r.sid = c /\ bound'[c] = s
    BY <1>2, <2>3
  <2> QED
    BY <1>3, <2>1, <2>2, <2>4, <2>5 DEF Routing, Elems, Addressed
<1>6. ASSUME NEW c \in ClientStreams, NEW k \in 1..7
      PROVE  Stage(c)'[k] \subseteq Stage(c)[k] \cup (IF p.sid = c THEN {p} ELSE {})
  <2> DEFINE N == IF p.sid = c THEN {p} ELSE {}
  <2>1. /\ \A x \in Streams : InQ(fromGw'[x], c) \subseteq InQ(fromGw[x], c) \cup N
        /\ \A x \in Streams : InQ(toGw'[x], c) \subseteq InQ(toGw[x], c) \cup N
    <3>1. \A x \in Streams : x \in AgentStreams \/ x \in ClientStreams
      BY DEF Streams
    <3> QED
      BY <1>0, <3>1, QueuesTyped DEF Arrives
  <2>2. p \in N <=> p.sid = c
    OBVIOUS
  <2> HIDE DEF N
  <2>3. Stage(c)'[1] \subseteq Stage(c)[1] \cup N
    BY <2>1, StageIs, StageNext, StreamKinds
  <2>4. ASSUME NEW r \in Stage(c)'[2]
        PROVE  r \in Stage(c)[2] \cup N
    <3>1. PICK s \in AgentStreams : r = hand'[s] /\ r # None /\ r.sid = c
      BY StageNext
    <3>2. CASE hand'[s] \in {hand[s], None}
      BY <3>1, <3>2, StageIs
    <3>3. CASE hand'[s] = p
      BY <2>2, <3>1, <3>3
    <3> QED
      BY <3>2, <3>3 DEF Arrives
  <2>5. Stage(c)'[3] \subseteq Stage(c)[3] \cup N
    BY <2>1, StageIs, StageNext, StreamKinds
  <2>6. Stage(c)'[4] \subseteq Stage(c)[4] /\ Stage(c)'[5] \subseteq Stage(c)[5]
    BY StageShorter DEF Arrives
  <2>7. Stage(c)'[6] \subseteq Stage(c)[6] \cup N
    BY <2>1, StageIs, StageNext, StreamKinds
  <2>8. Stage(c)'[7] \subseteq Stage(c)[7] \cup N
    BY <2>2, StageIs, StageNext DEF Arrives
  <2>9. k \in {1, 2, 3, 4, 5, 6, 7}
    OBVIOUS
  <2>10. Stage(c)'[k] \subseteq Stage(c)[k] \cup N
    BY <2>3, <2>4, <2>5, <2>6, <2>7, <2>8, <2>9
  <2> QED
    BY <2>10 DEF N
<1> QED
  BY <1>4, <1>5, <1>6

\* What is ahead of a packet of a session may be ahead of it in a queue.
LEMMA Ahead ==
    ASSUME NEW c \in ClientStreams, Session(c), NEW k \in Stages, NEW l \in Stages, k < l,
           NEW o \in Stage(c)[l], NEW p, p.type = o.type
    PROVE  \A r \in Stage(c)[k] : MayPrecede(r, p)
BY DEF Session, Lined, MayPrecede

\* Packet o of session c, the oldest of stage l, moves on to stage k as p.
Moves(p, o, c, k, l) ==
    /\ k \in Stages /\ l \in Stages /\ k < l /\ k \notin {4, 5} /\ (k <= 5 <=> l <= 5)
    /\ p.sid = c /\ o \in Stage(c)[l] /\ p.type = o.type /\ p.body = o.body
    /\ \A q \in Stage(c)'[l] : q \in Stage(c)[l] /\ MayPrecede(o, q)
    /\ \A m \in Stages : m # k /\ m # l => Stage(c)'[m] \subseteq Stage(c)[m]
    /\ \A m \in Stages : k < m /\ m < l => Stage(c)[m] = {}

\* A packet of session c moves on.
LEMMA MoveKeeps ==
    ASSUME IInv, NEW p \in Packet, Arrives(p), UNCHANGED <<qpc, results, answer, ran, params, bound>>,
           \A d \in ClientStreams : hpc'[d] = "none" => hpc[d] = "none",
           \A s \in AgentStreams : probing'[s] \subseteq probing[s],
           \A d \in ClientStreams : Shorter(toGw[d], toGw'[d]),
           NEW c \in ClientStreams, NEW k, NEW l, NEW o, Moves(p, o, c, k, l)
    PROVE  Keeps
<1>1. /\ Routing' /\ Tidy'
      /\ \A d \in ClientStreams : \A m \in 1..7 :
           Stage(d)'[m] \subseteq Stage(d)[m] \cup (IF p.sid = d THEN {p} ELSE {})
  BY ArrivalStep DEF IInv
<1>2. Session(c)'
  <2>1. Same(c)
    BY SameKept
  <2>2. k \in 1..7
    BY DEF Moves, Stages
  <2>3. Stage(c)'[k] \subseteq Stage(c)[k] \cup {p}
    BY <1>1, <2>2 DEF Moves
  <2> QED
    BY <2>1, <2>3, SessionMoves DEF IInv, Moves
<1>3. ASSUME NEW d \in ClientStreams, d # c
      PROVE  Session(d)'
  <2>1. Same(d)
    BY SameKept
  <2>2. \A m \in 1..7 : Stage(d)'[m] \subseteq Stage(d)[m]
    BY <1>1, <1>3 DEF Moves
  <2>3. Stage(d)'[8] \subseteq Stage(d)[8]
    BY StageShorter DEF IInv
  <2>4. \A m \in Stages : m \in 1..7 \/ m = 8
    BY DEF Stages
  <2>5. \A m \in Stages : Stage(d)'[m] \subseteq Stage(d)[m]
    BY <2>2, <2>3, <2>4
  <2> QED
    BY <2>1, <2>5, SessionDrops DEF IInv
<1> QED
  BY <1>1, <1>2, <1>3 DEF Keeps

\* The receive loop of an agent's handler: the packet is at hand, or dropped.
LEMMA AgentRecvKeeps ==
    ASSUME IInv, NEW s \in AgentStreams, AgentRecv(s), UNCHANGED <<agentVars, apiVars>>
    PROVE  Keeps
<1>a. PICK p : p = Head(toGw[s])
  OBVIOUS
<1>b. PICK c : c = p.sid
  OBVIOUS
<1>0. /\ s \in Streams /\ toGw[s] \in Seq(Packet) /\ toGw[s] # << >> /\ p \in Packet
      /\ toGw' = [toGw EXCEPT ![s] = Tail(toGw[s])] /\ UNCHANGED <<fromGw, bound>>
      /\ UNCHANGED <<qpc, results, answer, ran, params, outbox, opened, probing>>
  BY <1>a, QueuesTyped, QueueTail DEF IInv, AgentRecv, Take, agentVars, apiVars
<1>1. /\ toGw'[s] = Tail(toGw[s]) /\ Shorter(toGw[s], toGw'[s])
      /\ \A x \in Streams : x # s => toGw'[x] = toGw[x]
  BY <1>0 DEF IInv, Types, TransportTypeOK, Shorter
<1>2. /\ \A q : Shorter(q, q)
      /\ \A x \in Streams : Shorter(toGw[x], toGw'[x])
      /\ \A d \in ClientStreams : d \in Streams /\ d # s
      /\ \A t \in AgentStreams : t \in Streams
  BY <1>1, StreamKinds DEF Shorter
<1>3. CASE c \in sessions
  <2>1. /\ hand' = [hand EXCEPT ![s] = p] /\ c \in ClientStreams
        /\ \A d \in ClientStreams : hpc'[d] = hpc[d]
    BY <1>2, <1>3, <1>a, <1>b DEF AgentRecv, Goto, IInv, Types, GatewayTypeOK
  <2>2. hand'[s] = p /\ \A x \in Streams : x # s => hand'[x] = hand[x]
    BY <1>0, <2>1 DEF IInv, Types, GatewayTypeOK
  <2>3. p \in InQ(toGw[s], c) /\ p \in Elems(toGw[s])
    BY <1>0, <1>a, <1>b, QueueTail, InQElems
  <2>4. Owns(s, p) /\ bound[c] = s
    BY <1>b, <2>1, <2>3 DEF IInv, Routing, Owns
  <2>5. Arrives(p)
    BY <1>0, <1>2, <2>2, <2>4 DEF Arrives
  <2>6. p \in Stage(c)[3]
    BY <2>3, StageIs
  <2>7. ASSUME NEW q \in Stage(c)'[3]
        PROVE  q \in Stage(c)[3] /\ MayPrecede(p, q)
    <3>1. PICK t \in AgentStreams : q \in InQ(toGw'[t], c)
      BY StageNext
    <3>2. CASE t = s
      <4>1. InSeq(toGw[s], c)
        BY <2>1 DEF IInv, Tidy
      <4>2. q \in InQ(toGw[s], c) /\ MayPrecede(p, q)
        <5>1. q \in InQ(Tail(toGw[s]), c) /\ Head(toGw[s]).sid = c
          BY <1>1, <1>a, <1>b, <3>1, <3>2
        <5> QED
          BY <1>0, <1>a, <4>1, <5>1, QueueTail
      <4> QED
        BY <4>2, StageIs
    <3>3. CASE t # s
      <4>1. q \in Elems(toGw[t]) /\ q.sid = c
        BY <1>1, <1>2, <3>1, <3>3, InQElems
      <4> QED
        BY <2>1, <2>4, <3>3, <4>1 DEF IInv, Routing, Owns
    <3> QED
      BY <3>2, <3>3
  <2>8. ASSUME NEW m \in Stages, m # 2, m # 3
        PROVE  Stage(c)'[m] \subseteq Stage(c)[m]
    <3>1. /\ Stage(c)'[1] \subseteq Stage(c)[1] /\ Stage(c)'[4] \subseteq Stage(c)[4]
          /\ Stage(c)'[5] \subseteq Stage(c)[5] /\ Stage(c)'[6] \subseteq Stage(c)[6]
          /\ Stage(c)'[7] \subseteq Stage(c)[7] /\ Stage(c)'[8] \subseteq Stage(c)[8]
      BY <1>0, <1>2, <2>1, <2>2, StageShorter DEF IInv
    <3> QED
      BY <2>8, <3>1, EveryStage
  <2>9. \A m \in Stages : ~(2 < m /\ m < 3)
    BY DEF Stages
  <2> QED
    <3>1. Moves(p, p, c, 2, 3)
      BY <1>b, <2>6, <2>7, <2>8, <2>9, EveryStage DEF Moves
    <3> QED
      BY <1>0, <1>2, <2>1, <2>5, <3>1, MoveKeeps
<1>4. CASE c \notin sessions
  <2>1. UNCHANGED <<hpc, hand>>
    BY <1>4, <1>a, <1>b DEF AgentRecv
  <2>2. Fewer
    BY <1>0, <1>2, <2>1 DEF Fewer
  <2> QED
    BY <1>0, <2>1, <2>2, FewerKeeps
<1> QED
  BY <1>3, <1>4

\* A packet without a session arrives.
LEMMA StrayKeeps ==
    ASSUME IInv, NEW p \in Packet, Arrives(p), UNCHANGED <<qpc, results, answer, ran, params, bound>>,
           \A d \in ClientStreams : hpc'[d] = "none" => hpc[d] = "none",
           \A s \in AgentStreams : probing'[s] \subseteq probing[s],
           \A d \in ClientStreams : Shorter(toGw[d], toGw'[d]), p.sid \notin ClientStreams
    PROVE  Keeps
<1>1. /\ Routing' /\ Tidy'
      /\ \A d \in ClientStreams : \A m \in 1..7 :
           Stage(d)'[m] \subseteq Stage(d)[m] \cup (IF p.sid = d THEN {p} ELSE {})
  BY ArrivalStep DEF IInv
<1>2. ASSUME NEW d \in ClientStreams
      PROVE  Session(d)'
  <2>1. Same(d)
    BY SameKept
  <2>2. \A m \in 1..7 : Stage(d)'[m] \subseteq Stage(d)[m]
    BY <1>1
  <2>3. Stage(d)'[8] \subseteq Stage(d)[8]
    BY StageShorter DEF IInv
  <2>4. \A m \in Stages : m \in 1..7 \/ m = 8
    BY DEF Stages
  <2>5. \A m \in Stages : Stage(d)'[m] \subseteq Stage(d)[m]
    BY <2>2, <2>3, <2>4
  <2> QED
    BY <2>1, <2>5, SessionDrops DEF IInv
<1> QED
  BY <1>1, <1>2 DEF Keeps

\* The greeting of an agent.
LEMMA SendConnectOKKeeps ==
    ASSUME IInv, NEW s \in AgentStreams, SendConnectOK(s, NoBody), UNCHANGED <<agentVars, apiVars>>
    PROVE  Keeps
<1>a. PICK p : p = [type |-> "AgentGatewayConnectOK", sid |-> None, conn |-> None, body |-> NoBody]
  OBVIOUS
<1>0. /\ UNCHANGED <<toGw, hand, bound>> /\ \A d \in ClientStreams : hpc'[d] = hpc[d]
      /\ UNCHANGED <<qpc, results, answer, ran, params, outbox, opened, probing>>
  BY StreamKinds DEF SendConnectOK, Goto, agentVars, apiVars, IInv, Types, GatewayTypeOK
<1>1. /\ p \in Packet /\ p.sid = None /\ Addressed(p) /\ p.sid \notin ClientStreams
      /\ Owns(s, p)
  BY <1>a, ConnectOKType, StreamKinds DEF Addressed, Owns
<1>2. /\ \A q : Shorter(q, q)
      /\ \A d \in ClientStreams : d \in Streams /\ d # s
      /\ \A t \in AgentStreams : t \in Streams
  BY StreamKinds DEF Shorter
<1>3. CASE fromGw' = fromGw
  BY <1>0, <1>3, StillKeeps
<1>4. CASE fromGw' = Put(fromGw, s, p)
  <2>1. fromGw'[s] = Append(fromGw[s], p) /\ \A x \in Streams : x # s => fromGw'[x] = fromGw[x]
    BY <1>2, <1>4 DEF Put, IInv, Types, TransportTypeOK
  <2>2. Arrives(p)
    BY <1>0, <1>1, <1>2, <2>1 DEF Arrives
  <2> QED
    BY <1>0, <1>1, <1>2, <2>2, StrayKeeps
<1> QED
  BY <1>3, <1>4, <1>a DEF SendConnectOK

\* A closed session's packet is dropped, or the mutex is taken.
LEMMA LockSessionKeeps ==
    ASSUME IInv, NEW s \in AgentStreams, LockSession(s), UNCHANGED <<agentVars, apiVars>>
    PROVE  Keeps
<1>0. /\ UNCHANGED <<toGw, fromGw, bound>> /\ \A d \in ClientStreams : hpc'[d] = hpc[d]
      /\ UNCHANGED <<qpc, results, answer, ran, params, outbox, opened, probing>>
  BY StreamKinds DEF LockSession, Goto, agentVars, apiVars, IInv, Types, GatewayTypeOK
<1>1. \A x \in Streams : hand'[x] \in {hand[x], None}
  BY DEF LockSession, IInv, Types, GatewayTypeOK
<1>2. \A q : Shorter(q, q)
  BY DEF Shorter
<1>3. Fewer
  BY <1>0, <1>1, <1>2 DEF Fewer
<1> QED
  BY <1>0, <1>3, FewerKeeps

\* The packet at hand goes to the client, or is lost.
LEMMA SendToClientKeeps ==
    ASSUME IInv, NEW s \in AgentStreams, SendToClient(s), UNCHANGED <<agentVars, apiVars>>
    PROVE  Keeps
<1>a. PICK p : p = hand[s]
  OBVIOUS
<1>b. PICK c : c = p.sid
  OBVIOUS
<1>0. /\ UNCHANGED <<toGw, bound>> /\ \A d \in ClientStreams : hpc'[d] = hpc[d]
      /\ UNCHANGED <<qpc, results, answer, ran, params, outbox, opened, probing>>
      /\ hand' = [hand EXCEPT ![s] = None]
      /\ fromGw' = fromGw \/ fromGw' = Put(fromGw, c, p)
  BY <1>a, <1>b, StreamKinds DEF SendToClient, Goto, agentVars, apiVars, IInv, Types, GatewayTypeOK
<1>1. /\ p \in Packet /\ p # None /\ c \in ClientStreams /\ bound[c] = s
  <2>1. p \in Packet /\ c \in ClientStreams
    BY <1>a, <1>b DEF SendToClient, IInv, Types, HandlerState
  <2>2. p # None
    BY <2>1, PacketAssumption
  <2> QED
    BY <1>a, <1>b, <2>1, <2>2 DEF IInv, Routing, Owns
<1>2. /\ \A q : Shorter(q, q)
      /\ \A d \in ClientStreams : d \in Streams /\ d # s /\ d \notin AgentStreams
      /\ \A t \in AgentStreams : t \in Streams
  BY StreamKinds DEF Shorter
<1>3. hand'[s] = None /\ \A x \in Streams : x # s => hand'[x] = hand[x]
  BY <1>0, <1>2 DEF IInv, Types, GatewayTypeOK
<1>4. CASE fromGw' = fromGw
  <2>1. Fewer
    BY <1>0, <1>2, <1>3, <1>4 DEF Fewer
  <2> QED
    BY <1>0, <2>1, FewerKeeps
<1>5. CASE fromGw' = Put(fromGw, c, p)
  <2>1. fromGw'[c] = Append(fromGw[c], p) /\ \A x \in Streams : x # c => fromGw'[x] = fromGw[x]
    BY <1>1, <1>2, <1>5 DEF Put, IInv, Types, TransportTypeOK
  <2>2. p \in Stage(c)[2]
    BY <1>1, <1>a, <1>b, StageIs
  <2>3. Fits(fromGw[c], p)
    <3>1. \A r \in Stage(c)[1] : MayPrecede(r, p)
      BY <1>1, <2>2, Ahead, EveryStage DEF IInv
    <3> QED
      BY <1>b, <3>1, StageIs DEF Fits
  <2>4. Arrives(p)
    BY <1>0, <1>1, <1>2, <1>3, <1>b, <2>1, <2>3 DEF Arrives
  <2>5. ASSUME NEW q \in Stage(c)'[2]
        PROVE  FALSE
    <3>1. PICK t \in AgentStreams : q = hand'[t] /\ q # None /\ q.sid = c
      BY StageNext
    <3>2. t # s /\ q = hand[t]
      BY <1>2, <1>3, <3>1
    <3> QED
      BY <1>1, <3>1, <3>2 DEF IInv, Routing, Owns
  <2>6. ASSUME NEW m \in Stages, m # 1, m # 2
        PROVE  Stage(c)'[m] \subseteq Stage(c)[m]
    <3>1. /\ Stage(c)'[3] \subseteq Stage(c)[3] /\ Stage(c)'[4] \subseteq Stage(c)[4]
          /\ Stage(c)'[5] \subseteq Stage(c)[5] /\ Stage(c)'[8] \subseteq Stage(c)[8]
      BY <1>0, <1>1, <1>2, StageShorter DEF IInv
    <3>2. Stage(c)'[6] \subseteq Stage(c)[6] /\ Stage(c)'[7] \subseteq Stage(c)[7]
      BY <1>1, <1>2, <1>3, <2>1, StageShorter DEF IInv
    <3> QED
      BY <2>6, <3>1, <3>2, EveryStage
  <2>7. \A m \in Stages : ~(1 < m /\ m < 2)
    BY DEF Stages
  <2> QED
    <3>1. Moves(p, p, c, 1, 2)
      BY <1>1, <1>b, <2>2, <2>5, <2>6, <2>7, EveryStage DEF Moves
    <3> QED
      BY <1>0, <1>1, <1>2, <1>b, <2>4, <3>1, MoveKeeps
<1> QED
  BY <1>0, <1>4, <1>5

\* The receive loop of a client's handler: the session id is set.
LEMMA ClientRecvKeeps ==
    ASSUME IInv, NEW c \in ClientStreams, ClientRecv(c), UNCHANGED <<agentVars, apiVars>>
    PROVE  Keeps
<1>a. PICK o : o = Head(toGw[c])
  OBVIOUS
<1>b. PICK p : p = [o EXCEPT !.sid = c]
  OBVIOUS
<1>0. /\ c \in Streams /\ toGw[c] \in Seq(Packet) /\ toGw[c] # << >> /\ o \in Packet
      /\ toGw' = [toGw EXCEPT ![c] = Tail(toGw[c])] /\ UNCHANGED <<fromGw, bound>>
      /\ hand' = [hand EXCEPT ![c] = p]
      /\ UNCHANGED <<qpc, results, answer, ran, params, outbox, opened, probing>>
  BY <1>a, <1>b, QueuesTyped, QueueTail DEF IInv, ClientRecv, Take, agentVars, apiVars
<1>1. /\ toGw'[c] = Tail(toGw[c]) /\ Shorter(toGw[c], toGw'[c])
      /\ \A x \in Streams : x # c => toGw'[x] = toGw[x]
      /\ hand'[c] = p /\ \A x \in Streams : x # c => hand'[x] = hand[x]
      /\ \A d \in ClientStreams : hpc'[d] = "none" => hpc[d] = "none"
  BY <1>0 DEF IInv, Types, TransportTypeOK, GatewayTypeOK, Shorter, ClientRecv, Goto
<1>2. /\ \A q : Shorter(q, q)
      /\ \A x \in Streams : Shorter(toGw[x], toGw'[x])
      /\ \A d \in ClientStreams : d \in Streams
      /\ \A t \in AgentStreams : t \in Streams /\ t # c
  BY <1>1, StreamKinds DEF Shorter
<1>3. p \in Packet /\ p.sid = c /\ p.type = o.type /\ p.body = o.body
  BY <1>0, <1>b, PacketParts
<1>4. o.sid = None
  <2>1. o \in Elems(toGw[c])
    BY <1>0, <1>a DEF Elems
  <2> QED
    BY <2>1 DEF IInv, Routing
<1>5. o \in Stage(c)[8]
  BY <1>0, <1>4, <1>a, QueueTail, StageIs
<1>6. Arrives(p)
  BY <1>0, <1>1, <1>2, <1>3 DEF Arrives
<1>7. ASSUME NEW q \in Stage(c)'[8]
      PROVE  q \in Stage(c)[8] /\ MayPrecede(o, q)
  <2>1. q \in InQ(Tail(toGw[c]), None) /\ InSeq(toGw[c], None)
    BY <1>1, StageNext DEF IInv, Tidy
  <2>2. q \in InQ(toGw[c], None) /\ MayPrecede(o, q)
    BY <1>0, <1>4, <1>a, <2>1, QueueTail
  <2> QED
    BY <2>2, StageIs
<1>8. ASSUME NEW m \in Stages, m # 7, m # 8
      PROVE  Stage(c)'[m] \subseteq Stage(c)[m]
  <2>1. /\ Stage(c)'[1] \subseteq Stage(c)[1] /\ Stage(c)'[2] \subseteq Stage(c)[2]
        /\ Stage(c)'[3] \subseteq Stage(c)[3] /\ Stage(c)'[4] \subseteq Stage(c)[4]
        /\ Stage(c)'[5] \subseteq Stage(c)[5] /\ Stage(c)'[6] \subseteq Stage(c)[6]
    BY <1>0, <1>1, <1>2, StageShorter DEF IInv
  <2> QED
    BY <1>8, <2>1, EveryStage
<1>9. \A m \in Stages : ~(7 < m /\ m < 8)
  BY DEF Stages
<1>10. Moves(p, o, c, 7, 8)
  BY <1>3, <1>5, <1>7, <1>8, <1>9, EveryStage DEF Moves
<1> QED
  BY <1>0, <1>1, <1>2, <1>3, <1>6, <1>10, MoveKeeps

\* The packet at hand goes to the captured agent, or is lost.
LEMMA ForwardToAgentKeeps ==
    ASSUME IInv, NEW c \in ClientStreams, ForwardToAgent(c), UNCHANGED <<agentVars, apiVars>>
    PROVE  Keeps
<1>a. PICK p : p = hand[c]
  OBVIOUS
<1>b. PICK s : s = bound[c]
  OBVIOUS
<1>0. /\ UNCHANGED <<toGw, bound>>
      /\ UNCHANGED <<qpc, results, answer, ran, params, outbox, opened, probing>>
      /\ hand' = [hand EXCEPT ![c] = None]
      /\ fromGw' = fromGw \/ fromGw' = Put(fromGw, s, p)
      /\ \A d \in ClientStreams : hpc'[d] = "none" => hpc[d] = "none"
  BY <1>a, <1>b, StreamKinds DEF ForwardToAgent, Goto, agentVars, apiVars, IInv, Types, GatewayTypeOK
<1>1. /\ p \in Packet /\ p # None /\ p.sid = c /\ s \in AgentStreams /\ Addressed(p) /\ Owns(s, p)
  <2>1. p \in Packet /\ p.sid = c /\ s \in AgentStreams
    BY <1>a, <1>b DEF ForwardToAgent, IInv, Types, HandlerState
  <2>2. p # None
    BY <2>1, PacketAssumption
  <2> QED
    BY <1>b, <2>1, <2>2 DEF Addressed, Owns
<1>2. /\ \A q : Shorter(q, q)
      /\ \A d \in ClientStreams : d \in Streams /\ d # s /\ d \notin AgentStreams
      /\ \A t \in AgentStreams : t \in Streams /\ t # c
  BY <1>1, StreamKinds DEF Shorter
<1>3. hand'[c] = None /\ \A x \in Streams : x # c => hand'[x] = hand[x]
  BY <1>0, <1>2 DEF IInv, Types, GatewayTypeOK
<1>4. CASE fromGw' = fromGw
  <2>1. Fewer
    BY <1>0, <1>2, <1>3, <1>4 DEF Fewer
  <2> QED
    BY <1>0, <2>1, FewerKeeps
<1>5. CASE fromGw' = Put(fromGw, s, p)
  <2>1. fromGw'[s] = Append(fromGw[s], p) /\ \A x \in Streams : x # s => fromGw'[x] = fromGw[x]
    BY <1>1, <1>2, <1>5 DEF Put, IInv, Types, TransportTypeOK
  <2>2. p \in Stage(c)[7]
    BY <1>1, <1>a, StageIs
  <2>3. Fits(fromGw[s], p)
    <3>1. \A r \in Stage(c)[6] : MayPrecede(r, p)
      BY <2>2, Ahead, EveryStage DEF IInv
    <3> QED
      BY <1>1, <3>1, StageIs DEF Fits
  <2>4. Arrives(p)
    BY <1>0, <1>1, <1>2, <1>3, <2>1, <2>3 DEF Arrives
  <2>5. ASSUME NEW q \in Stage(c)'[7]
        PROVE  FALSE
    BY <1>3, <2>5, StageNext
  <2>6. ASSUME NEW m \in Stages, m # 6, m # 7
        PROVE  Stage(c)'[m] \subseteq Stage(c)[m]
    <3>1. /\ Stage(c)'[3] \subseteq Stage(c)[3] /\ Stage(c)'[4] \subseteq Stage(c)[4]
          /\ Stage(c)'[5] \subseteq Stage(c)[5] /\ Stage(c)'[8] \subseteq Stage(c)[8]
      BY <1>0, <1>1, <1>2, StageShorter DEF IInv
    <3>2. Stage(c)'[1] \subseteq Stage(c)[1] /\ Stage(c)'[2] \subseteq Stage(c)[2]
      BY <1>1, <1>2, <1>3, <2>1, StageShorter DEF IInv
    <3> QED
      BY <2>6, <3>1, <3>2, EveryStage
  <2>7. \A m \in Stages : ~(6 < m /\ m < 7)
    BY DEF Stages
  <2> QED
    <3>1. Moves(p, p, c, 6, 7)
      BY <1>1, <2>2, <2>5, <2>6, <2>7, EveryStage DEF Moves
    <3> QED
      BY <1>0, <1>1, <1>2, <2>4, <3>1, MoveKeeps
<1> QED
  BY <1>0, <1>4, <1>5

-----------------------------------------------------------------------------
(* The agent's sends *)

\* A packet of the agent is sent, or lost.
LEMMA AgentPutKeeps ==
    ASSUME IInv, NEW s \in AgentStreams, NEW p \in Packet, NEW l \in {4, 5},
           p.sid \in ClientStreams => p \in Stage(p.sid)[l], Owns(s, p),
           toGw' = toGw \/ toGw' = Put(toGw, s, p),
           \A t \in AgentStreams : Shorter(outbox[t], outbox'[t]),
           \A t \in AgentStreams, d \in ClientStreams : Shorter(opened[t][d], opened'[t][d]),
           p.sid \in ClientStreams =>
               \A q \in Stage(p.sid)'[l] : q \in Stage(p.sid)[l] /\ MayPrecede(p, q),
           UNCHANGED <<gatewayVars, apiVars, fromGw>>, UNCHANGED <<params, ran, probing>>
    PROVE  Keeps
<1>0. /\ UNCHANGED <<fromGw, hand, bound, hpc>>
      /\ UNCHANGED <<qpc, results, answer, ran, params, probing>>
  BY DEF gatewayVars, apiVars
<1>2. /\ \A q : Shorter(q, q)
      /\ \A d \in ClientStreams : d \in Streams /\ d # s /\ d \notin AgentStreams
      /\ \A t \in AgentStreams : t \in Streams
  BY StreamKinds DEF Shorter
<1>4. CASE toGw' = toGw
  <2>1. Fewer
    BY <1>0, <1>2, <1>4 DEF Fewer
  <2> QED
    BY <1>0, <2>1, FewerKeeps
<1>5. CASE toGw' = Put(toGw, s, p)
  <2>0. toGw'[s] = Append(toGw[s], p) /\ \A x \in Streams : x # s => toGw'[x] = toGw[x]
    BY <1>2, <1>5 DEF Put, IInv, Types, TransportTypeOK
  <2>1. l \in Stages /\ 3 \in Stages /\ 3 < l /\ l <= 5
    BY DEF Stages
  <2>2. p.sid \in ClientStreams => Fits(toGw[s], p)
    <3>1. p.sid \in ClientStreams => \A r \in Stage(p.sid)[3] : MayPrecede(r, p)
      BY <2>1, Ahead DEF IInv
    <3> QED
      BY <3>1, StageIs DEF Fits
  <2>3. p.sid # None => p.sid \in ClientStreams
    BY DEF Packet
  <2>4. Arrives(p)
    BY <1>0, <1>2, <2>0, <2>2, <2>3 DEF Arrives
  <2>5. CASE p.sid \notin ClientStreams
    BY <1>0, <1>2, <2>0, <2>4, <2>5, StrayKeeps
  <2>6. CASE p.sid \in ClientStreams
    <3>1. PICK c \in ClientStreams : c = p.sid
      BY <2>6
    <3>2. p \in Stage(c)[l] /\ \A q \in Stage(c)'[l] : q \in Stage(c)[l] /\ MayPrecede(p, q)
      BY <3>1
    <3>3. ASSUME NEW m \in Stages, m # 3, m # l
          PROVE  Stage(c)'[m] \subseteq Stage(c)[m]
      <4>1. /\ Stage(c)'[1] \subseteq Stage(c)[1] /\ Stage(c)'[2] \subseteq Stage(c)[2]
            /\ Stage(c)'[4] \subseteq Stage(c)[4] /\ Stage(c)'[5] \subseteq Stage(c)[5]
        BY <1>0, <1>2, StageShorter DEF IInv
      <4>2. /\ Stage(c)'[6] \subseteq Stage(c)[6] /\ Stage(c)'[7] \subseteq Stage(c)[7]
            /\ Stage(c)'[8] \subseteq Stage(c)[8]
        BY <1>0, <1>2, <2>0, StageShorter DEF IInv
      <4> QED
        BY <3>3, <4>1, <4>2, EveryStage
    <3>4. ASSUME NEW m \in Stages, 3 < m, m < l
          PROVE  Stage(c)[m] = {}
      <4>1. l = 5 /\ m = 4
        BY <3>4 DEF Stages
      <4> QED
        BY <3>2, <4>1 DEF IInv, Session, Lined
    <3> QED
      <4>1. Moves(p, p, c, 3, l)
        BY <2>1, <3>1, <3>2, <3>3, <3>4 DEF Moves
      <4> QED
        BY <1>0, <1>2, <2>0, <2>4, <3>1, <4>1, MoveKeeps
  <2> QED
    BY <2>5, <2>6
<1> QED
  BY <1>4, <1>5

\* The loop of Run sends the next packet of its handler.
LEMMA AgentSendKeeps ==
    ASSUME IInv, NEW s \in AgentStreams, AgentSend(s), UNCHANGED <<gatewayVars, apiVars>>
    PROVE  Keeps
<1>a. PICK p : p = Head(outbox[s])
  OBVIOUS
<1>b. PICK c : c = p.sid
  OBVIOUS
<1>0. /\ outbox[s] \in Seq(Packet) /\ outbox[s] # << >> /\ p \in Packet
      /\ outbox' = [outbox EXCEPT ![s] = Tail(outbox[s])] /\ UNCHANGED <<fromGw, opened>>
      /\ toGw' = toGw \/ toGw' = Put(toGw, s, p)
      /\ UNCHANGED <<params, ran, probing>>
  BY <1>a, QueuesTyped, QueueTail DEF IInv, AgentSend, PeerSend, transportVars
<1>1. /\ outbox'[s] = Tail(outbox[s]) /\ \A t \in AgentStreams : t # s => outbox'[t] = outbox[t]
      /\ \A t \in AgentStreams : Shorter(outbox[t], outbox'[t])
      /\ \A t \in AgentStreams, d \in ClientStreams : Shorter(opened[t][d], opened'[t][d])
  BY <1>0 DEF IInv, Types, AgentTypeOK, Shorter
<1>2. p \in InQ(outbox[s], c) /\ p \in Elems(outbox[s])
  BY <1>0, <1>a, <1>b, QueueTail, InQElems
<1>3. Owns(s, p) /\ (c \in ClientStreams => bound[c] = s)
  BY <1>2, <1>b DEF IInv, Routing, Owns
<1>4. c \in ClientStreams => p \in Stage(c)[4]
  BY <1>2, StageIs
<1>5. ASSUME c \in ClientStreams, NEW q \in Stage(c)'[4]
      PROVE  q \in Stage(c)[4] /\ MayPrecede(p, q)
  <2>1. PICK t \in AgentStreams : q \in InQ(outbox'[t], c)
    BY StageNext
  <2>2. CASE t = s
    <3>1. InSeq(outbox[s], c)
      BY <1>5 DEF IInv, Tidy
    <3>2. q \in InQ(outbox[s], c) /\ MayPrecede(p, q)
      BY <1>0, <1>1, <1>a, <1>b, <2>1, <2>2, <3>1, QueueTail
    <3> QED
      BY <3>2, StageIs
  <2>3. CASE t # s
    <3>1. q \in Elems(outbox[t]) /\ q.sid = c
      BY <1>1, <2>1, <2>3, InQElems
    <3> QED
      BY <1>3, <1>5, <2>3, <3>1 DEF IInv, Routing, Owns
  <2> QED
    BY <2>2, <2>3
<1> QED
  BY <1>0, <1>1, <1>3, <1>4, <1>5, <1>b, AgentPutKeeps

\* A probe goroutine sends its next packet.
LEMMA ProbeSendKeeps ==
    ASSUME IInv, NEW s \in AgentStreams, NEW c \in ClientStreams, ProbeSend(s, c),
           UNCHANGED <<gatewayVars, apiVars>>
    PROVE  Keeps
<1>a. PICK p : p = Head(opened[s][c])
  OBVIOUS
<1>0. /\ opened[s][c] \in Seq(Packet) /\ opened[s][c] # << >> /\ p \in Packet
      /\ opened' = [opened EXCEPT ![s][c] = Tail(opened[s][c])] /\ UNCHANGED <<fromGw, outbox>>
      /\ toGw' = toGw \/ toGw' = Put(toGw, s, p)
      /\ UNCHANGED <<params, ran, probing>>
  BY <1>a, QueuesTyped, QueueTail DEF IInv, ProbeSend, PeerSend, transportVars
<1>1. /\ opened'[s][c] = Tail(opened[s][c])
      /\ \A t \in AgentStreams, d \in ClientStreams : t # s \/ d # c => opened'[t][d] = opened[t][d]
  BY <1>0 DEF IInv, Types, AgentTypeOK
<1>2. /\ \A t \in AgentStreams : Shorter(outbox[t], outbox'[t])
      /\ \A t \in AgentStreams, d \in ClientStreams : Shorter(opened[t][d], opened'[t][d])
  BY <1>0, <1>1 DEF Shorter
<1>3. p \in Elems(opened[s][c])
  BY <1>0, <1>a DEF Elems
<1>4. p.sid = c /\ bound[c] = s /\ Owns(s, p) /\ p \in InQ(opened[s][c], c)
  BY <1>3, InQElems DEF IInv, Routing, Owns
<1>5. p \in Stage(c)[5]
  BY <1>4, StageIs
<1>6. ASSUME NEW q \in Stage(c)'[5]
      PROVE  q \in Stage(c)[5] /\ MayPrecede(p, q)
  <2>1. PICK t \in AgentStreams : q \in InQ(opened'[t][c], c)
    BY StageNext
  <2>2. CASE t = s
    <3>1. InSeq(opened[s][c], c)
      BY DEF IInv, Tidy
    <3>2. q \in InQ(Tail(opened[s][c]), c)
      BY <1>1, <2>1, <2>2
    <3>3. q \in InQ(opened[s][c], c) /\ MayPrecede(p, q)
      <4>1. PICK v : v = opened[s][c]
        OBVIOUS
      <4>2. /\ v \in Seq(Packet) /\ v # << >> /\ p = Head(v) /\ p.sid = c
            /\ InSeq(v, c) /\ q \in InQ(Tail(v), c)
        BY <1>0, <1>4, <1>a, <3>1, <3>2, <4>1
      <4>3. q \in InQ(v, c) /\ MayPrecede(p, q)
        BY <4>2, QueueTail
      <4> QED
        BY <4>1, <4>3
    <3> QED
      BY <3>3, StageIs
  <2>3. CASE t # s
    <3>1. q \in Elems(opened[t][c])
      BY <1>1, <2>1, <2>3, InQElems
    <3> QED
      BY <1>4, <2>3, <3>1 DEF IInv, Routing
  <2> QED
    BY <2>2, <2>3
<1> QED
  BY <1>0, <1>2, <1>4, <1>5, <1>6, AgentPutKeeps

-----------------------------------------------------------------------------
(* The agent is captured *)

\* A session whose agent is not captured has no packet at an agent.
LEMMA FindAgentKeeps ==
    ASSUME IInv, NEW c \in ClientStreams, FindAgent(c), UNCHANGED <<agentVars, apiVars>>
    PROVE  Keeps
<1>0. /\ UNCHANGED <<toGw, fromGw, hand>> /\ bound[c] = None /\ hpc'[c] = "found"
      /\ UNCHANGED <<qpc, results, answer, ran, params, outbox, opened, probing>>
      /\ \A d \in ClientStreams : d # c => hpc'[d] = hpc[d] /\ bound'[d] = bound[d]
  BY StreamKinds DEF FindAgent, Arrived, Goto, agentVars, apiVars, IInv, Types, GatewayTypeOK, Routing
<1>1. ASSUME NEW s \in AgentStreams
      PROVE  /\ \A p : Owns(s, p) => Owns(s, p)'
             /\ \A d \in ClientStreams : bound[d] = s => bound'[d] = s
  BY <1>0, <1>1, StreamKinds DEF Owns
<1>2. Tidy'
  BY <1>0 DEF IInv, Tidy
<1>3. Routing'
  <2>1. ASSUME NEW s \in AgentStreams
        PROVE  /\ \A p \in Elems(fromGw'[s]) : Addressed(p) /\ Owns(s, p)'
               /\ \A p \in Elems(toGw'[s]) : Owns(s, p)'
               /\ \A p \in Elems(outbox'[s]) : Owns(s, p)'
               /\ \A d \in ClientStreams : \A p \in Elems(opened'[s][d]) : p.sid = d /\ bound'[d] = s
    BY <1>0, <1>1 DEF IInv, Routing
  <2>2. ASSUME NEW s \in AgentStreams
        PROVE  /\ hand'[s] # None => Owns(s, hand[s])'
               /\ \A d \in probing'[s] : bound'[d] = s
    <3>1. \A d \in probing[s] : d \in ClientStreams /\ bound[d] = s
      BY DEF IInv, Types, AgentTypeOK, Routing
    <3>2. hand[s] # None => Owns(s, hand[s])
      BY DEF IInv, Routing
    <3>3. hand'[s] # None => Owns(s, hand[s])'
      BY <1>0, <3>2, StreamKinds DEF Owns
    <3> QED
      BY <1>0, <1>1, <3>1, <3>3
  <2>3. ASSUME NEW d \in ClientStreams
        PROVE  /\ hpc'[d] = "none" => bound'[d] = None
               /\ \A p \in Elems(toGw'[d]) : p.sid = None
               /\ \A p \in Elems(fromGw'[d]) : p.sid = d
               /\ hand'[d] # None => hand'[d].sid = d
    BY <1>0 DEF IInv, Routing
  <2> QED
    BY <2>1, <2>2, <2>3 DEF Routing, Elems, Addressed
<1>4. ASSUME NEW d \in ClientStreams
      PROVE  Session(d)'
  <2>1. Same(d)
    <3>1. Prepared(d) => Prepared(d)'
      BY <1>0, StreamKinds DEF Prepared
    <3> QED
      BY <1>0, <3>1 DEF Same
  <2>2. \A q : Shorter(q, q)
    BY DEF Shorter
  <2>3. /\ Stage(d)'[1] \subseteq Stage(d)[1] /\ Stage(d)'[2] \subseteq Stage(d)[2]
        /\ Stage(d)'[3] \subseteq Stage(d)[3] /\ Stage(d)'[4] \subseteq Stage(d)[4]
        /\ Stage(d)'[5] \subseteq Stage(d)[5] /\ Stage(d)'[6] \subseteq Stage(d)[6]
        /\ Stage(d)'[7] \subseteq Stage(d)[7] /\ Stage(d)'[8] \subseteq Stage(d)[8]
    BY <1>0, <2>2, StageShorter DEF IInv
  <2>4. \A k \in Stages : Stage(d)'[k] \subseteq Stage(d)[k]
    BY <2>3, EveryStage
  <2> QED
    BY <2>1, <2>4, SessionDrops DEF IInv
<1> QED
  BY <1>2, <1>3, <1>4 DEF Keeps

-----------------------------------------------------------------------------
(* The handlers of the agent *)

\* Packets of one session that a handler or a probe goroutine makes.
Batch(b, c) ==
    /\ b \in Seq(Packet)
    /\ \A i \in DOMAIN b : b[i].sid = c
    /\ \A i, j \in DOMAIN b : i < j => MayPrecede(b[i], b[j])

\* The packets of a batch.
LEMMA BatchQueue ==
    ASSUME NEW c, NEW b, Batch(b, c)
    PROVE  /\ \A p \in Elems(b) : p.sid = c
           /\ InQ(b, c) = Elems(b)
           /\ \A d : InSeq(b, d) /\ (d # c => InQ(b, d) = {})
<1>1. \A p \in Elems(b) : p.sid = c
  BY DEF Batch, Elems
<1>2. InQ(b, c) = Elems(b)
  <2>1. \A p : p \in InQ(b, c) <=> p \in Elems(b)
    BY <1>1, InQElems
  <2> QED
    BY <2>1
<1>3. ASSUME NEW d
      PROVE  InSeq(b, d) /\ (d # c => InQ(b, d) = {})
  BY DEF Batch, InSeq, InQ, Of
<1> QED
  BY <1>1, <1>2, <1>3

\* Batches of no packet and of one.
LEMMA Batches ==
    ASSUME NEW c, NEW p \in Packet, p.sid = c
    PROVE  /\ Batch(<< >>, c) /\ Elems(<< >>) = {}
           /\ Batch(<<p>>, c) /\ Elems(<<p>>) = {p}
<1>1. Batch(<< >>, c) /\ Elems(<< >>) = {}
  BY DEF Batch, Elems
<1>2. <<p>> \in Seq(Packet) /\ DOMAIN <<p>> = {1} /\ <<p>>[1] = p
  OBVIOUS
<1>3. Batch(<<p>>, c) /\ Elems(<<p>>) = {p}
  BY <1>2 DEF Batch, Elems
<1> QED
  BY <1>1, <1>3

\* Batches of two packets.
LEMMA BatchOfTwo ==
    ASSUME NEW c, NEW p \in Packet, NEW r \in Packet, p.sid = c, r.sid = c, MayPrecede(p, r)
    PROVE  Batch(<<p, r>>, c) /\ Elems(<<p, r>>) = {p, r}
<1>1. /\ <<p, r>> \in Seq(Packet) /\ DOMAIN <<p, r>> = {1, 2}
      /\ <<p, r>>[1] = p /\ <<p, r>>[2] = r
  OBVIOUS
<1>2. Batch(<<p, r>>, c)
  BY <1>1 DEF Batch
<1>3. Elems(<<p, r>>) = {p, r}
  BY <1>1 DEF Elems
<1> QED
  BY <1>2, <1>3

\* A handler of agent s changes nothing of the sessions other than c.
OnlyFor(s, c) ==
    /\ \A t \in AgentStreams : /\ \A d \in probing'[t] : d \in probing[t] \/ (t = s /\ d = c)
                               /\ params[t] \subseteq params'[t]
    /\ \A d \in ClientStreams : d # c => ran'[d] = ran[d]

\* A handler of agent s takes the request of session c and leaves batch b.
Handled(s, c, b) ==
    /\ PeerRecv(s) /\ outbox[s] = << >> /\ c = Front(s).sid
    /\ Batch(b, c) /\ outbox' = [outbox EXCEPT ![s] = b]
    /\ UNCHANGED <<gatewayVars, apiVars, opened>>

\* A handler takes the request of session c and leaves a batch of packets.  The
\* request was the only packet of its session, so the batch is all it has now.
LEMMA HandlerStep ==
    ASSUME IInv, NEW s \in AgentStreams, NEW c \in ClientStreams, NEW b,
           Handled(s, c, b), OnlyFor(s, c)
    PROVE  /\ Routing' /\ Tidy' /\ \A d \in ClientStreams : d # c => Session(d)'
           /\ \A k \in Stages : k # 4 => Stage(c)'[k] = {}
           /\ \A p : p \in Stage(c)'[4] <=> p \in Elems(b)
           /\ Content(c, 6, Front(s)) /\ Front(s) \in Packet /\ bound[c] = s
           /\ Front(s).type \in WriteTypes \cup {"AgentSessionOpen"}
           /\ qpc[c] \notin {"idle", "opening", "sending"} /\ \A t \in AgentStreams : c \notin probing[t]
<1>a. PICK p : p = Front(s)
  OBVIOUS
<1> USE DEF Handled
<1>0. /\ s \in Streams /\ fromGw[s] \in Seq(Packet) /\ fromGw[s] # << >> /\ p = Head(fromGw[s])
      /\ p \in Packet /\ p.sid = c /\ fromGw' = [fromGw EXCEPT ![s] = Tail(fromGw[s])]
      /\ UNCHANGED <<toGw, hand, bound, hpc, qpc, results, answer, opened>>
  BY <1>a, QueuesTyped, QueueTail
  DEF IInv, PeerRecv, Take, gatewayVars, apiVars, transportVars, Front
<1>1. /\ fromGw'[s] = Tail(fromGw[s]) /\ \A x \in Streams : x # s => fromGw'[x] = fromGw[x]
      /\ outbox'[s] = b /\ \A t \in AgentStreams : t # s => outbox'[t] = outbox[t]
  BY <1>0 DEF IInv, Types, TransportTypeOK, AgentTypeOK
<1>2. /\ \A q : Shorter(q, q)
      /\ \A x \in Streams : Shorter(fromGw[x], fromGw'[x])
      /\ \A d \in ClientStreams : d \in Streams /\ d # s
      /\ \A t \in AgentStreams : t \in Streams
  BY <1>0, <1>1, StreamKinds DEF Shorter
<1>3. /\ \A r \in Elems(b) : r.sid = c
      /\ InQ(b, c) = Elems(b)
      /\ \A d : InSeq(b, d) /\ (d # c => InQ(b, d) = {})
  BY BatchQueue
<1>4. p \in InQ(fromGw[s], c) /\ p \in Elems(fromGw[s]) /\ p \in Stage(c)[6]
  BY <1>0, QueueTail, InQElems, StageIs
<1>5. bound[c] = s
  BY <1>0, <1>4 DEF IInv, Routing, Owns
<1>6. /\ \A m \in Stages : m # 6 => Stage(c)[m] = {}
      /\ p.type \in WriteTypes \cup {"AgentSessionOpen"} /\ \A r : ~MayPrecede(p, r)
      /\ qpc[c] \notin {"idle", "opening", "sending"} /\ \A t \in AgentStreams : c \notin probing[t]
  BY <1>4, RequestAlone DEF IInv
<1>7. Content(c, 6, p)
  BY <1>4, EveryStage DEF IInv, Session
<1>8. Tidy'
  <2>1. \A d : \A x \in Streams : InSeq(fromGw[x], d) => InSeq(fromGw'[x], d)
    BY <1>2, QueuesTyped, ShorterQueue DEF IInv
  <2>2. \A d \in ClientStreams : \A t \in AgentStreams : InSeq(outbox'[t], d)
    BY <1>1, <1>3 DEF IInv, Tidy
  <2> QED
    BY <1>0, <1>2, <2>1, <2>2 DEF IInv, Tidy
<1>9. Routing'
  <2>1. \A x \in Streams : Elems(fromGw'[x]) \subseteq Elems(fromGw[x])
    BY <1>2, QueuesTyped, ShorterQueue DEF IInv
  <2>2. \A t, r : Owns(t, r)' <=> Owns(t, r)
    BY <1>0 DEF Owns
  <2>3. ASSUME NEW t \in AgentStreams
        PROVE  /\ \A r \in Elems(fromGw'[t]) : Addressed(r) /\ Owns(t, r)'
               /\ \A r \in Elems(toGw'[t]) : Owns(t, r)'
               /\ \A d \in ClientStreams : \A r \in Elems(opened'[t][d]) : r.sid = d /\ bound'[d] = t
    <3>1. \A r \in Elems(fromGw'[t]) : Addressed(r) /\ Owns(t, r)'
      BY <1>2, <2>1, <2>2 DEF IInv, Routing
    <3>2. \A r \in Elems(toGw'[t]) : Owns(t, r)'
      BY <1>0, <2>2 DEF IInv, Routing
    <3>3. \A d \in ClientStreams : \A r \in Elems(opened'[t][d]) : r.sid = d /\ bound'[d] = t
      BY <1>0 DEF IInv, Routing
    <3> QED
      BY <3>1, <3>2, <3>3
  <2>4. ASSUME NEW t \in AgentStreams
        PROVE  \A r \in Elems(outbox'[t]) : Owns(t, r)'
    <3>1. CASE t = s
      <4>1. \A r \in Elems(b) : Owns(s, r)
        BY <1>3, <1>5 DEF Owns
      <4> QED
        BY <1>1, <2>2, <3>1, <4>1
    <3>2. CASE t # s
      BY <1>1, <2>2, <3>2 DEF IInv, Routing
    <3> QED
      BY <3>1, <3>2
  <2>5. ASSUME NEW t \in AgentStreams
        PROVE  /\ hand'[t] # None => Owns(t, hand[t])'
               /\ \A d \in probing'[t] : bound'[d] = t
    <3>1. hand'[t] # None => Owns(t, hand[t])'
      BY <1>0 DEF IInv, Routing, Owns
    <3> QED
      BY <1>0, <1>5, <3>1 DEF IInv, Routing, OnlyFor
  <2>6. ASSUME NEW d \in ClientStreams
        PROVE  /\ hpc'[d] = "none" => bound'[d] = None
               /\ \A r \in Elems(toGw'[d]) : r.sid = None
               /\ \A r \in Elems(fromGw'[d]) : r.sid = d
               /\ hand'[d] # None => hand'[d].sid = d
    BY <1>0, <1>2, <2>1 DEF IInv, Routing
  <2> QED
    BY <2>3, <2>4, <2>5, <2>6 DEF Routing, Elems, Addressed
<1>10. ASSUME NEW d \in ClientStreams
       PROVE  /\ Stage(d)'[1] \subseteq Stage(d)[1] /\ Stage(d)'[2] \subseteq Stage(d)[2]
              /\ Stage(d)'[3] \subseteq Stage(d)[3] /\ Stage(d)'[5] \subseteq Stage(d)[5]
              /\ Stage(d)'[6] \subseteq Stage(d)[6] /\ Stage(d)'[7] \subseteq Stage(d)[7]
              /\ Stage(d)'[8] \subseteq Stage(d)[8]
  BY <1>0, <1>2, StageShorter DEF IInv
<1>11. ASSUME NEW d \in ClientStreams, d # c
       PROVE  Session(d)'
  <2>1. Same(d)
    <3>1. Prepared(d) => Prepared(d)'
      BY <1>0 DEF Prepared, OnlyFor
    <3> QED
      BY <1>0, <1>11, <3>1 DEF Same, OnlyFor
  <2>2. \A t \in AgentStreams : InQ(outbox'[t], d) \subseteq InQ(outbox[t], d)
    BY <1>1, <1>3, <1>11
  <2>3. Stage(d)'[4] \subseteq Stage(d)[4]
    BY <2>2, StageShrinks
  <2>4. \A k \in Stages : Stage(d)'[k] \subseteq Stage(d)[k]
    BY <1>10, <2>3, EveryStage
  <2> QED
    BY <2>1, <2>4, SessionDrops DEF IInv
<1>12. ASSUME NEW q \in Stage(c)'[6]
       PROVE  FALSE
  <2>1. PICK t \in AgentStreams : q \in InQ(fromGw'[t], c)
    BY StageNext
  <2>2. CASE t = s
    <3>1. InSeq(fromGw[s], c)
      BY DEF IInv, Tidy
    <3>2. MayPrecede(p, q)
      <4>1. q \in InQ(Tail(fromGw[s]), c)
        BY <1>1, <2>1, <2>2
      <4> QED
        BY <1>0, <3>1, <4>1, QueueTail
    <3> QED
      BY <1>6, <3>2
  <2>3. CASE t # s
    <3>1. q \in Elems(fromGw[t]) /\ q.sid = c
      BY <1>1, <1>2, <2>1, <2>3, InQElems
    <3> QED
      BY <1>5, <2>3, <3>1 DEF IInv, Routing, Owns
  <2> QED
    BY <2>2, <2>3
<1>13. \A k \in Stages : k # 4 => Stage(c)'[k] = {}
  <2>1. /\ Stage(c)'[1] = {} /\ Stage(c)'[2] = {} /\ Stage(c)'[3] = {} /\ Stage(c)'[5] = {}
        /\ Stage(c)'[7] = {} /\ Stage(c)'[8] = {}
    BY <1>6, <1>10, EveryStage
  <2>2. Stage(c)'[6] = {}
    BY <1>12
  <2> QED
    BY <2>1, <2>2, EveryStage
<1>14. \A r : r \in Stage(c)'[4] <=> r \in Elems(b)
  <2>1. ASSUME NEW r, NEW t \in AgentStreams, r \in InQ(outbox'[t], c)
        PROVE  r \in Elems(b)
    <3>1. CASE t = s
      BY <1>1, <1>3, <2>1, <3>1
    <3>2. CASE t # s
      <4>1. r \in Stage(c)[4]
        BY <1>1, <2>1, <3>2, StageIs
      <4> QED
        BY <1>6, <4>1, EveryStage
    <3> QED
      BY <3>1, <3>2
  <2>2. \A r \in Elems(b) : r \in InQ(outbox'[s], c)
    BY <1>1, <1>3
  <2>3. \A r : r \in Stage(c)'[4] <=> \E t \in AgentStreams : r \in InQ(outbox'[t], c)
    BY StageNext
  <2> QED
    BY <2>1, <2>2, <2>3
<1> QED
  BY <1>0, <1>5, <1>6, <1>7, <1>8, <1>9, <1>11, <1>13, <1>14, <1>a

\* What the packets of the agent tell.
LEMMA MadeContent ==
    ASSUME NEW c \in ClientStreams
    PROVE  /\ \A code \in ExitCodes :
                /\ SessionClose(c, code).type = "ClientSessionClose"
                /\ SessionClose(c, code).sid = c
                /\ SessionClose(c, code).body.code = code
           /\ SessionOpenOK(c).type = "ClientSessionOpenOK" /\ SessionOpenOK(c).sid = c
           /\ \A p \in Packet, type \in ResultTypes :
                /\ WriteReply(p, type).type = type /\ WriteReply(p, type).sid = p.sid
                /\ WriteReply(p, type).body.query = p.body.query
BY DEF SessionClose, SessionOpenOK, WriteReply

\* The session whose request was handled.
LEMMA HandledSession ==
    ASSUME NEW c \in ClientStreams, Session(c), UNCHANGED <<qpc, results, answer>>,
           qpc[c] \notin {"idle", "opening", "sending"},
           \A k \in Stages : k # 4 => Stage(c)'[k] = {},
           \A p \in Stage(c)'[4] : Content(c, 4, p)',
           ran[c] \in Nat, ran'[c] \in Nat, ran[c] <= ran'[c],
           ran'[c] <= IF DbRow[c] = "mongodb" THEN 2 ELSE 1,
           \A t \in AgentStreams : c \in probing'[t] =>
               Stage(c)'[4] = {} /\ ran'[c] = 0 /\ ~Responded(c) /\ c \in params'[t]
    PROVE  Session(c)'
<1>1. Responded(c)' <=> Responded(c)
  BY DEF Responded
<1>2. Lined(Stage(c))'
  <2>1. Lined(Stage(c)')
    BY LinedAlone, EveryStage
  <2> QED
    BY <2>1 DEF Lined, MayPrecede
<1>3. \A k \in Stages : \A p \in Stage(c)'[k] : Content(c, k, p)'
  OBVIOUS
<1>4. /\ qpc'[c] \in {"idle", "opening", "sending"} =>
           Quiet(c)' /\ ran'[c] = 0 /\ \A s \in AgentStreams : c \notin probing'[s]
      /\ qpc'[c] # "done" => answer'[c] = None
      /\ qpc'[c] \in {"opening", "waiting", "sending"} => DbRow[c] \in DbTypes
      /\ qpc'[c] = "sending" => Prepared(c)'
      /\ Responded(c)' => DbRow[c] \in DbTypes
      /\ results'[c] # None => results'[c] = c /\ ran'[c] > 0
  BY <1>1 DEF Session
<1>5. ASSUME NEW t \in AgentStreams, c \in probing'[t]
      PROVE  Quiet(c)' /\ ran'[c] = 0 /\ ~Responded(c)' /\ c \in params'[t]
  <2>1. \A k \in Stages : Stage(c)'[k] = {}
    BY <1>5
  <2>2. Quiet(c)'
    BY <2>1 DEF Quiet, Stages
  <2> QED
    BY <1>1, <1>5, <2>2
<1> QED
  BY <1>2, <1>3, <1>4, <1>5 DEF Session, Stages

\* A handler that closes the session, or says nothing.
LEMMA ClosesKeeps ==
    ASSUME IInv, NEW s \in AgentStreams, NEW c \in ClientStreams, NEW b, Handled(s, c, b),
           \A p \in Elems(b) : \E code \in {"1", "254"} : p = SessionClose(c, code),
           UNCHANGED <<params, probing, ran>>
    PROVE  Keeps
<1>1. /\ Routing' /\ Tidy' /\ \A d \in ClientStreams : d # c => Session(d)'
      /\ \A k \in Stages : k # 4 => Stage(c)'[k] = {}
      /\ \A p : p \in Stage(c)'[4] <=> p \in Elems(b)
      /\ qpc[c] \notin {"idle", "opening", "sending"} /\ \A t \in AgentStreams : c \notin probing[t]
  <2>1. OnlyFor(s, c)
    BY DEF OnlyFor
  <2> QED
    BY <2>1, HandlerStep
<1>2. ASSUME NEW p \in Stage(c)'[4]
      PROVE  Content(c, 4, p)'
  <2>1. p.type = "ClientSessionClose" /\ p.body.code \in ExitCodes \ {"0"}
    BY <1>1, MadeContent DEF ExitCodes
  <2> QED
    BY <2>1 DEF Content, ResultTypes, WriteTypes
<1>3. ran[c] \in Nat /\ ran'[c] = ran[c] /\ ran[c] <= ran[c]
  BY AgentAssumption DEF IInv, Types, AgentTypeOK
<1>4. Session(c)'
  <2>1. Session(c) /\ UNCHANGED <<qpc, results, answer>> /\ \A t \in AgentStreams : c \notin probing'[t]
    BY <1>1 DEF Handled, IInv, apiVars
  <2>2. ran'[c] <= IF DbRow[c] = "mongodb" THEN 2 ELSE 1
    BY <1>3, <2>1 DEF Session
  <2> QED
    BY <1>1, <1>2, <1>3, <2>1, <2>2, HandledSession
<1> QED
  BY <1>1, <1>4 DEF Keeps

\* The packet at the front of an agent's queue is addressed.
LEMMA FrontAddressed ==
    ASSUME IInv, NEW s \in AgentStreams, fromGw[s] # << >>
    PROVE  Front(s) \in Packet /\ Addressed(Front(s))
<1>1. fromGw[s] \in Seq(Packet)
  BY QueuesTyped DEF IInv
<1>2. Front(s) \in Elems(fromGw[s]) /\ Front(s) \in Packet
  BY <1>1 DEF Front, Elems
<1> QED
  BY <1>2 DEF IInv, Routing

\* A SessionOpen without parameters that can be read.
LEMMA SessionOpenFailsKeeps ==
    ASSUME IInv, NEW s \in AgentStreams, SessionOpenFails(s), UNCHANGED <<gatewayVars, apiVars>>
    PROVE  Keeps
<1>a. PICK c : c = Front(s).sid
  OBVIOUS
<1>0. /\ PeerRecv(s) /\ outbox[s] = << >> /\ Front(s).type = "AgentSessionOpen"
      /\ outbox' = [outbox EXCEPT ![s] = <<SessionClose(c, "254"), SessionClose(c, "254")>>]
      /\ UNCHANGED <<params, probing, opened, ran>>
  BY <1>a DEF SessionOpenFails, Handles, Takes, Replies, Front
<1>1. c \in ClientStreams
  BY <1>0, <1>a, FrontAddressed DEF Addressed, PeerRecv
<1>2. PICK p : p = SessionClose(c, "254")
  OBVIOUS
<1>3. "254" \in ExitCodes
  BY DEF ExitCodes
<1>4. p \in Packet /\ p.sid = c /\ p.type = "ClientSessionClose"
  BY <1>1, <1>2, <1>3, PacketsMade, MadeContent
<1>5. MayPrecede(p, p)
  BY <1>4 DEF MayPrecede
<1>6. Batch(<<p, p>>, c) /\ Elems(<<p, p>>) = {p, p}
  BY <1>4, <1>5, BatchOfTwo
<1>7. \A r \in Elems(<<p, p>>) : \E code \in {"1", "254"} : r = SessionClose(c, code)
  BY <1>2, <1>6
<1>8. outbox' = [outbox EXCEPT ![s] = <<p, p>>]
  BY <1>0, <1>2
<1>9. PICK b : b = <<p, p>>
  OBVIOUS
<1>10. Handled(s, c, b)
  BY <1>0, <1>6, <1>8, <1>9, <1>a DEF Handled
<1> QED
  BY <1>0, <1>1, <1>7, <1>9, <1>10, ClosesKeeps

\* A handler that neither opens a session nor runs a query.
LEMMA ServesKeeps ==
    ASSUME IInv, NEW s \in AgentStreams, Serves(s), UNCHANGED <<gatewayVars, apiVars>>
    PROVE  Keeps
<1>a. PICK c : c = Front(s).sid
  OBVIOUS
<1>0. /\ PeerRecv(s) /\ outbox[s] = << >> /\ UNCHANGED <<params, probing, opened, ran>>
      /\ UNCHANGED <<gatewayVars, apiVars, opened>>
  BY DEF Serves
<1>1. ASSUME outbox' = outbox, c \in ClientStreams
      PROVE  Keeps
  <2>1. outbox' = [outbox EXCEPT ![s] = << >>]
    BY <1>0, <1>1 DEF IInv, Types, AgentTypeOK
  <2>2. Batch(<< >>, c) /\ Elems(<< >>) = {}
    BY DEF Batch, Elems
  <2>3. \A r \in Elems(<< >>) : \E code \in {"1", "254"} : r = SessionClose(c, code)
    BY <2>2
  <2>4. Handled(s, c, << >>)
    BY <1>0, <1>a, <2>1, <2>2 DEF Handled
  <2> QED
    BY <1>0, <1>1, <2>3, <2>4, ClosesKeeps
<1>2. ASSUME outbox' = outbox, c \notin ClientStreams
      PROVE  Keeps
  <2>1. \A q : Shorter(q, q)
    BY DEF Shorter
  <2>2. \A x \in Streams : Shorter(fromGw[x], fromGw'[x])
    BY <1>0 DEF PeerRecv, Take, Shorter, IInv, Types, TransportTypeOK
  <2>3. /\ UNCHANGED <<toGw, hand, outbox, opened, bound, hpc>>
        /\ UNCHANGED <<qpc, results, answer, ran, params, bound, probing>>
    BY <1>0, <1>2 DEF PeerRecv, gatewayVars, apiVars
  <2>4. Fewer
    BY <2>1, <2>2, <2>3 DEF Fewer
  <2> QED
    BY <2>3, <2>4, FewerKeeps
<1>3. ASSUME NEW code \in {"1", "254"}, c # None,
             outbox' = [outbox EXCEPT ![s] = <<SessionClose(c, code)>>]
      PROVE  Keeps
  <2>1. c \in ClientStreams
    BY <1>0, <1>3, <1>a, FrontAddressed DEF Packet, PeerRecv
  <2>2. PICK p : p = SessionClose(c, code)
    OBVIOUS
  <2>3. code \in ExitCodes
    BY DEF ExitCodes
  <2>4. p \in Packet /\ p.sid = c
    BY <2>1, <2>2, <2>3, PacketsMade, MadeContent
  <2>5. Batch(<<p>>, c) /\ Elems(<<p>>) = {p}
    BY <2>4, Batches
  <2>6. \A r \in Elems(<<p>>) : \E d \in {"1", "254"} : r = SessionClose(c, d)
    BY <2>2, <2>5
  <2>7. outbox' = [outbox EXCEPT ![s] = <<p>>]
    BY <1>3, <2>2
  <2>8. PICK b : b = <<p>>
    OBVIOUS
  <2>9. Handled(s, c, b)
    BY <1>0, <1>a, <2>5, <2>7, <2>8 DEF Handled
  <2> QED
    BY <1>0, <2>1, <2>6, <2>8, <2>9, ClosesKeeps
<1> QED
  BY <1>1, <1>2, <1>3, <1>a DEF Serves

\* A handler that starts the probe goroutine of session c.
LEMMA OpensKeeps ==
    ASSUME IInv, NEW s \in AgentStreams, NEW c \in ClientStreams, NEW b, Handled(s, c, b),
           Elems(b) = {}, OnlyFor(s, c), c \in params'[s], ran' = ran
    PROVE  Keeps
<1>1. /\ Routing' /\ Tidy' /\ \A d \in ClientStreams : d # c => Session(d)'
      /\ \A k \in Stages : k # 4 => Stage(c)'[k] = {}
      /\ \A p : p \in Stage(c)'[4] <=> p \in Elems(b)
      /\ Content(c, 6, Front(s))
      /\ qpc[c] \notin {"idle", "opening", "sending"} /\ \A t \in AgentStreams : c \notin probing[t]
  BY HandlerStep
<1>2. ran[c] = 0 /\ ~Responded(c)
  BY <1>1 DEF Content
<1>3. Session(c)'
  <2>1. Session(c) /\ UNCHANGED <<qpc, results, answer>>
    BY DEF Handled, IInv, apiVars
  <2>2. Stage(c)'[4] = {}
    BY <1>1
  <2>3. /\ ran[c] \in Nat /\ ran'[c] \in Nat /\ ran[c] <= ran'[c] /\ ran'[c] = 0
        /\ ran'[c] <= IF DbRow[c] = "mongodb" THEN 2 ELSE 1
    BY <1>2
  <2>4. \A t \in AgentStreams : c \in probing'[t] => t = s
    BY <1>1 DEF OnlyFor
  <2>5. \A t \in AgentStreams : c \in probing'[t] =>
               Stage(c)'[4] = {} /\ ran'[c] = 0 /\ ~Responded(c) /\ c \in params'[t]
    BY <1>2, <2>2, <2>3, <2>4
  <2>6. \A p \in Stage(c)'[4] : Content(c, 4, p)'
    BY <2>2
  <2> QED
    BY <1>1, <2>1, <2>3, <2>5, <2>6, HandledSession
<1> QED
  BY <1>1, <1>3 DEF Keeps

\* A SessionOpen whose parameters are stored: the probe goroutine starts.
LEMMA ProcessSessionOpenKeeps ==
    ASSUME IInv, NEW s \in AgentStreams, ProcessSessionOpen(s), UNCHANGED <<gatewayVars, apiVars>>
    PROVE  Keeps
<1>a. PICK c : c = Front(s).sid
  OBVIOUS
<1>0. /\ PeerRecv(s) /\ outbox[s] = << >> /\ Front(s).type = "AgentSessionOpen"
      /\ params' = [params EXCEPT ![s] = @ \cup {c}]
      /\ probing' = [probing EXCEPT ![s] = @ \cup {c}]
      /\ UNCHANGED <<outbox, opened, ran>> /\ UNCHANGED <<gatewayVars, apiVars, opened>>
  BY <1>a DEF ProcessSessionOpen, Handles, Takes, Front
<1>1. c \in ClientStreams
  BY <1>0, <1>a, FrontAddressed DEF Addressed, PeerRecv
<1>2. outbox' = [outbox EXCEPT ![s] = << >>] /\ Batch(<< >>, c) /\ Elems(<< >>) = {}
  BY <1>0 DEF IInv, Types, AgentTypeOK, Batch, Elems
<1>3. OnlyFor(s, c) /\ c \in params'[s]
  BY <1>0 DEF IInv, Types, AgentTypeOK, OnlyFor
<1>4. Handled(s, c, << >>)
  BY <1>0, <1>2, <1>a DEF Handled
<1> QED
  BY <1>0, <1>1, <1>2, <1>3, <1>4, OpensKeeps

\* Request p ran the query of session c n times, and b tells of it.
RunOf(p, c, n, b) ==
    /\ n \in {1, 2} /\ ran'[c] = ran[c] + n
    /\ n = 2 => p.type = "AgentMongoDBConnectionWrite"
    /\ \A q \in Elems(b) : \/ q.type \in ResultTypes /\ q.body.query = p.body.query
                           \/ q.type = "ClientSessionClose" /\ q.body.code \in ExitCodes

\* A handler that runs the query of session c: the request was the first, and
\* its output is followed by the end of the session.
LEMMA RunsKeeps ==
    ASSUME IInv, NEW s \in AgentStreams, NEW c \in ClientStreams, NEW b, Handled(s, c, b),
           OnlyFor(s, c), UNCHANGED probing, NEW n, RunOf(Front(s), c, n, b)
    PROVE  Keeps
<1>0. /\ n \in {1, 2} /\ ran'[c] = ran[c] + n
      /\ n = 2 => Front(s).type = "AgentMongoDBConnectionWrite"
      /\ \A p \in Elems(b) : \/ p.type \in ResultTypes /\ p.body.query = Front(s).body.query
                             \/ p.type = "ClientSessionClose" /\ p.body.code \in ExitCodes
  BY DEF RunOf
<1>1. /\ Routing' /\ Tidy' /\ \A d \in ClientStreams : d # c => Session(d)'
      /\ \A k \in Stages : k # 4 => Stage(c)'[k] = {}
      /\ \A p : p \in Stage(c)'[4] <=> p \in Elems(b)
      /\ Content(c, 6, Front(s))
      /\ Front(s).type \in WriteTypes \cup {"AgentSessionOpen"}
      /\ qpc[c] \notin {"idle", "opening", "sending"} /\ \A t \in AgentStreams : c \notin probing[t]
  BY HandlerStep
<1>2. /\ ran[c] = 0 /\ ~Responded(c) /\ Front(s).body.query = c /\ DbRow[c] \in DbTypes
      /\ Front(s).type \in {"AgentSessionOpen", SendType(c)}
  BY <1>1 DEF Content
<1>3. n = 2 => DbRow[c] = "mongodb"
  <2>1. n = 2 => SendType(c) = "AgentMongoDBConnectionWrite"
    BY <1>0, <1>2
  <2> QED
    BY <1>2, <2>1 DEF SendType, DbTypes
<1>4. Responded(c)' <=> Responded(c)
  BY DEF Handled, Responded, apiVars
<1>5. ran'[c] \in Nat /\ ran'[c] > 0 /\ ran[c] \in Nat /\ ran[c] <= ran'[c]
  BY <1>0, <1>2
<1>6. ASSUME NEW p \in Stage(c)'[4]
      PROVE  Content(c, 4, p)'
  <2>0. p \in Elems(b)
    BY <1>1
  <2>1. CASE p.type \in ResultTypes /\ p.body.query = Front(s).body.query
    <3>1. p.type \in ResultTypes /\ p.body.query = c
      BY <1>2, <2>1
    <3>2. /\ p.type \notin {"ClientSessionClose", "ClientSessionOpenOK"}
          /\ p.type \notin WriteTypes \cup {"ClientSessionOpenOK"}
      BY <3>1 DEF ResultTypes, WriteTypes
    <3> QED
      BY <1>2, <1>4, <1>5, <3>1, <3>2 DEF Content
  <2>2. CASE p.type = "ClientSessionClose" /\ p.body.code \in ExitCodes
    <3>1. p.type \notin ResultTypes /\ p.type \notin WriteTypes \cup {"ClientSessionOpenOK"}
      BY <2>2 DEF ResultTypes, WriteTypes
    <3> QED
      BY <1>5, <2>2, <3>1 DEF Content
  <2> QED
    BY <1>0, <2>0, <2>1, <2>2
<1>7. Session(c)'
  <2>1. Session(c) /\ UNCHANGED <<qpc, results, answer>>
    BY DEF Handled, IInv, apiVars
  <2>2. ran'[c] <= IF DbRow[c] = "mongodb" THEN 2 ELSE 1
    BY <1>0, <1>2, <1>3
  <2>3. \A t \in AgentStreams : c \notin probing'[t]
    BY <1>1
  <2> QED
    BY <1>1, <1>5, <1>6, <2>1, <2>2, <2>3, HandledSession
<1> QED
  BY <1>1, <1>7 DEF Keeps

\* A handler that runs a query.
LEMMA QueriesKeeps ==
    ASSUME IInv, NEW s \in AgentStreams, Queries(s), UNCHANGED <<gatewayVars, apiVars>>
    PROVE  Keeps
<1>a. PICK c : c = Front(s).sid
  OBVIOUS
<1>b. PICK o : o = Front(s)
  OBVIOUS
<1>0. /\ PeerRecv(s) /\ outbox[s] = << >> /\ UNCHANGED <<params, probing, opened>>
      /\ UNCHANGED <<gatewayVars, apiVars, opened>>
  BY QueryReplies
<1>1. PICK n \in {1, 2} : /\ ran' = [ran EXCEPT ![c] = @ + n]
                          /\ n = 2 => o.type = "AgentMongoDBConnectionWrite"
  BY <1>a, <1>b, QueryReplies
<1>2. PICK reply \in {"ClientMySQLConnectionWrite", "ClientMongoDBConnectionWrite"},
           code \in {"0", "1"} :
          /\ o.type = IF reply = "ClientMySQLConnectionWrite"
                        THEN "AgentMySQLConnectionWrite"
                        ELSE "AgentMongoDBConnectionWrite"
          /\ \/ outbox' = [outbox EXCEPT ![s] = <<SessionClose(c, code)>>]
             \/ outbox' = [outbox EXCEPT ![s] = <<WriteReply(o, reply), SessionClose(c, code)>>]
  BY <1>a, <1>b, QueryReplies
<1>3. o \in Packet /\ c \in ClientStreams /\ o.sid = c
  BY <1>0, <1>2, <1>a, <1>b, FrontAddressed DEF Addressed, PeerRecv
<1>4. /\ code \in ExitCodes /\ reply \in ResultTypes /\ reply \in PacketTypes
  BY DEF ExitCodes, ResultTypes, PacketTypes, ClientPacketTypes
<1>5. PICK x, y : x = WriteReply(o, reply) /\ y = SessionClose(c, code)
  OBVIOUS
<1>6. /\ x \in Packet /\ x.type = reply /\ x.sid = c /\ x.body.query = o.body.query
      /\ y \in Packet /\ y.type = "ClientSessionClose" /\ y.sid = c /\ y.body.code = code
  BY <1>3, <1>4, <1>5, PacketsMade, MadeContent
<1>7. PICK b : /\ Batch(b, c) /\ outbox' = [outbox EXCEPT ![s] = b]
               /\ \A p \in Elems(b) : p \in {x, y}
  <2>1. MayPrecede(x, y)
    BY <1>4, <1>6 DEF MayPrecede
  <2>2. Batch(<<y>>, c) /\ Elems(<<y>>) = {y}
    BY <1>6, Batches
  <2>4. Batch(<<x, y>>, c) /\ Elems(<<x, y>>) = {x, y}
    <3>1. x \in Packet /\ y \in Packet /\ x.sid = c /\ y.sid = c
      BY <1>6
    <3> QED
      BY <2>1, <3>1, BatchOfTwo
  <2>3. \/ outbox' = [outbox EXCEPT ![s] = <<y>>]
        \/ outbox' = [outbox EXCEPT ![s] = <<x, y>>]
    BY <1>2, <1>5
  <2> QED
    BY <2>2, <2>3, <2>4
<1>8. ran[c] \in Nat /\ ran'[c] = ran[c] + n /\ \A d \in ClientStreams : d # c => ran'[d] = ran[d]
  BY <1>1, <1>3, AgentAssumption DEF IInv, Types, AgentTypeOK
<1>9. \A p \in Elems(b) : \/ p.type \in ResultTypes /\ p.body.query = Front(s).body.query
                          \/ p.type = "ClientSessionClose" /\ p.body.code \in ExitCodes
  BY <1>4, <1>6, <1>7, <1>b
<1>10. OnlyFor(s, c) /\ UNCHANGED probing
  BY <1>0, <1>8 DEF OnlyFor
<1>11. c \in ClientStreams /\ Handled(s, c, b)
  BY <1>0, <1>3, <1>7, <1>a DEF Handled
<1>12. ran'[c] = ran[c] + n /\ (n = 2 => Front(s).type = "AgentMongoDBConnectionWrite")
  BY <1>1, <1>8, <1>b
<1>13. RunOf(Front(s), c, n, b)
  BY <1>9, <1>12 DEF RunOf
<1> QED
  BY <1>10, <1>11, <1>13, RunsKeeps

-----------------------------------------------------------------------------
(* The probe goroutine *)

\* What the goroutine of session c may say: the session is open, perhaps after
\* the end of it.
ProbeSays(c, b) ==
    \A p \in Elems(b) : p = SessionClose(c, "254") \/ p = SessionOpenOK(c)

\* While the goroutine of session c probes, nothing of the session is on its
\* way and nothing waits to be sent.
LEMMA ProbeAlone ==
    ASSUME IInv, NEW s \in AgentStreams, NEW c \in ClientStreams, c \in probing[s]
    PROVE  /\ opened[s][c] = << >> /\ bound[c] = s /\ c \in params[s]
           /\ Quiet(c) /\ ran[c] = 0 /\ ~Responded(c)
<1>1. Quiet(c) /\ ran[c] = 0 /\ ~Responded(c) /\ c \in params[s] /\ bound[c] = s
  BY DEF IInv, Session, Routing
<1>2. PICK v : v = opened[s][c]
  OBVIOUS
<1>3. v \in Seq(Packet) /\ \A p \in Elems(v) : p.sid = c
  BY <1>2, QueuesTyped DEF IInv, Routing
<1>4. ASSUME NEW p \in Elems(v)
      PROVE  FALSE
  <2>1. p \in InQ(v, c)
    BY <1>3, InQElems
  <2>2. p \in Stage(c)[5]
    BY <1>2, <2>1, StageIs
  <2> QED
    BY <1>1, <2>2, EveryStage DEF Quiet
<1>5. v = << >>
  <2>1. v # << >> => v[1] \in Elems(v)
    BY <1>3 DEF Elems
  <2> QED
    BY <1>4, <2>1
<1> QED
  BY <1>1, <1>2, <1>5

\* The goroutine is done: what it says is all the session has now.
LEMMA ProbeKeeps ==
    ASSUME IInv, NEW s \in AgentStreams, NEW c \in ClientStreams, c \in probing[s],
           NEW b, Batch(b, c), ProbeSays(c, b), opened' = [opened EXCEPT ![s][c] = b],
           probing' = [probing EXCEPT ![s] = @ \ {c}],
           UNCHANGED <<transportVars, params, outbox, ran>>,
           UNCHANGED <<gatewayVars, apiVars>>
    PROVE  Keeps
<1>0. UNCHANGED <<toGw, fromGw, hand, bound, hpc, qpc, results, answer, outbox, params, ran>>
  BY DEF transportVars, gatewayVars, apiVars
<1>1. /\ opened[s][c] = << >> /\ bound[c] = s /\ c \in params[s]
      /\ \A k \in Stages : Stage(c)[k] = {}
      /\ ran[c] = 0 /\ ~Responded(c)
  BY ProbeAlone DEF Quiet
<1>2. /\ opened'[s][c] = b
      /\ \A t \in AgentStreams, d \in ClientStreams : t # s \/ d # c => opened'[t][d] = opened[t][d]
      /\ probing'[s] = probing[s] \ {c}
      /\ \A t \in AgentStreams : probing'[t] \subseteq probing[t]
  BY DEF IInv, Types, AgentTypeOK
<1>3. /\ \A r \in Elems(b) : r.sid = c
      /\ InQ(b, c) = Elems(b)
      /\ \A d : InSeq(b, d) /\ (d # c => InQ(b, d) = {})
  BY BatchQueue
<1>4. Tidy'
  <2>1. \A d \in ClientStreams : \A t \in AgentStreams : InSeq(opened'[t][d], d)
    BY <1>2, <1>3 DEF IInv, Tidy
  <2> QED
    BY <1>0, <2>1 DEF IInv, Tidy
<1>5. Routing'
  <2>1. \A t, r : Owns(t, r)' <=> Owns(t, r)
    BY <1>0 DEF Owns
  <2>2. ASSUME NEW t \in AgentStreams
        PROVE  /\ \A r \in Elems(fromGw'[t]) : Addressed(r) /\ Owns(t, r)'
               /\ \A r \in Elems(toGw'[t]) : Owns(t, r)'
               /\ \A r \in Elems(outbox'[t]) : Owns(t, r)'
    BY <1>0, <2>1 DEF IInv, Routing
  <2>3. ASSUME NEW t \in AgentStreams, NEW d \in ClientStreams
        PROVE  \A r \in Elems(opened'[t][d]) : r.sid = d /\ bound'[d] = t
    <3>1. CASE t = s /\ d = c
      BY <1>0, <1>1, <1>2, <1>3, <3>1
    <3>2. CASE t # s \/ d # c
      BY <1>0, <1>2, <3>2 DEF IInv, Routing
    <3> QED
      BY <3>1, <3>2
  <2>4. ASSUME NEW t \in AgentStreams
        PROVE  /\ hand'[t] # None => Owns(t, hand[t])'
               /\ \A d \in probing'[t] : bound'[d] = t
    <3>1. hand'[t] # None => Owns(t, hand[t])'
      BY <1>0 DEF IInv, Routing, Owns
    <3> QED
      BY <1>0, <1>2, <3>1 DEF IInv, Routing
  <2>5. ASSUME NEW d \in ClientStreams
        PROVE  /\ hpc'[d] = "none" => bound'[d] = None
               /\ \A r \in Elems(toGw'[d]) : r.sid = None
               /\ \A r \in Elems(fromGw'[d]) : r.sid = d
               /\ hand'[d] # None => hand'[d].sid = d
    BY <1>0 DEF IInv, Routing
  <2> QED
    BY <2>2, <2>3, <2>4, <2>5 DEF Routing, Elems, Addressed
<1>6. ASSUME NEW d \in ClientStreams
      PROVE  /\ Stage(d)'[1] \subseteq Stage(d)[1] /\ Stage(d)'[2] \subseteq Stage(d)[2]
             /\ Stage(d)'[3] \subseteq Stage(d)[3] /\ Stage(d)'[4] \subseteq Stage(d)[4]
             /\ Stage(d)'[6] \subseteq Stage(d)[6] /\ Stage(d)'[7] \subseteq Stage(d)[7]
             /\ Stage(d)'[8] \subseteq Stage(d)[8]
  <2>1. \A q : Shorter(q, q)
    BY DEF Shorter
  <2> QED
    BY <1>0, <2>1, StageShorter DEF IInv
<1>7. ASSUME NEW d \in ClientStreams, d # c
      PROVE  Session(d)'
  <2>1. Same(d)
    BY <1>0, <1>2, SameKept
  <2>2. \A t \in AgentStreams : InQ(opened'[t][d], d) \subseteq InQ(opened[t][d], d)
    BY <1>2, <1>7
  <2>3. Stage(d)'[5] \subseteq Stage(d)[5]
    BY <2>2, StageShrinks
  <2>4. \A k \in Stages : Stage(d)'[k] \subseteq Stage(d)[k]
    BY <1>6, <2>3, EveryStage
  <2> QED
    BY <2>1, <2>4, SessionDrops DEF IInv
<1>8. Session(c)'
  <2>1. \A m \in Stages : m # 5 => Stage(c)'[m] = {}
    BY <1>1, <1>6, EveryStage
  <2>2. Lined(Stage(c)')
    BY <2>1, LinedAlone, EveryStage
  <2>3. Lined(Stage(c))'
    BY <2>2 DEF Lined, MayPrecede
  <2>4. Prepared(c)'
    BY <1>0, <1>1 DEF Prepared
  <2>5. ASSUME NEW p \in Stage(c)'[5]
        PROVE  p \in Elems(b)
    <3>1. PICK t \in AgentStreams : p \in InQ(opened'[t][c], c)
      BY StageNext
    <3>2. CASE t = s
      BY <1>2, <1>3, <3>1, <3>2
    <3>3. CASE t # s
      <4>1. p \in Stage(c)[5]
        BY <1>2, <3>1, <3>3, StageIs
      <4> QED
        BY <1>1, <4>1, EveryStage
    <3> QED
      BY <3>2, <3>3
  <2>6. ASSUME NEW p \in Stage(c)'[5]
        PROVE  Content(c, 5, p)'
    <3>1. \/ p.type = "ClientSessionClose" /\ p.body.code = "254"
          \/ p.type = "ClientSessionOpenOK"
      BY <2>5, MadeContent DEF ProbeSays, ExitCodes
    <3>2. p.type \notin ResultTypes \cup WriteTypes
      BY <3>1 DEF ResultTypes, WriteTypes
    <3>3. ran'[c] = 0
      BY <1>0, <1>1
    <3> QED
      BY <2>4, <3>1, <3>2, <3>3 DEF Content, ExitCodes
  <2>7. \A k \in Stages : \A p \in Stage(c)'[k] : Content(c, k, p)'
    BY <2>1, <2>6
  <2>8. /\ Session(c) /\ qpc[c] \notin {"idle", "opening", "sending"}
        /\ Responded(c)' <=> Responded(c)
    BY <1>0 DEF IInv, Session, Responded
  <2>9. \A t \in AgentStreams : c \notin probing'[t]
    <3>1. \A t \in AgentStreams : c \in probing[t] => t = s
      BY <1>1 DEF IInv, Routing
    <3> QED
      BY <1>2, <3>1
  <2>10. /\ qpc'[c] # "done" => answer'[c] = None
         /\ qpc'[c] \in {"opening", "waiting", "sending"} => DbRow[c] \in DbTypes
         /\ Responded(c)' => DbRow[c] \in DbTypes
         /\ results'[c] # None => results'[c] = c /\ ran'[c] > 0
         /\ ran'[c] <= IF DbRow[c] = "mongodb" THEN 2 ELSE 1
    BY <1>0, <2>8 DEF Session
  <2>11. qpc'[c] \notin {"idle", "opening", "sending"}
    BY <1>0, <2>8
  <2> QED
    BY <2>3, <2>7, <2>9, <2>10, <2>11 DEF Session, Stages
<1> QED
  BY <1>4, <1>5, <1>7, <1>8 DEF Keeps

\* The goroutine of session c takes a step.
LEMMA ProbeStepKeeps ==
    ASSUME IInv, NEW s \in AgentStreams, NEW c \in ClientStreams, ProbeStep(s, c),
           UNCHANGED <<gatewayVars, apiVars>>
    PROVE  Keeps
<1>1. PICK x, y : x = SessionClose(c, "254") /\ y = SessionOpenOK(c)
  OBVIOUS
<1>2. "254" \in ExitCodes
  BY DEF ExitCodes
<1>3. /\ x \in Packet /\ x.sid = c /\ x.type = "ClientSessionClose"
      /\ y \in Packet /\ y.sid = c /\ y.type = "ClientSessionOpenOK"
  BY <1>1, <1>2, PacketsMade, MadeContent
<1>4. MayPrecede(x, y)
  BY <1>3 DEF MayPrecede
<1>5. Batch(<<y>>, c) /\ Elems(<<y>>) = {y}
  BY <1>3, Batches
<1>6. Batch(<<x, y>>, c) /\ Elems(<<x, y>>) = {x, y}
  BY <1>3, <1>4, BatchOfTwo
<1>7. ProbeSays(c, <<y>>) /\ ProbeSays(c, <<x, y>>)
  BY <1>1, <1>5, <1>6 DEF ProbeSays
<1>8. CASE ProbeFails(s, c)
  <2>1. /\ c \in probing[s] /\ probing' = [probing EXCEPT ![s] = @ \ {c}]
        /\ opened' = [opened EXCEPT ![s][c] = @ \o <<x, y>>]
        /\ UNCHANGED <<transportVars, params, outbox, ran>>
    BY <1>1, <1>8 DEF ProbeFails
  <2>2. << >> \o <<x, y>> = <<x, y>>
    OBVIOUS
  <2>3. opened[s][c] = << >>
    BY <2>1, ProbeAlone
  <2>4. opened' = [opened EXCEPT ![s][c] = <<x, y>>]
    BY <2>1, <2>2, <2>3
  <2> QED
    BY <1>6, <1>7, <2>1, <2>4, ProbeKeeps
<1>9. CASE ProbeSucceeds(s, c)
  <2>1. /\ c \in probing[s] /\ probing' = [probing EXCEPT ![s] = @ \ {c}]
        /\ opened' = [opened EXCEPT ![s][c] = Append(@, y)]
        /\ UNCHANGED <<transportVars, params, outbox, ran>>
    BY <1>1, <1>9 DEF ProbeSucceeds
  <2>2. Append(<< >>, y) = <<y>>
    OBVIOUS
  <2>3. opened[s][c] = << >>
    BY <2>1, ProbeAlone
  <2>4. opened' = [opened EXCEPT ![s][c] = <<y>>]
    BY <2>1, <2>2, <2>3
  <2> QED
    BY <1>5, <1>7, <2>1, <2>4, ProbeKeeps
<1>10. CASE ProbeSend(s, c)
  BY <1>10, ProbeSendKeeps
<1> QED
  BY <1>8, <1>9, <1>10 DEF ProbeStep

-----------------------------------------------------------------------------
(* The components *)

\* A step of the gateway.
LEMMA GatewayKeeps ==
    ASSUME IInv, NEW x \in Streams, GatewayStep(x)
    PROVE  Keeps
<1>0. UNCHANGED <<agentVars, apiVars>>
  BY DEF GatewayStep
<1>1. ASSUME UNCHANGED <<toGw, fromGw, hand, bound>>,
             \A c \in ClientStreams : hpc'[c] = "none" => hpc[c] = "none"
      PROVE  Keeps
  <2>1. UNCHANGED <<outbox, opened, probing, params, ran>> /\ UNCHANGED <<qpc, results, answer>>
    BY <1>0 DEF agentVars, apiVars
  <2> QED
    BY <1>1, <2>1, StillKeeps
<1>2. ASSUME NEW pc \in {"done", "greet", "returning", "recv", "closing", "deleting"}, Goto(x, pc)
      PROVE  \A c \in ClientStreams : hpc'[c] = "none" => hpc[c] = "none"
  BY <1>2 DEF Goto, IInv, Types, GatewayTypeOK
<1>3. CASE RejectUnauthorized(x)
  BY <1>1, <1>2, <1>3 DEF RejectUnauthorized
<1>4. CASE x \in AgentStreams /\ AgentHandler(x, NoBody)
  <2>1. CASE AgentConnect(x) \/ AgentRecvFails(x) \/ AgentReturn(x)
    BY <1>1, <1>2, <2>1 DEF AgentConnect, AgentRecvFails, AgentReturn
  <2>2. CASE SendConnectOK(x, NoBody)
    BY <1>0, <1>4, <2>2, SendConnectOKKeeps
  <2>3. CASE AgentRecv(x)
    BY <1>0, <1>4, <2>3, AgentRecvKeeps
  <2>4. CASE LockSession(x)
    BY <1>0, <1>4, <2>4, LockSessionKeeps
  <2>5. CASE SendToClient(x)
    BY <1>0, <1>4, <2>5, SendToClientKeeps
  <2> QED
    BY <1>4, <2>1, <2>2, <2>3, <2>4, <2>5 DEF AgentHandler
<1>5. CASE x \in ClientStreams /\ ClientHandler(x)
  <2>1. CASE RejectUnavailable(x) \/ CreateSession(x) \/ ClientRecvFails(x)
    BY <1>1, <1>2, <2>1 DEF RejectUnavailable, CreateSession, ClientRecvFails
  <2>2. CASE CloseSession(x) \/ DeleteSession(x)
    BY <1>1, <1>2, <2>2 DEF CloseSession, DeleteSession
  <2>3. CASE FindAgent(x)
    BY <1>0, <1>5, <2>3, FindAgentKeeps
  <2>4. CASE ClientRecv(x)
    BY <1>0, <1>5, <2>4, ClientRecvKeeps
  <2>5. CASE ForwardToAgent(x)
    BY <1>0, <1>5, <2>5, ForwardToAgentKeeps
  <2> QED
    BY <1>5, <2>1, <2>2, <2>3, <2>4, <2>5 DEF ClientHandler
<1> QED
  BY <1>3, <1>4, <1>5 DEF GatewayStep

\* A step that leaves all but the links alone.
LEMMA LinkKeeps ==
    ASSUME IInv, UNCHANGED <<toGw, fromGw>>, UNCHANGED <<gatewayVars, apiVars>>,
           UNCHANGED <<outbox, opened, probing, params, ran>>
    PROVE  Keeps
<1>1. UNCHANGED <<hand, bound, hpc>> /\ UNCHANGED <<qpc, results, answer>>
  BY DEF gatewayVars, apiVars
<1> QED
  BY <1>1, StillKeeps

\* A step of an agent.
LEMMA AgentKeeps ==
    ASSUME IInv, NEW s \in AgentStreams, StartAgent(s) \/ AgentStep(s) \/ CommandStep(s)
    PROVE  Keeps
<1>1. CASE StartAgent(s)
  BY <1>1, LinkKeeps DEF StartAgent, AgentStart, Dial
<1>2. CASE AgentStep(s)
  <2>0. UNCHANGED <<gatewayVars, apiVars>>
    BY <1>2 DEF AgentStep
  <2>1. CASE RunStep(s)
    <3>1. TransportTypeOK /\ AgentTypeOK /\ (fromGw[s] # << >> => Addressed(Front(s)))
      BY FrontAddressed DEF IInv, Types
    <3>2. \/ AgentSend(s) \/ AgentRunReturns(s) \/ SessionOpenFails(s)
          \/ ProcessSessionOpen(s) \/ Queries(s) \/ Serves(s)
      BY <2>1, <3>1, RunStepCases
    <3>3. AgentRunReturns(s) => Keeps
      BY <2>0, LinkKeeps DEF AgentRunReturns, transportVars
    <3> QED
      BY <2>0, <3>2, <3>3, AgentSendKeeps, SessionOpenFailsKeeps, ProcessSessionOpenKeeps,
         QueriesKeeps, ServesKeeps
  <2>2. CASE \E c \in ClientStreams : ProbeStep(s, c)
    BY <2>0, <2>2, ProbeStepKeeps
  <2> QED
    BY <1>2, <2>1, <2>2 DEF AgentStep
<1>3. CASE CommandStep(s)
  BY <1>3, LinkKeeps DEF CommandStep, CommandEnds, transportVars
<1> QED
  BY <1>1, <1>2, <1>3

\* An agent dies: what it had of its sessions is lost.
LEMMA CrashKeeps ==
    ASSUME IInv, NEW s \in AgentStreams, AgentCrash(s), UNCHANGED <<gatewayVars, apiVars>>
    PROVE  Keeps
<1>0. UNCHANGED <<toGw, fromGw, hand, hpc, bound>> /\ UNCHANGED <<qpc, results, answer, ran, params, bound>>
  BY DEF AgentCrash, transportVars, gatewayVars, apiVars
<1>1. /\ \A t \in AgentStreams : outbox'[t] \in {outbox[t], << >>}
      /\ \A t \in AgentStreams, c \in ClientStreams : opened'[t][c] \in {opened[t][c], << >>}
      /\ \A t \in AgentStreams : probing'[t] \subseteq probing[t]
  BY DEF AgentCrash, IInv, Types, AgentTypeOK
<1>2. Fewer
  BY <1>0, <1>1 DEF Fewer, Shorter
<1> QED
  BY <1>0, <1>1, <1>2, FewerKeeps

\* A fault.
LEMMA FaultKeeps ==
    ASSUME IInv,
           \/ \E s \in AgentStreams : AgentFault(s) \/ StreamOfDeadAgentBreaks(s)
           \/ \E c \in ClientStreams : ClientFault(c)
    PROVE  Keeps
<1>1. ASSUME NEW x, Break(x), UNCHANGED <<gatewayVars, apiVars>>, UNCHANGED agentVars
      PROVE  Keeps
  BY <1>1, LinkKeeps DEF Break, agentVars
<1>2. ASSUME NEW s \in AgentStreams, AgentFault(s)
      PROVE  Keeps
  BY <1>1, <1>2, CrashKeeps DEF AgentFault
<1>3. ASSUME NEW s \in AgentStreams, StreamOfDeadAgentBreaks(s)
      PROVE  Keeps
  BY <1>1, <1>3 DEF StreamOfDeadAgentBreaks
<1>4. ASSUME NEW c \in ClientStreams, ClientFault(c)
      PROVE  Keeps
  BY <1>1, <1>4 DEF ClientFault
<1> QED
  BY <1>2, <1>3, <1>4

-----------------------------------------------------------------------------
(* The API server *)

\* What is said of a session that has not got a response.
LEMMA ApiSession ==
    ASSUME NEW c \in ClientStreams, Session(c), UNCHANGED <<ran, params, probing, bound>>,
           ~Responded(c)', \A k \in Stages : Stage(c)'[k] \subseteq Stage(c)[k],
           qpc'[c] # "done" => answer'[c] = None,
           qpc'[c] \in {"opening", "waiting", "sending"} => DbRow[c] \in DbTypes,
           qpc'[c] \in {"idle", "opening", "sending"} =>
               /\ \A k \in Stages : Stage(c)'[k] = {}
               /\ ran[c] = 0 /\ \A s \in AgentStreams : c \notin probing[s],
           qpc'[c] = "sending" => Prepared(c),
           results'[c] # None => results'[c] = c /\ ran[c] > 0
    PROVE  Session(c)'
<1>1. Lined(Stage(c))'
  <2>1. Lined(Stage(c)')
    BY LinedDrops DEF Session
  <2> QED
    BY <2>1 DEF Lined, MayPrecede
<1>2. Prepared(c)' <=> Prepared(c)
  BY DEF Prepared
<1>3. ASSUME NEW k \in Stages, NEW p \in Stage(c)'[k]
      PROVE  Content(c, k, p)'
  <2>1. Content(c, k, p)
    BY DEF Session
  <2> QED
    BY <1>2, <2>1 DEF Content
<1>4. Quiet(c)' <=> \A k \in Stages : Stage(c)'[k] = {}
  BY DEF Quiet, Stages
<1>5. \A s \in AgentStreams : c \in probing'[s] =>
          Quiet(c)' /\ ran'[c] = 0 /\ ~Responded(c)' /\ c \in params'[s]
  BY <1>4 DEF Session, Quiet
<1>6. /\ qpc'[c] \in {"idle", "opening", "sending"} =>
           Quiet(c)' /\ ran'[c] = 0 /\ \A s \in AgentStreams : c \notin probing'[s]
      /\ qpc'[c] = "sending" => Prepared(c)'
      /\ results'[c] # None => results'[c] = c /\ ran'[c] > 0
      /\ ran'[c] <= IF DbRow[c] = "mongodb" THEN 2 ELSE 1
  BY <1>2, <1>4 DEF Session
<1> QED
  BY <1>1, <1>3, <1>5, <1>6 DEF Session, Stages

\* A request touches only its own session.
LEMMA ApiFrame ==
    ASSUME IInv, NEW c \in ClientStreams, QueryStep(c), UNCHANGED <<gatewayVars, agentVars>>
    PROVE  /\ \A x \in Streams : x # c => toGw'[x] = toGw[x] /\ fromGw'[x] = fromGw[x]
           /\ \A d \in ClientStreams : d # c =>
                qpc'[d] = qpc[d] /\ results'[d] = results[d] /\ answer'[d] = answer[d]
           /\ UNCHANGED <<hand, hpc, bound>> /\ UNCHANGED <<params, outbox, probing, opened, ran>>
           /\ \A d \in ClientStreams : d # c => Session(d)'
<1>0. c \in Streams
  BY StreamKinds
<1>1. \A x \in Streams : x # c => toGw'[x] = toGw[x] /\ fromGw'[x] = fromGw[x]
  <2>1. toGw' = toGw \/ \E p : toGw' = Put(toGw, c, p)
    BY DEF QueryStep, RejectRequest, QueryFailsEarly, StartQuery, SendSessionOpen, SendQuery,
           SendFails, ReceiveReply, ReceiveClose, ReceiveFails, PeerSend, PeerRecv, Dial, transportVars
  <2>2. fromGw' = fromGw \/ fromGw' = Take(fromGw, c)
    BY DEF QueryStep, RejectRequest, QueryFailsEarly, StartQuery, SendSessionOpen, SendQuery,
           SendFails, ReceiveReply, ReceiveClose, ReceiveFails, PeerSend, PeerRecv, Dial, transportVars
  <2> QED
    BY <2>1, <2>2 DEF Put, Take, IInv, Types, TransportTypeOK
<1>2. \A d \in ClientStreams : d # c =>
          qpc'[d] = qpc[d] /\ results'[d] = results[d] /\ answer'[d] = answer[d]
  BY DEF QueryStep, RejectRequest, QueryFailsEarly, StartQuery, SendSessionOpen, SendQuery,
         SendFails, ReceiveReply, ReceiveClose, ReceiveFails, Respond, IInv, Types, ApiTypeOK
<1>3. UNCHANGED <<hand, hpc, bound>> /\ UNCHANGED <<params, outbox, probing, opened, ran>>
  BY DEF gatewayVars, agentVars
<1>4. ASSUME NEW d \in ClientStreams, d # c
      PROVE  Session(d)'
  <2>1. \A q : Shorter(q, q)
    BY DEF Shorter
  <2>2. d \in Streams /\ \A s \in AgentStreams : s \in Streams /\ s # c
    BY StreamKinds
  <2>3. /\ Stage(d)'[1] \subseteq Stage(d)[1] /\ Stage(d)'[2] \subseteq Stage(d)[2]
        /\ Stage(d)'[3] \subseteq Stage(d)[3] /\ Stage(d)'[4] \subseteq Stage(d)[4]
        /\ Stage(d)'[5] \subseteq Stage(d)[5] /\ Stage(d)'[6] \subseteq Stage(d)[6]
        /\ Stage(d)'[7] \subseteq Stage(d)[7] /\ Stage(d)'[8] \subseteq Stage(d)[8]
    BY <1>1, <1>3, <1>4, <2>1, <2>2, StageShorter DEF IInv
  <2>4. \A k \in Stages : Stage(d)'[k] \subseteq Stage(d)[k]
    BY <2>3, EveryStage
  <2>5. Same(d)
    <3>1. Prepared(d) => Prepared(d)'
      BY <1>3 DEF Prepared
    <3> QED
      BY <1>2, <1>3, <1>4, <3>1 DEF Same
  <2> QED
    BY <2>4, <2>5, SessionDrops DEF IInv
<1> QED
  BY <1>1, <1>2, <1>3, <1>4

\* A request that takes a packet, or none.
LEMMA ApiTakes ==
    ASSUME IInv, NEW c \in ClientStreams, QueryStep(c), UNCHANGED <<gatewayVars, agentVars>>,
           toGw' = toGw, Shorter(fromGw[c], fromGw'[c])
    PROVE  /\ Routing' /\ Tidy'
           /\ \A d \in ClientStreams : d # c => Session(d)'
           /\ \A k \in Stages : Stage(c)'[k] \subseteq Stage(c)[k]
<1>0. /\ \A x \in Streams : x # c => fromGw'[x] = fromGw[x]
      /\ UNCHANGED <<hand, hpc, bound>> /\ UNCHANGED <<params, outbox, probing, opened, ran>>
      /\ \A d \in ClientStreams : d # c => Session(d)'
  BY ApiFrame
<1>1. Fewer
  BY <1>0 DEF Fewer, Shorter
<1>2. /\ Routing' /\ Tidy'
      /\ \A d \in ClientStreams : \A k \in Stages : Stage(d)'[k] \subseteq Stage(d)[k]
  <2>1. \A d \in ClientStreams : hpc'[d] = "none" => hpc[d] = "none"
    BY <1>0
  <2>2. \A s \in AgentStreams : probing'[s] \subseteq probing[s]
    BY <1>0
  <2>3. bound' = bound
    BY <1>0
  <2> QED
    BY <1>1, <2>1, <2>2, <2>3, FewerQueues DEF IInv
<1> QED
  BY <1>0, <1>2

\* A request that ends without a response, or opens its stream.
LEMMA ApiStillKeeps ==
    ASSUME IInv, NEW c \in ClientStreams, UNCHANGED <<gatewayVars, agentVars>>,
           \/ RejectRequest(c) \/ QueryFailsEarly(c) \/ SendFails(c) \/ ReceiveFails(c)
           \/ StartQuery(c)
    PROVE  Keeps
<1>0. QueryStep(c) /\ UNCHANGED <<toGw, fromGw, results>>
  BY DEF QueryStep, RejectRequest, QueryFailsEarly, SendFails, ReceiveFails, StartQuery, Dial,
         transportVars
<1>1. Shorter(fromGw[c], fromGw'[c])
  BY <1>0 DEF Shorter
<1>2. /\ Routing' /\ Tidy' /\ \A d \in ClientStreams : d # c => Session(d)'
      /\ \A k \in Stages : Stage(c)'[k] \subseteq Stage(c)[k]
  BY <1>0, <1>1, ApiTakes
<1>3. Session(c) /\ UNCHANGED <<ran, params, probing, bound>>
  BY DEF IInv, gatewayVars, agentVars
<1>4. CASE StartQuery(c)
  <2>1. /\ qpc[c] = "idle" /\ DbRow[c] \in DbTypes /\ qpc'[c] = "opening"
        /\ UNCHANGED <<results, answer>>
    BY <1>4 DEF StartQuery, IInv, Types, ApiTypeOK
  <2>2. /\ Quiet(c) /\ ran[c] = 0 /\ \A s \in AgentStreams : c \notin probing[s]
        /\ answer[c] = None
    BY <1>3, <2>1 DEF Session
  <2>3. \A k \in Stages : Stage(c)'[k] = {}
    BY <1>2, <2>2 DEF Quiet
  <2>4. ~Responded(c)'
    BY <2>1, <2>2 DEF Responded
  <2>5. results'[c] # None => results'[c] = c /\ ran[c] > 0
    BY <1>0, <1>3 DEF Session
  <2>6. Session(c)'
    BY <1>2, <1>3, <2>1, <2>2, <2>3, <2>4, <2>5, ApiSession
  <2> QED
    BY <1>2, <2>6 DEF Keeps
<1>5. CASE ~StartQuery(c)
  <2>1. \E a \in {[kind |-> "badRequest"], [kind |-> "error"]} : Respond(c, a)
    BY <1>5 DEF RejectRequest, QueryFailsEarly, SendFails, ReceiveFails
  <2>2. qpc'[c] = "done" /\ answer'[c].kind # "response"
    BY <2>1 DEF Respond, IInv, Types, ApiTypeOK
  <2>3. ~Responded(c)'
    BY <2>2 DEF Responded
  <2>4. results'[c] # None => results'[c] = c /\ ran[c] > 0
    BY <1>0, <1>3 DEF Session
  <2>5. Session(c)'
    BY <1>2, <1>3, <2>2, <2>3, <2>4, ApiSession
  <2> QED
    BY <1>2, <2>5 DEF Keeps
<1> QED
  BY <1>4, <1>5

\* The packet a request receives is one of its own session.
LEMMA Received ==
    ASSUME IInv, NEW c \in ClientStreams, fromGw[c] # << >>, fromGw' = Take(fromGw, c)
    PROVE  /\ Head(fromGw[c]) \in Stage(c)[1] /\ Content(c, 1, Head(fromGw[c]))
           /\ ~Quiet(c) /\ \A s \in AgentStreams : c \notin probing[s]
           /\ Shorter(fromGw[c], fromGw'[c])
           /\ (\A k \in Stages : Stage(c)'[k] \subseteq Stage(c)[k]) =>
                 \A k \in Stages : \A q \in Stage(c)'[k] : MayPrecede(Head(fromGw[c]), q)
<1>a. PICK p : p = Head(fromGw[c])
  OBVIOUS
<1>0. /\ c \in Streams /\ fromGw[c] \in Seq(Packet) /\ fromGw'[c] = Tail(fromGw[c])
  BY QueuesTyped DEF IInv, Types, TransportTypeOK, Take
<1>1. p \in Elems(fromGw[c])
  BY <1>0, <1>a DEF Elems
<1>2. p.sid = c
  BY <1>1 DEF IInv, Routing
<1>3. p \in Stage(c)[1]
  BY <1>0, <1>2, <1>a, QueueTail, StageIs
<1>4. Content(c, 1, p)
  BY <1>3, EveryStage DEF IInv, Session
<1>5. ~Quiet(c)
  BY <1>3, EveryStage DEF Quiet
<1>6. \A s \in AgentStreams : c \notin probing[s]
  BY <1>5 DEF IInv, Session
<1>7. Shorter(fromGw[c], fromGw'[c])
  BY <1>0 DEF Shorter
<1>8. ASSUME \A k \in Stages : Stage(c)'[k] \subseteq Stage(c)[k],
             NEW k \in Stages, NEW q \in Stage(c)'[k]
      PROVE  MayPrecede(p, q)
  <2>1. CASE k = 1
    <3>1. q \in InQ(Tail(fromGw[c]), c)
      BY <1>0, <2>1, StageNext
    <3>2. InSeq(fromGw[c], c)
      BY DEF IInv, Tidy
    <3>3. PICK v : v = fromGw[c]
      OBVIOUS
    <3>4. /\ v \in Seq(Packet) /\ v # << >> /\ p = Head(v) /\ p.sid = c
          /\ InSeq(v, c) /\ q \in InQ(Tail(v), c)
      BY <1>0, <1>2, <1>a, <3>1, <3>2, <3>3
    <3> QED
      BY <3>4, QueueTail
  <2>2. CASE k # 1
    <3>1. 1 \in Stages /\ 1 < k
      BY <2>2 DEF Stages
    <3>2. q \in Stage(c)[k] /\ Lined(Stage(c))
      BY <1>8 DEF IInv, Session
    <3> QED
      BY <1>3, <3>1, <3>2 DEF Lined
  <2> QED
    BY <2>1, <2>2
<1> QED
  BY <1>3, <1>4, <1>5, <1>6, <1>7, <1>8, <1>a

\* The receive loop goes on.
LEMMA ReceiveReplyKeeps ==
    ASSUME IInv, NEW c \in ClientStreams, UNCHANGED <<gatewayVars, agentVars>>, ReceiveReply(c)
    PROVE  Keeps
<1>a. PICK p : p = Head(fromGw[c])
  OBVIOUS
<1>0. /\ QueryStep(c) /\ qpc[c] = "waiting" /\ fromGw[c] # << >> /\ fromGw' = Take(fromGw, c)
      /\ toGw' = toGw /\ p.type # "ClientSessionClose" /\ answer' = answer
      /\ qpc'[c] = (IF p.type = "ClientSessionOpenOK" THEN "sending" ELSE "waiting")
      /\ results'[c] = (IF p.type = ReceiveType(c) THEN p.body.query ELSE results[c])
  BY <1>a DEF QueryStep, ReceiveReply, PeerRecv, IInv, Types, ApiTypeOK
<1>1. /\ Content(c, 1, p)
      /\ \A s \in AgentStreams : c \notin probing[s]
      /\ Shorter(fromGw[c], fromGw'[c])
      /\ (\A k \in Stages : Stage(c)'[k] \subseteq Stage(c)[k]) =>
            \A k \in Stages : \A q \in Stage(c)'[k] : MayPrecede(p, q)
  BY <1>0, <1>a, Received
<1>2. /\ Routing' /\ Tidy' /\ \A d \in ClientStreams : d # c => Session(d)'
      /\ \A k \in Stages : Stage(c)'[k] \subseteq Stage(c)[k]
  BY <1>0, <1>1, ApiTakes
<1>3. Session(c) /\ UNCHANGED <<ran, params, probing, bound>>
  BY DEF IInv, gatewayVars, agentVars
<1>4. DbRow[c] \in DbTypes /\ answer[c] = None
  BY <1>0, <1>3 DEF Session
<1>5. ~Responded(c)' /\ (qpc'[c] # "done" => answer'[c] = None)
  BY <1>0, <1>4 DEF Responded
<1>6. ReceiveType(c) \in ResultTypes
  BY <1>4 DEF ReceiveType, ResultTypes, DbTypes
<1>7. results'[c] # None => results'[c] = c /\ ran[c] > 0
  <2>1. CASE p.type = ReceiveType(c)
    BY <1>0, <1>1, <1>6, <2>1 DEF Content
  <2>2. CASE p.type # ReceiveType(c)
    BY <1>0, <1>3, <2>2 DEF Session
  <2> QED
    BY <2>1, <2>2
<1>8. CASE p.type = "ClientSessionOpenOK"
  <2>1. ran[c] = 0 /\ Prepared(c)
    BY <1>1, <1>8 DEF Content
  <2>2. \A q : ~MayPrecede(p, q)
    BY <1>8 DEF MayPrecede, ResultTypes
  <2>3. \A k \in Stages : Stage(c)'[k] = {}
    BY <1>1, <1>2, <2>2
  <2> QED
    BY <1>1, <1>2, <1>3, <1>4, <1>5, <1>7, <2>1, <2>3, ApiSession DEF Keeps
<1>9. CASE p.type # "ClientSessionOpenOK"
  <2>1. qpc'[c] = "waiting"
    BY <1>0, <1>9
  <2> QED
    BY <1>2, <1>3, <1>4, <1>5, <1>7, <2>1, ApiSession DEF Keeps
<1> QED
  BY <1>8, <1>9

\* The end of the session is the response: what is left of the session tells
\* nothing more.
LEMMA ReceiveCloseKeeps ==
    ASSUME IInv, NEW c \in ClientStreams, UNCHANGED <<gatewayVars, agentVars>>, ReceiveClose(c)
    PROVE  Keeps
<1>a. PICK p : p = Head(fromGw[c])
  OBVIOUS
<1>0. /\ QueryStep(c) /\ qpc[c] = "waiting" /\ fromGw[c] # << >> /\ fromGw' = Take(fromGw, c)
      /\ toGw' = toGw /\ p.type = "ClientSessionClose" /\ UNCHANGED results
      /\ qpc'[c] = "done"
  BY <1>a DEF QueryStep, ReceiveClose, Respond, IInv, Types, ApiTypeOK
<1>1. /\ \A s \in AgentStreams : c \notin probing[s]
      /\ Shorter(fromGw[c], fromGw'[c])
      /\ (\A k \in Stages : Stage(c)'[k] \subseteq Stage(c)[k]) =>
            \A k \in Stages : \A q \in Stage(c)'[k] : MayPrecede(p, q)
  BY <1>0, <1>a, Received
<1>2. /\ Routing' /\ Tidy' /\ \A d \in ClientStreams : d # c => Session(d)'
      /\ \A k \in Stages : Stage(c)'[k] \subseteq Stage(c)[k]
  BY <1>0, <1>1, ApiTakes
<1>3. Session(c) /\ UNCHANGED <<ran, params, probing, bound>>
  BY DEF IInv, gatewayVars, agentVars
<1>4. Lined(Stage(c))'
  <2>1. Lined(Stage(c)')
    BY <1>2, <1>3, LinedDrops DEF Session
  <2> QED
    BY <2>1 DEF Lined, MayPrecede
<1>5. ASSUME NEW k \in Stages, NEW q \in Stage(c)'[k]
      PROVE  Content(c, k, q)'
  <2>1. MayPrecede(p, q)
    BY <1>1, <1>2
  <2>2. q.type \in {"ClientSessionClose", "ClientSessionOpenOK"}
    BY <1>0, <2>1 DEF MayPrecede, ResultTypes
  <2>3. q \in Stage(c)[k] /\ Content(c, k, q)
    BY <1>2, <1>3 DEF Session
  <2>4. k <= 5
    <3>1. k \in {6, 7, 8} => q.type \in WriteTypes \cup {"AgentSessionOpen"}
      BY <1>3, <2>3, RequestAlone
    <3>2. q.type \notin WriteTypes \cup {"AgentSessionOpen"}
      BY <2>2 DEF WriteTypes
    <3> QED
      BY <3>1, <3>2 DEF Stages
  <2>5. q.type \notin ResultTypes /\ q.type \notin WriteTypes
    BY <2>2 DEF ResultTypes, WriteTypes
  <2>6. Prepared(c)' <=> Prepared(c)
    BY <1>3 DEF Prepared
  <2>7. ~(k > 5)
    BY <2>4 DEF Stages
  <2> QED
    BY <1>3, <2>2, <2>3, <2>4, <2>5, <2>6, <2>7 DEF Content
<1>6. /\ DbRow[c] \in DbTypes
      /\ results'[c] # None => results'[c] = c /\ ran'[c] > 0
      /\ ran'[c] <= IF DbRow[c] = "mongodb" THEN 2 ELSE 1
  BY <1>0, <1>3 DEF Session
<1>7. \A s \in AgentStreams : c \notin probing'[s]
  BY <1>1, <1>3
<1>8. Session(c)'
  BY <1>0, <1>4, <1>5, <1>6, <1>7 DEF Session, Stages
<1> QED
  BY <1>2, <1>8 DEF Keeps

\* A request sends a packet: nothing else of its session was on its way.
LEMMA ApiSendKeeps ==
    ASSUME IInv, NEW c \in ClientStreams, UNCHANGED <<gatewayVars, agentVars>>, QueryStep(c),
           qpc[c] \in {"opening", "sending"}, NEW p \in Packet, PeerSend(c, p),
           p.sid = None, p.body.query = c, qpc'[c] = "waiting", UNCHANGED <<results, answer>>,
           p.type \in {"AgentSessionOpen", SendType(c)},
           p.type = "AgentSessionOpen" \/ qpc[c] = "sending"
    PROVE  Keeps
<1>0. /\ \A x \in Streams : x # c => toGw'[x] = toGw[x] /\ fromGw'[x] = fromGw[x]
      /\ UNCHANGED <<hand, hpc, bound>> /\ UNCHANGED <<params, outbox, probing, opened, ran>>
      /\ \A d \in ClientStreams : d # c => Session(d)'
  BY ApiFrame
<1>1. /\ c \in Streams /\ toGw[c] \in Seq(Packet) /\ c # None
      /\ toGw'[c] = Append(toGw[c], p) /\ fromGw' = fromGw
  BY QueuesTyped, StreamKinds DEF PeerSend, Put, IInv, Types, TransportTypeOK
<1>2. /\ Quiet(c) /\ ran[c] = 0 /\ \A s \in AgentStreams : c \notin probing[s]
      /\ answer[c] = None /\ DbRow[c] \in DbTypes /\ Session(c)
      /\ qpc[c] = "sending" => Prepared(c)
  BY DEF IInv, Session
<1>3. \A k \in Stages : Stage(c)[k] = {}
  BY <1>2 DEF Quiet
<1>4. ASSUME NEW r \in InQ(toGw[c], None)
      PROVE  FALSE
  <2>1. r \in Stage(c)[8]
    BY <1>4, StageIs
  <2> QED
    BY <1>3, <2>1, EveryStage
<1>5. Arrives(p)
  <2>1. Fits(toGw[c], p)
    BY <1>4 DEF Fits
  <2>2. \A q : Shorter(q, q)
    BY DEF Shorter
  <2>3. \A s \in AgentStreams : s \in Streams /\ s # c
    BY StreamKinds
  <2>4. ASSUME NEW d \in ClientStreams
        PROVE  \/ Shorter(toGw[d], toGw'[d])
               \/ toGw'[d] = Append(toGw[d], p) /\ p.sid = None /\ Fits(toGw[d], p)
    <3>1. CASE d = c
      BY <1>1, <2>1, <3>1
    <3>2. CASE d # c
      BY <1>0, <2>2, <3>2, StreamKinds
    <3> QED
      BY <3>1, <3>2
  <2> QED
    BY <1>0, <1>1, <2>2, <2>3, <2>4 DEF Arrives
<1>6. /\ Routing' /\ Tidy'
      /\ \A d \in ClientStreams : \A k \in 1..7 :
           Stage(d)'[k] \subseteq Stage(d)[k] \cup (IF p.sid = d THEN {p} ELSE {})
  <2>1. \A d \in ClientStreams : hpc'[d] = "none" => hpc[d] = "none"
    BY <1>0
  <2>2. \A s \in AgentStreams : probing'[s] \subseteq probing[s]
    BY <1>0
  <2>3. bound' = bound
    BY <1>0
  <2> QED
    BY <1>5, <2>1, <2>2, <2>3, ArrivalStep DEF IInv
<1>7. \A k \in Stages : k # 8 => Stage(c)'[k] = {}
  <2>1. \A k \in Stages : k # 8 => k \in 1..7
    BY DEF Stages
  <2> QED
    BY <1>1, <1>3, <1>6, <2>1
<1>8. ASSUME NEW q \in Stage(c)'[8]
      PROVE  q = p
  <2>1. q \in InQ(toGw'[c], None)
    BY StageNext
  <2>2. PICK v : v = toGw[c]
    OBVIOUS
  <2>3. v \in Seq(Packet) /\ q \in InQ(Append(v, p), None)
    BY <1>1, <2>1, <2>2
  <2>4. InQ(Append(v, p), None) = InQ(v, None) \cup {p}
    BY <2>3, QueueAppend
  <2> QED
    BY <1>4, <2>2, <2>3, <2>4
<1>9. ~Responded(c)'
  BY <1>2 DEF Responded
<1>10. Content(c, 8, p)'
  <2>1. SendType(c) \in WriteTypes
    BY <1>2 DEF SendType, WriteTypes, DbTypes
  <2>2. /\ p.type \notin ResultTypes
        /\ p.type \notin {"ClientSessionClose", "ClientSessionOpenOK"}
        /\ p.type \in WriteTypes => qpc[c] = "sending"
    BY <2>1 DEF ResultTypes, WriteTypes
  <2>3. p.type \in WriteTypes \cup {"ClientSessionOpenOK"} => Prepared(c)'
    BY <1>0, <1>2, <2>2 DEF Prepared
  <2>4. ran'[c] = 0
    BY <1>0, <1>2
  <2>5. ~(8 <= 5)
    OBVIOUS
  <2> QED
    BY <1>2, <1>9, <2>2, <2>3, <2>4, <2>5 DEF Content
<1>11. \A k \in Stages : \A q \in Stage(c)'[k] : Content(c, k, q)'
  <2>1. \A q \in Stage(c)'[8] : Content(c, 8, q)'
    BY <1>8, <1>10
  <2> QED
    BY <1>7, <2>1
<1>12. Lined(Stage(c))'
  <2>1. Lined(Stage(c)')
    BY <1>7, LinedAlone, EveryStage
  <2> QED
    BY <2>1 DEF Lined, MayPrecede
<1>13. /\ results'[c] # None => results'[c] = c /\ ran'[c] > 0
       /\ ran'[c] <= IF DbRow[c] = "mongodb" THEN 2 ELSE 1
       /\ answer'[c] = None /\ \A s \in AgentStreams : c \notin probing'[s]
  BY <1>0, <1>2 DEF Session
<1>14. Session(c)'
  BY <1>2, <1>9, <1>11, <1>12, <1>13 DEF Session, Stages
<1> QED
  BY <1>0, <1>6, <1>14 DEF Keeps

\* A step of the API server.
LEMMA ApiKeeps ==
    ASSUME IInv, NEW c \in ClientStreams, ApiStep(c)
    PROVE  Keeps
<1>0. QueryStep(c) /\ UNCHANGED <<gatewayVars, agentVars>>
  BY DEF ApiStep
<1>1. ASSUME NEW type, NEW conn
      PROVE  /\ QueryPacket(c, type, conn).sid = None /\ QueryPacket(c, type, conn).type = type
             /\ QueryPacket(c, type, conn).body.query = c
  BY DEF QueryPacket
<1>2. qpc[c] \in {"opening", "sending"} => DbRow[c] \in DbTypes
  BY DEF IInv, Session
<1>3. ASSUME NEW type, NEW conn, qpc[c] \in {"opening", "sending"},
             QueryPacket(c, type, conn) \in Packet, PeerSend(c, QueryPacket(c, type, conn)),
             qpc' = [qpc EXCEPT ![c] = "waiting"], UNCHANGED <<results, answer>>,
             type \in {"AgentSessionOpen", SendType(c)},
             type = "AgentSessionOpen" \/ qpc[c] = "sending"
      PROVE  Keeps
  <2>1. PICK p : p = QueryPacket(c, type, conn)
    OBVIOUS
  <2>2. /\ p \in Packet /\ PeerSend(c, p) /\ p.sid = None /\ p.body.query = c
        /\ p.type \in {"AgentSessionOpen", SendType(c)}
        /\ p.type = "AgentSessionOpen" \/ qpc[c] = "sending"
        /\ qpc[c] \in {"opening", "sending"} /\ UNCHANGED <<results, answer>>
    BY <1>1, <1>3, <2>1
  <2>3. qpc'[c] = "waiting"
    BY <1>3 DEF IInv, Types, ApiTypeOK
  <2> QED
    BY <1>0, <2>2, <2>3, ApiSendKeeps
<1>4. CASE SendSessionOpen(c)
  <2>1. qpc[c] \in {"opening", "sending"}
    BY <1>4 DEF SendSessionOpen
  <2> QED
    BY <1>2, <1>3, <1>4, <2>1, QueryPacketType DEF SendSessionOpen
<1>5. CASE SendQuery(c)
  <2>1. qpc[c] \in {"opening", "sending"} /\ qpc[c] = "sending"
    BY <1>5 DEF SendQuery
  <2> QED
    BY <1>2, <1>3, <1>5, <2>1, QueryPacketType DEF SendQuery
<1>6. CASE ReceiveReply(c)
  BY <1>0, <1>6, ReceiveReplyKeeps
<1>7. CASE ReceiveClose(c)
  BY <1>0, <1>7, ReceiveCloseKeeps
<1>8. CASE \/ RejectRequest(c) \/ QueryFailsEarly(c) \/ SendFails(c) \/ ReceiveFails(c)
           \/ StartQuery(c)
  BY <1>0, <1>8, ApiStillKeeps
<1> QED
  BY <1>0, <1>4, <1>5, <1>6, <1>7, <1>8 DEF QueryStep

-----------------------------------------------------------------------------
(* The invariant *)

\* The initial state.
LEMMA InvInit == Init => IInv
<1> SUFFICES ASSUME Init PROVE IInv
  OBVIOUS
<1>0. /\ link = [x \in Streams |-> "idle"] /\ toGw = [x \in Streams |-> << >>]
      /\ fromGw = [x \in Streams |-> << >>]
      /\ agents = [id \in AgentIds |-> None] /\ sessions = {}
      /\ bound = [c \in ClientStreams |-> None] /\ closed = [c \in ClientStreams |-> FALSE]
      /\ hpc = [x \in Streams |-> "none"] /\ hand = [x \in Streams |-> None]
      /\ qpc = [c \in ClientStreams |-> "idle"] /\ results = [c \in ClientStreams |-> None]
      /\ answer = [c \in ClientStreams |-> None]
  BY DEF Init, TransportInit, GatewayInit, ApiInit
<1>1. /\ \A x \in Streams : toGw[x] = << >> /\ fromGw[x] = << >> /\ hand[x] = None /\ hpc[x] = "none"
      /\ \A s \in AgentStreams : outbox[s] = << >> /\ probing[s] = {}
      /\ \A s \in AgentStreams, c \in ClientStreams : opened[s][c] = << >>
      /\ \A c \in ClientStreams : /\ bound[c] = None /\ qpc[c] = "idle" /\ results[c] = None
                                  /\ answer[c] = None /\ ran[c] = 0
  BY <1>0 DEF Init, AgentInit
<1>2. Types
  <2>1. TransportTypeOK
    BY <1>0 DEF TransportTypeOK, LinkState
  <2>2. GatewayTypeOK
    BY <1>0 DEF GatewayTypeOK, AgentPC
  <2>3. AgentTypeOK
    BY AgentAssumption DEF Init, AgentInit, AgentTypeOK, AgentTypeOK
  <2>4. ApiTypeOK
    BY <1>0 DEF ApiTypeOK
  <2>5. HandlerState
    BY <1>1, StreamKinds DEF HandlerState
  <2> QED
    BY <2>1, <2>2, <2>3, <2>4, <2>5 DEF Types
<1>3. Elems(<< >>) = {}
  BY DEF Elems
<1>4. Routing
  BY <1>1, <1>3, StreamKinds DEF Routing
<1>5. Tidy
  BY <1>1, QueueEmpty, StreamKinds DEF Tidy
<1>6. ASSUME NEW c \in ClientStreams
      PROVE  Session(c)
  <2>0. /\ \A p, d : p \notin InQ(<< >>, d)
        /\ c \in Streams /\ \A s \in AgentStreams : s \in Streams
    BY QueueEmpty, StreamKinds
  <2>a. Stage(c)[1] = {} /\ Stage(c)[8] = {}
    BY <1>1, <2>0, StageIs
  <2>b. Stage(c)[2] = {} /\ Stage(c)[7] = {}
    BY <1>1, <2>0, StageIs
  <2>c. Stage(c)[3] = {} /\ Stage(c)[6] = {}
    BY <1>1, <2>0, StageIs
  <2>d. Stage(c)[4] = {} /\ Stage(c)[5] = {}
    BY <1>1, <2>0, StageIs
  <2>1. /\ Stage(c)[1] = {} /\ Stage(c)[2] = {} /\ Stage(c)[3] = {} /\ Stage(c)[4] = {}
        /\ Stage(c)[5] = {} /\ Stage(c)[6] = {} /\ Stage(c)[7] = {} /\ Stage(c)[8] = {}
    BY <2>a, <2>b, <2>c, <2>d
  <2>2. \A k \in Stages : Stage(c)[k] = {}
    BY <2>1, EveryStage
  <2>3. Lined(Stage(c))
    BY <2>2, LinedAlone, EveryStage
  <2>4. Quiet(c) /\ ~Responded(c)
    BY <1>1, <2>2 DEF Quiet, Responded
  <2> QED
    BY <1>1, <2>2, <2>3, <2>4 DEF Session
<1> QED
  BY <1>2, <1>4, <1>5, <1>6 DEF IInv

\* Every step keeps the invariant.
LEMMA InvNext == IInv /\ [Next]_vars => IInv'
<1> SUFFICES ASSUME IInv, [Next]_vars PROVE IInv'
  OBVIOUS
<1>1. CASE Next
  <2>1. Types'
    BY <1>1, TypesStep
  <2>2. Keeps
    BY <1>1, GatewayKeeps, AgentKeeps, FaultKeeps, ApiKeeps DEF Next
  <2> QED
    BY <2>1, <2>2 DEF IInv, Keeps
<1>2. CASE UNCHANGED vars
  <2>1. Types'
    BY <1>2 DEF vars, transportVars, gatewayVars, agentVars, apiVars, IInv, Types,
                TransportTypeOK, GatewayTypeOK, AgentTypeOK, ApiTypeOK, HandlerState
  <2>2. Keeps
    BY <1>2, LinkKeeps DEF vars, transportVars, agentVars
  <2> QED
    BY <2>1, <2>2 DEF IInv, Keeps
<1> QED
  BY <1>1, <1>2

\* Sessions are served in order in every reachable state.
THEOREM Invariance == Spec => []IInv
<1>1. Init => IInv
  BY InvInit
<1>2. IInv /\ [Next]_vars => IInv'
  BY InvNext
<1> QED
  BY <1>1, <1>2, PTL DEF Spec

\* The query that reaches an agent finds the connection parameters stored.
THEOREM ParamsStored == Spec => []ParamsBeforeQuery
<1>1. ASSUME IInv
      PROVE  ParamsBeforeQuery
  <2> SUFFICES ASSUME NEW s \in AgentStreams, NEW i \in DOMAIN fromGw[s],
                      fromGw[s][i].type \in DbWrites
               PROVE  fromGw[s][i].sid \in params[s]
    BY DEF ParamsBeforeQuery
  <2>0. PICK p, c : p = fromGw[s][i] /\ c = p.sid
    OBVIOUS
  <2>1. p.type \in WriteTypes
    BY <2>0 DEF DbWrites, SendType, DbTypes, WriteTypes
  <2>2. p \in Elems(fromGw[s]) /\ Addressed(p) /\ Owns(s, p)
    BY <1>1, <2>0 DEF Elems, IInv, Routing
  <2>3. c \in ClientStreams /\ bound[c] = s
    BY <2>0, <2>1, <2>2 DEF Addressed, Owns, WriteTypes
  <2>4. p \in Stage(c)[6]
    BY <2>0, <2>2, InQElems, StageIs
  <2>5. Content(c, 6, p)
    BY <1>1, <2>3, <2>4, EveryStage DEF IInv, Session
  <2>6. c \in params[s]
    BY <2>1, <2>3, <2>5 DEF Content, Prepared
  <2> QED
    BY <2>0, <2>6
<1> QED
  BY <1>1, Invariance, PTL

\* A response is complete: no output of the query is on its way any more.
THEOREM ResponsesComplete == Spec => []NoResultsLeftBehind
<1>1. ASSUME IInv
      PROVE  NoResultsLeftBehind
  <2> SUFFICES ASSUME NEW c \in ClientStreams, Responded(c), ResultsInFlight(c)
               PROVE  FALSE
    BY DEF NoResultsLeftBehind
  <2>1. ReceiveType(c) \in ResultTypes
    <3>1. DbRow[c] \in DbTypes
      BY <1>1 DEF IInv, Session
    <3> QED
      BY <3>1 DEF ReceiveType, DbTypes, ResultTypes
  <2>2. ASSUME NEW k \in Stages, NEW p \in Stage(c)[k], p.type = ReceiveType(c)
        PROVE  FALSE
    BY <1>1, <2>1, <2>2 DEF IInv, Session, Content
  <2>3. ASSUME NEW q, NEW i \in DOMAIN q, q[i].sid = c
        PROVE  q[i] \in InQ(q, c)
    BY <2>3 DEF InQ, Of
  <2>4. CASE \E i \in DOMAIN fromGw[c] :
                fromGw[c][i].type = ReceiveType(c) /\ fromGw[c][i].sid = c
    BY <2>2, <2>3, <2>4, StageIs, EveryStage
  <2>5. ASSUME NEW s \in AgentStreams,
               \E i \in DOMAIN outbox[s] : outbox[s][i].type = ReceiveType(c) /\ outbox[s][i].sid = c
        PROVE  FALSE
    BY <2>2, <2>3, <2>5, StageIs, EveryStage
  <2>6. ASSUME NEW s \in AgentStreams,
               \E i \in DOMAIN toGw[s] : toGw[s][i].type = ReceiveType(c) /\ toGw[s][i].sid = c
        PROVE  FALSE
    BY <2>2, <2>3, <2>6, StageIs, EveryStage
  <2>7. ASSUME NEW s \in AgentStreams, hand[s] # None,
               hand[s].type = ReceiveType(c) /\ hand[s].sid = c
        PROVE  FALSE
    BY <2>2, <2>7, StageIs, EveryStage
  <2> QED
    BY <2>4, <2>5, <2>6, <2>7 DEF ResultsInFlight
<1> QED
  BY <1>1, Invariance, PTL

\* No query is executed twice, but by the second shell of MongoDB.
THEOREM ExecutedOnce == Spec => []ExecutedAtMostOnce
<1>1. IInv => ExecutedAtMostOnce
  BY DEF IInv, Session, ExecutedAtMostOnce
<1> QED
  BY <1>1, Invariance, PTL

-----------------------------------------------------------------------------
(* The abstract service *)

\* The variables of the abstract service.
Executed == {c \in ClientStreams : ran[c] > 0}
Reply == [c \in ClientStreams |->
            IF answer[c] = None THEN None
            ELSE IF answer[c].kind = "response"
              THEN [code |-> answer[c].code, results |-> answer[c].results]
              ELSE [error |-> TRUE]]

\* A handler that runs the query of a session executes it in the service.
LEMMA QueriesServe ==
    ASSUME IInv, NEW s \in AgentStreams, Queries(s), UNCHANGED apiVars
    PROVE  Service!ServiceNext
<1>a. PICK o, c : o = Front(s) /\ c = Front(s).sid
  OBVIOUS
<1>0. /\ PeerRecv(s) /\ UNCHANGED answer
  BY QueryReplies DEF apiVars
<1>1. PICK n \in {1, 2} : ran' = [ran EXCEPT ![c] = @ + n]
  BY <1>a, QueryReplies
<1>2. o.type \in {"AgentMySQLConnectionWrite", "AgentMongoDBConnectionWrite"}
  BY <1>a, QueryReplies
<1>3. fromGw[s] # << >> /\ o \in Packet /\ c \in ClientStreams /\ o.sid = c
  BY <1>0, <1>2, <1>a, FrontAddressed DEF Addressed, PeerRecv
<1>4. o \in Stage(c)[6]
  <2>1. o \in InQ(fromGw[s], c)
    BY <1>3, <1>a, QueuesTyped, QueueTail DEF IInv, Front
  <2> QED
    BY <2>1, StageIs
<1>5. ran[c] = 0 /\ ~Responded(c)
  BY <1>3, <1>4, EveryStage DEF IInv, Session, Content
<1>6. ran \in [ClientStreams -> Int]
  BY AgentAssumption DEF IInv, Types, AgentTypeOK
<1>7. Executed' = Executed \cup {c} /\ c \notin Executed
  BY <1>1, <1>3, <1>5, <1>6 DEF Executed
<1>8. Reply' = Reply
  BY <1>0 DEF Reply
<1>9. Reply[c] = None \/ Reply[c] = [error |-> TRUE]
  BY <1>3, <1>5 DEF Reply, Responded
<1>10. Service!Execute(c)
  BY <1>7, <1>8, <1>9 DEF Service!Execute, Service!Responded, Executed, Reply
<1> QED
  BY <1>3, <1>10 DEF Service!ServiceNext

\* A request that is answered with an error, or not yet answered.
LEMMA ErrorServes ==
    ASSUME IInv, NEW c \in ClientStreams, QueryStep(c), ~ReceiveClose(c), UNCHANGED agentVars
    PROVE  [Service!ServiceNext]_<<Executed, Reply>>
<1>0. Executed' = Executed
  BY DEF agentVars, Executed
<1>1. CASE UNCHANGED answer
  BY <1>0, <1>1 DEF Reply
<1>2. CASE ~UNCHANGED answer
  <2>1. PICK a \in {[kind |-> "badRequest"], [kind |-> "error"]} : Respond(c, a)
    BY <1>2 DEF QueryStep, RejectRequest, QueryFailsEarly, SendFails, ReceiveFails, StartQuery,
                SendSessionOpen, SendQuery, ReceiveReply
  <2>2. qpc[c] # "done"
    BY DEF QueryStep, RejectRequest, QueryFailsEarly, SendFails, ReceiveFails, StartQuery,
           SendSessionOpen, SendQuery, ReceiveReply, ReceiveClose
  <2>3. answer[c] = None
    BY <2>2 DEF IInv, Session
  <2>4. answer'[c] = a /\ a.kind # "response" /\ \A d \in ClientStreams : d # c => answer'[d] = answer[d]
    BY <2>1 DEF Respond, IInv, Types, ApiTypeOK
  <2>5. Reply[c] = None /\ Reply \in [ClientStreams -> {Reply[d] : d \in ClientStreams}]
    BY <2>3 DEF Reply
  <2>6. CASE a = None
    <3>1. Reply' = Reply
      BY <2>3, <2>4, <2>6 DEF Reply
    <3> QED
      BY <1>0, <3>1
  <2>7. CASE a # None
    <3>1. Reply' = [Reply EXCEPT ![c] = [error |-> TRUE]]
      BY <2>4, <2>7 DEF Reply
    <3>2. Service!Fail(c)
      BY <1>0, <2>5, <3>1 DEF Service!Fail, Executed, Reply
    <3> QED
      BY <3>2 DEF Service!ServiceNext
  <2> QED
    BY <2>6, <2>7
<1> QED
  BY <1>1, <1>2

\* The end of the session is the answer of the service.
LEMMA CloseServes ==
    ASSUME IInv, NEW c \in ClientStreams, ReceiveClose(c), UNCHANGED agentVars
    PROVE  [Service!ServiceNext]_<<Executed, Reply>>
<1>a. PICK p, a, r : /\ p = Head(fromGw[c])
                     /\ a = [kind |-> "response", code |-> p.body.code, results |-> results[c]]
                     /\ r = [code |-> p.body.code, results |-> results[c]]
  OBVIOUS
<1>0. /\ fromGw[c] # << >> /\ fromGw' = Take(fromGw, c) /\ p.type = "ClientSessionClose"
      /\ qpc[c] = "waiting" /\ Respond(c, a) /\ Executed' = Executed
  BY <1>a DEF ReceiveClose, agentVars, Executed
<1>1. Content(c, 1, p)
  BY <1>0, <1>a, Received
<1>2. p.body.code \in ExitCodes /\ (p.body.code = "0" => ran[c] > 0)
  BY <1>0, <1>1 DEF Content
<1>3. /\ answer[c] = None
      /\ results[c] # None => results[c] = c /\ ran[c] > 0
      /\ results[c] \in ClientStreams \cup {None}
  BY <1>0 DEF IInv, Session, Types, ApiTypeOK
<1>4. /\ a.kind = "response" /\ a.code = p.body.code /\ a.results = results[c]
      /\ r.code = p.body.code /\ r.results = results[c] /\ r = [code |-> a.code, results |-> a.results]
  BY <1>a
<1>5. r \in Service!Responses
  BY <1>2, <1>3, <1>a DEF Service!Responses, ExitCodes
<1>6. answer'[c] = a /\ \A d \in ClientStreams : d # c => answer'[d] = answer[d]
  BY <1>0 DEF Respond, IInv, Types, ApiTypeOK
<1>7. Reply[c] = None
  BY <1>3 DEF Reply
<1>8. CASE a = None
  <2>1. Reply' = Reply
    BY <1>3, <1>6, <1>8 DEF Reply
  <2> QED
    BY <1>0, <2>1
<1>9. CASE a # None
  <2>1. Reply' = [Reply EXCEPT ![c] = r]
    BY <1>4, <1>6, <1>9 DEF Reply
  <2>2. (r.code = "0" => c \in Executed) /\ (r.results # None => r.results = c /\ c \in Executed)
    BY <1>2, <1>3, <1>4 DEF Executed
  <2>3. Service!Answer(c, r)
    BY <1>0, <1>7, <2>1, <2>2 DEF Service!Answer, Executed, Reply
  <2> QED
    BY <1>5, <2>3 DEF Service!ServiceNext
<1> QED
  BY <1>8, <1>9

\* Every step is a step of the service, or none.
LEMMA StepServes ==
    ASSUME IInv, [Next]_vars
    PROVE  [Service!ServiceNext]_<<Executed, Reply>>
<1>1. ASSUME UNCHANGED <<ran, answer>>
      PROVE  [Service!ServiceNext]_<<Executed, Reply>>
  BY <1>1 DEF Executed, Reply
<1>2. ASSUME NEW x \in Streams, GatewayStep(x)
      PROVE  UNCHANGED <<ran, answer>>
  BY <1>2 DEF GatewayStep, agentVars, apiVars
<1>3. ASSUME NEW s \in AgentStreams,
             \/ StartAgent(s) \/ CommandStep(s)
             \/ AgentFault(s) \/ StreamOfDeadAgentBreaks(s)
      PROVE  UNCHANGED <<ran, answer>>
  BY <1>3 DEF StartAgent, AgentStart, CommandStep, CommandEnds, AgentFault, AgentCrash,
              StreamOfDeadAgentBreaks, agentVars, apiVars
<1>4. ASSUME NEW c \in ClientStreams, ClientFault(c)
      PROVE  UNCHANGED <<ran, answer>>
  BY <1>4 DEF ClientFault, agentVars, apiVars
<1>5. ASSUME NEW s \in AgentStreams, AgentStep(s)
      PROVE  [Service!ServiceNext]_<<Executed, Reply>>
  <2>0. UNCHANGED apiVars /\ UNCHANGED answer
    BY <1>5 DEF AgentStep, apiVars
  <2>1. CASE RunStep(s)
    <3>1. TransportTypeOK /\ AgentTypeOK /\ (fromGw[s] # << >> => Addressed(Front(s)))
      BY FrontAddressed DEF IInv, Types
    <3>2. \/ AgentSend(s) \/ AgentRunReturns(s) \/ SessionOpenFails(s)
          \/ ProcessSessionOpen(s) \/ Queries(s) \/ Serves(s)
      BY <2>1, <3>1, RunStepCases
    <3>3. CASE Queries(s)
      BY <2>0, <3>3, QueriesServe
    <3>4. CASE ~Queries(s)
      <4>1. UNCHANGED ran
        BY <3>2, <3>4 DEF AgentSend, AgentRunReturns, SessionOpenFails, ProcessSessionOpen, Serves
      <4> QED
        BY <1>1, <2>0, <4>1
    <3> QED
      BY <3>3, <3>4
  <2>2. CASE \E c \in ClientStreams : ProbeStep(s, c)
    <3>1. UNCHANGED ran
      BY <2>2 DEF ProbeStep, ProbeFails, ProbeSucceeds, ProbeSend
    <3> QED
      BY <1>1, <2>0, <3>1
  <2> QED
    BY <1>5, <2>1, <2>2 DEF AgentStep
<1>6. ASSUME NEW c \in ClientStreams, ApiStep(c)
      PROVE  [Service!ServiceNext]_<<Executed, Reply>>
  <2>1. QueryStep(c) /\ UNCHANGED agentVars
    BY <1>6 DEF ApiStep
  <2>2. CASE ReceiveClose(c)
    BY <2>1, <2>2, CloseServes
  <2>3. CASE ~ReceiveClose(c)
    BY <2>1, <2>3, ErrorServes
  <2> QED
    BY <2>2, <2>3
<1>7. CASE UNCHANGED vars
  BY <1>1, <1>7 DEF vars, agentVars, apiVars
<1> QED
  BY <1>1, <1>2, <1>3, <1>4, <1>5, <1>6, <1>7 DEF Next

\* The query path implements the abstract service.
THEOREM Implementation == Spec => ImplementsService
<1>1. Init => Service!ServiceInit
  <2> SUFFICES ASSUME Init PROVE Service!ServiceInit
    OBVIOUS
  <2>1. Executed = {} /\ Reply = [c \in ClientStreams |-> None]
    BY DEF Init, AgentInit, ApiInit, Executed, Reply
  <2> QED
    BY <2>1 DEF Service!ServiceInit, Executed, Reply
<1>2. IInv /\ [Next]_vars => [Service!ServiceNext]_<<Executed, Reply>>
  BY StepServes
<1> QED
  BY <1>1, <1>2, Invariance, PTL DEF Spec, ImplementsService, Service!ServiceSpec, Executed, Reply

=============================================================================
