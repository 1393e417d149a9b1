------------------------------ MODULE TcpProofs ------------------------------
(***************************************************************************)
(* Proofs about the raw TCP proxy, for every set of connection ids, every  *)
(* prefix relation and any number of connections and packets.              *)
(***************************************************************************)
EXTENDS TcpProxy, TLAPS

\* A sequence is a function on 1..Len.
LEMMA SeqParts ==
    ASSUME NEW S, NEW q \in Seq(S)
    PROVE  /\ Len(q) \in Nat /\ DOMAIN q = 1..Len(q)
           /\ \A a \in DOMAIN q : q[a] \in S
  OBVIOUS

\* What Append adds.
LEMMA AppendParts ==
    ASSUME NEW S, NEW q \in Seq(S), NEW e \in S
    PROVE  /\ Append(q, e) \in Seq(S)
           /\ DOMAIN Append(q, e) = 1..Len(q) + 1
           /\ Append(q, e)[Len(q) + 1] = e
           /\ \A a \in 1..Len(q) : Append(q, e)[a] = q[a]
  OBVIOUS

\* Replacing one connection keeps the others.
LEMMA Replace ==
    ASSUME conns \in Seq(Connection), NEW n \in DOMAIN conns, NEW c \in Connection,
           conns' = [conns EXCEPT ![n] = c]
    PROVE  /\ conns' \in Seq(Connection) /\ Len(conns') = Len(conns)
           /\ DOMAIN conns' = DOMAIN conns
           /\ conns'[n] = c
           /\ \A m \in DOMAIN conns : m # n => conns'[m] = conns[m]
  OBVIOUS

\* So does changing several at once.
LEMMA Pointwise ==
    ASSUME conns \in Seq(Connection), NEW f,
           f = [n \in DOMAIN conns |-> f[n]], \A n \in DOMAIN conns : f[n] \in Connection
    PROVE  f \in Seq(Connection) /\ Len(f) = Len(conns) /\ DOMAIN f = DOMAIN conns
<1>1. DOMAIN conns = 1..Len(conns) /\ Len(conns) \in Nat
  OBVIOUS
<1>2. f \in [1..Len(conns) -> Connection]
  BY <1>1
<1> QED
  BY <1>1, <1>2

\* Connections have ids, and their sequence is a function on 1..Len.
LEMMA Connections ==
    ASSUME TypeOK, NEW n \in DOMAIN conns
    PROVE  /\ DOMAIN conns = 1..Len(conns) /\ Len(conns) \in 0..MaxDials
           /\ n \in 1..MaxDials /\ n # None
           /\ conns[n] \in Connection /\ conns[n].key \in Keys
           /\ DOMAIN conns[n].got = 1..Len(conns[n].got) /\ Len(conns[n].got) \in Nat
           /\ \A a \in DOMAIN conns[n].got : conns[n].got[a] \in 1..MaxWrites
<1>1. conns \in Seq(Connection) /\ Len(conns) <= MaxDials
  BY DEF TypeOK
<1>2. DOMAIN conns = 1..Len(conns) /\ Len(conns) \in 0..MaxDials
  BY <1>1, TcpAssumption
<1>3. n \in 1..MaxDials /\ n # None
  BY <1>2, TcpAssumption
<1>4. conns[n] \in Connection
  BY <1>1
<1>5. conns[n].got \in Seq(1..MaxWrites) /\ conns[n].key \in Keys
  BY <1>4 DEF Connection
<1>6. /\ DOMAIN conns[n].got = 1..Len(conns[n].got) /\ Len(conns[n].got) \in Nat
      /\ \A a \in DOMAIN conns[n].got : conns[n].got[a] \in 1..MaxWrites
  BY <1>5, SeqParts
<1> QED
  BY <1>2, <1>3, <1>4, <1>5, <1>6

-----------------------------------------------------------------------------
(* Types *)

\* A step that replaces the connection n of a typed state by another one.
LEMMA ReplaceTypes ==
    ASSUME TypeOK, NEW n \in DOMAIN conns, NEW c \in Connection,
           conns' = [conns EXCEPT ![n] = c],
           store' \in [Keys -> 1..MaxDials \cup {None}],
           \A k \in Keys : store'[k] \in {store[k], None},
           sent' \in [Keys -> 0..MaxWrites], over' \in BOOLEAN
    PROVE  TypeOK'
<1>1. conns' \in Seq(Connection) /\ Len(conns') = Len(conns) /\ DOMAIN conns' = DOMAIN conns
  BY Replace DEF TypeOK
<1> QED
  BY <1>1 DEF TypeOK

\* A field of a connection may be given any value of its type.
LEMMA FieldTypes ==
    ASSUME NEW c \in Connection
    PROVE  /\ \A v \in {"first", "copy", "close", "del", "done"} :
                 [c EXCEPT !.pc = v] \in Connection
           /\ \A v \in {"open", "eof", "reset", "closed"} :
                 /\ [c EXCEPT !.sock = v] \in Connection
                 /\ [c EXCEPT !.closing = FALSE, !.sock = v] \in Connection
           /\ [c EXCEPT !.closing = TRUE] \in Connection
           /\ \A v \in Seq(1..MaxWrites) :
                 /\ [c EXCEPT !.got = v] \in Connection
                 /\ [c EXCEPT !.pc = "copy", !.got = v] \in Connection
  BY DEF Connection

\* A connection that is dialled for packet sent[k] + 1.
LEMMA NewConnectionType ==
    ASSUME TypeOK, NEW k \in Keys, sent[k] < MaxWrites
    PROVE  /\ NewConnection(k) \in Connection
           /\ sent[k] + 1 \in 1..MaxWrites
           /\ [sent EXCEPT ![k] = @ + 1] \in [Keys -> 0..MaxWrites]
<1>1. sent[k] \in 0..MaxWrites /\ MaxWrites \in Nat
  BY TcpAssumption DEF TypeOK
<1>2. sent[k] + 1 \in 1..MaxWrites
  BY <1>1
<1>3. << >> \in Seq(1..MaxWrites)
  OBVIOUS
<1> QED
  BY <1>1, <1>2, <1>3 DEF NewConnection, Connection, TypeOK

\* The loop's own steps keep the types.
LEMMA LoopTypes ==
    ASSUME TypeOK, Loop
    PROVE  TypeOK'
<1>1. ASSUME NEW k \in Keys, WriteStored(k)
      PROVE  TypeOK'
  <2> DEFINE n == store[k]
  <2>1. n \in DOMAIN conns
    BY <1>1 DEF WriteStored, TypeOK
  <2>2. conns[n] \in Connection
    BY <2>1, Connections
  <2>3. sent[k] + 1 \in 1..MaxWrites /\ sent' \in [Keys -> 0..MaxWrites] /\ over' = over
    BY <1>1, NewConnectionType DEF WriteStored, Receive
  <2>4. Append(conns[n].got, sent[k] + 1) \in Seq(1..MaxWrites)
    BY <2>2, <2>3 DEF Connection
  <2>5. \E c \in Connection : conns' = [conns EXCEPT ![n] = c]
    <3>1. CASE conns' = [conns EXCEPT ![n].got = Append(@, sent[k] + 1)]
      BY <3>1, <2>2, <2>4, FieldTypes
    <3>2. CASE conns' = [conns EXCEPT ![n].sock = "closed"]
      BY <3>2, <2>2, FieldTypes
    <3> QED
      BY <1>1, <3>1, <3>2 DEF WriteStored
  <2>6. store' = store
    BY <1>1 DEF WriteStored
  <2> QED
    BY <2>1, <2>3, <2>5, <2>6, ReplaceTypes DEF TypeOK
<1>2. ASSUME NEW k \in Keys, DialAndStore(k)
      PROVE  TypeOK'
  <2>1. /\ NewConnection(k) \in Connection /\ sent' \in [Keys -> 0..MaxWrites]
        /\ over' = over /\ conns' = Append(conns, NewConnection(k))
        /\ store' = [store EXCEPT ![k] = Len(conns) + 1] /\ Len(conns) < MaxDials
    BY <1>2, NewConnectionType DEF DialAndStore, Receive
  <2>2. conns \in Seq(Connection) /\ Len(conns) \in Nat /\ DOMAIN conns = 1..Len(conns)
    BY DEF TypeOK
  <2>3. /\ conns' \in Seq(Connection) /\ Len(conns') = Len(conns) + 1
        /\ DOMAIN conns' = 1..Len(conns) + 1
    BY <2>1, <2>2
  <2>4. Len(conns') <= MaxDials /\ Len(conns) + 1 \in 1..MaxDials
    BY <2>1, <2>2, <2>3, TcpAssumption
  <2>5. store' \in [Keys -> 1..MaxDials \cup {None}]
    BY <2>1, <2>4 DEF TypeOK
  <2>6. \A j \in Keys : store'[j] # None => store'[j] \in DOMAIN conns'
    BY <2>1, <2>2, <2>3 DEF TypeOK
  <2> QED
    BY <2>1, <2>3, <2>4, <2>5, <2>6 DEF TypeOK
<1>3. ASSUME NEW k \in Keys, RefuseWrite(k)
      PROVE  TypeOK'
  <2>1. sent' \in [Keys -> 0..MaxWrites] /\ over' = over
    BY <1>3, NewConnectionType DEF RefuseWrite, Receive
  <2> QED
    BY <1>3, <2>1 DEF RefuseWrite, TypeOK
<1>4. ASSUME NEW k \in Keys, ProcessTCPCloseConnection(k)
      PROVE  TypeOK'
  <2>1. \A n \in DOMAIN conns : [conns[n] EXCEPT !.sock = "closed"] \in Connection
    BY Connections, FieldTypes
  <2>2. conns' = [n \in DOMAIN conns |-> conns'[n]] /\ \A n \in DOMAIN conns : conns'[n] \in Connection
    BY <1>4, <2>1, Connections DEF ProcessTCPCloseConnection
  <2>3. conns' \in Seq(Connection) /\ Len(conns') = Len(conns) /\ DOMAIN conns' = DOMAIN conns
    BY <2>2, Pointwise DEF TypeOK
  <2> QED
    BY <1>4, <2>3 DEF ProcessTCPCloseConnection, TypeOK
<1>5. ASSUME SessionCleanup
      PROVE  TypeOK'
  <2>1. \A n \in DOMAIN conns : [conns[n] EXCEPT !.closing = TRUE] \in Connection
    BY Connections, FieldTypes
  <2>2. conns' \in Seq(Connection) /\ Len(conns') = Len(conns) /\ DOMAIN conns' = DOMAIN conns
    BY <1>5, <2>1 DEF SessionCleanup, TypeOK
  <2> QED
    BY <1>5, <2>2 DEF SessionCleanup, TypeOK
<1> QED
  BY <1>1, <1>2, <1>3, <1>4, <1>5 DEF Loop

\* So do those of connections and servers, which change one connection.
LEMMA ConnectionTypes ==
    ASSUME TypeOK, NEW n \in DOMAIN conns,
           Goroutine(n) \/ CloseLater(n) \/ ServerEnds(n)
    PROVE  TypeOK'
<1>1. conns[n] \in Connection /\ conns[n].key \in Keys
  BY Connections
<1>2. sent' = sent /\ over' = over
  BY DEF Goroutine, Writes, WriteFirst, CopyEnds, SendTCPConnectionClose, DelEntry, CloseLater, ServerEnds
<1>3. /\ store' \in [Keys -> 1..MaxDials \cup {None}]
      /\ \A k \in Keys : store'[k] \in {store[k], None}
  BY <1>1 DEF TypeOK, Goroutine, Writes, WriteFirst, CopyEnds, SendTCPConnectionClose, DelEntry,
              CloseLater, ServerEnds
<1>4. \E c \in Connection : conns' = [conns EXCEPT ![n] = c]
  <2>1. ASSUME NEW v \in {"first", "copy", "close", "del", "done"}, Step(n, v)
        PROVE  \E c \in Connection : conns' = [conns EXCEPT ![n] = c]
    BY <2>1, <1>1, FieldTypes DEF Step
  <2>2. CASE conns' = [conns EXCEPT ![n].pc = "copy", ![n].got = Append(@, conns[n].first)]
             /\ conns[n].first # 0
    <3>1. Append(conns[n].got, conns[n].first) \in Seq(1..MaxWrites)
      BY <1>1, <2>2, TcpAssumption DEF Connection
    <3> QED
      BY <2>2, <3>1, <1>1, FieldTypes
  <2>3. CASE CloseLater(n) \/ ServerEnds(n)
    BY <2>3, <1>1, FieldTypes DEF CloseLater, ServerEnds
  <2> QED
    BY <2>1, <2>2, <2>3 DEF Goroutine, Writes, WriteFirst, CopyEnds, SendTCPConnectionClose, DelEntry
<1> QED
  BY <1>2, <1>3, <1>4, ReplaceTypes DEF TypeOK

\* TypeOK is inductive by itself.
LEMMA StepTypes ==
    ASSUME TypeOK, [Next]_vars
    PROVE  TypeOK'
<1>1. CASE UNCHANGED vars
  BY <1>1 DEF vars, TypeOK
<1> QED
  BY <1>1, LoopTypes, ConnectionTypes DEF Next

\* No connection and no packet at first.
LEMMA InitTypes ==
    ASSUME Init
    PROVE  TypeOK
<1>1. conns = << >> /\ Len(conns) = 0 /\ conns \in Seq(Connection)
  BY DEF Init
<1>2. Len(conns) <= MaxDials /\ 0 \in 0..MaxWrites
  BY <1>1, TcpAssumption
<1>3. \A k \in Keys : store[k] = None
  BY DEF Init
<1> QED
  BY <1>1, <1>2, <1>3 DEF Init, TypeOK

\* The proxy is type correct: connStore only names connections that were
\* dialled, and numbers of packets stay within what the client has sent.
THEOREM Typing == Spec => []TypeOK
  BY InitTypes, StepTypes, PTL DEF Spec

-----------------------------------------------------------------------------
(* The inductive invariant *)

\* connStore holds, under an id, the connection of that id dialled last.
StoredIsLatest ==
    \A k \in Keys : store[k] # None =>
        /\ conns[store[k]].key = k
        /\ \A m \in DOMAIN conns : conns[m].key = k => m <= store[k]

\* Nothing is written that the client has not sent.
Numbered ==
    \A n \in DOMAIN conns :
        /\ conns[n].first <= sent[conns[n].key]
        /\ \A a \in DOMAIN conns[n].got : conns[n].got[a] <= sent[conns[n].key]

\* No two goroutines have the same packet to write.
FirstsDiffer ==
    \A n, m \in DOMAIN conns :
        n # m /\ conns[n].key = conns[m].key /\ conns[n].first # 0
            => conns[n].first # conns[m].first

\* The packet a goroutine has yet to write is on no connection.
PendingFirst ==
    \A n, m \in DOMAIN conns :
        conns[n].key = conns[m].key /\ conns[n].pc = "first" /\ conns[n].first # 0
            => \A a \in DOMAIN conns[m].got : conns[m].got[a] # conns[n].first

Packets == Numbered /\ FirstsDiffer /\ PendingFirst /\ WrittenOnce /\ OrderedAfterFirst

\* The steps as the packets see them: connections keep their id and their
\* first packet, and none goes back to writing it.
Kept ==
    /\ DOMAIN conns' = DOMAIN conns
    /\ \A m \in DOMAIN conns :
         /\ conns'[m].key = conns[m].key /\ conns'[m].first = conns[m].first
         /\ conns'[m].pc = "first" => conns[m].pc = "first"

SentGrows == \A k \in Keys : sent[k] <= sent'[k]

\* Nothing is written.
Quiet == Kept /\ SentGrows /\ \A m \in DOMAIN conns : conns'[m].got = conns[m].got

\* Packet e is written to connection n.
Written(n, e) ==
    /\ Kept /\ SentGrows
    /\ n \in DOMAIN conns /\ e \in 1..MaxWrites
    /\ conns'[n].got = Append(conns[n].got, e)
    /\ \A m \in DOMAIN conns : m # n => conns'[m].got = conns[m].got

\* By the loop, to the stored connection: the next packet of its id.
WrittenByLoop(n) ==
    /\ Written(n, sent[conns[n].key] + 1)
    /\ sent'[conns[n].key] = sent[conns[n].key] + 1

\* By the goroutine of n: its first packet.
WrittenByGoroutine(n) ==
    /\ Written(n, conns[n].first)
    /\ conns[n].pc = "first" /\ conns'[n].pc # "first" /\ conns[n].first # 0

\* A connection is dialled.
Dialled(k) ==
    /\ Len(conns) + 1 \in 1..MaxDials
    /\ DOMAIN conns' = 1..Len(conns) + 1
    /\ \A m \in DOMAIN conns : conns'[m] = conns[m]
    /\ conns'[Len(conns) + 1] = NewConnection(k)
    /\ SentGrows /\ sent'[k] = sent[k] + 1

\* A receive counts one packet.
LEMMA Received ==
    ASSUME TypeOK, NEW k \in Keys, Receive(k)
    PROVE  SentGrows /\ sent'[k] = sent[k] + 1 /\ sent[k] + 1 \in 1..MaxWrites
<1>1. sent \in [Keys -> 0..MaxWrites] /\ sent' = [sent EXCEPT ![k] = @ + 1] /\ sent[k] < MaxWrites
  BY DEF TypeOK, Receive
<1>2. \A j \in Keys : sent[j] \in Nat
  BY <1>1, TcpAssumption
<1>3. sent[k] + 1 \in 1..MaxWrites
  BY <1>1, <1>2, TcpAssumption
<1> QED
  BY <1>1, <1>2, <1>3 DEF SentGrows

\* A step that changes one connection and writes nothing is quiet.
LEMMA ReplaceQuiet ==
    ASSUME TypeOK, NEW n \in DOMAIN conns, NEW c \in Connection,
           conns' = [conns EXCEPT ![n] = c], SentGrows,
           c.key = conns[n].key, c.first = conns[n].first, c.got = conns[n].got,
           c.pc = "first" => conns[n].pc = "first"
    PROVE  Quiet
<1>1. /\ DOMAIN conns' = DOMAIN conns /\ conns'[n] = c
      /\ \A m \in DOMAIN conns : m # n => conns'[m] = conns[m]
  BY Replace DEF TypeOK
<1> QED
  BY <1>1 DEF Quiet, Kept

\* A step that changes one connection by writing e writes e.
LEMMA ReplaceWritten ==
    ASSUME TypeOK, NEW n \in DOMAIN conns, NEW c \in Connection, NEW e \in 1..MaxWrites,
           conns' = [conns EXCEPT ![n] = c], SentGrows,
           c.key = conns[n].key, c.first = conns[n].first,
           c.got = Append(conns[n].got, e),
           c.pc = "first" => conns[n].pc = "first"
    PROVE  Written(n, e) /\ conns'[n] = c
<1>1. /\ DOMAIN conns' = DOMAIN conns /\ conns'[n] = c
      /\ \A m \in DOMAIN conns : m # n => conns'[m] = conns[m]
  BY Replace DEF TypeOK
<1> QED
  BY <1>1 DEF Written, Kept

\* Closing the socket of a connection changes nothing that packets depend on.
LEMMA SocketFields ==
    ASSUME NEW c \in Connection, NEW v \in {"eof", "reset", "closed"}, NEW d,
           d = [c EXCEPT !.sock = v] \/ d = [c EXCEPT !.closing = FALSE, !.sock = v]
    PROVE  /\ d \in Connection /\ d.key = c.key /\ d.first = c.first /\ d.got = c.got
           /\ d.pc = c.pc
  BY DEF Connection

\* Every step is one of these.
LEMMA StepKinds ==
    ASSUME TypeOK, StoredIsLatest, [Next]_vars
    PROVE  \/ Quiet
           \/ \E n \in DOMAIN conns : WrittenByLoop(n) \/ WrittenByGoroutine(n)
           \/ \E k \in Keys : DialAndStore(k) /\ Dialled(k)
<1> USE TcpAssumption
<1>1. ASSUME sent' = sent
      PROVE  SentGrows
  <2>1. \A k \in Keys : sent[k] \in Nat
    BY DEF TypeOK
  <2> QED
    BY <1>1, <2>1 DEF SentGrows
<1>2. ASSUME NEW k \in Keys, WriteStored(k)
      PROVE  Quiet \/ \E n \in DOMAIN conns : WrittenByLoop(n)
  <2> DEFINE n == store[k]
  <2>1. n \in DOMAIN conns /\ conns[n].key = k
    BY <1>2 DEF WriteStored, TypeOK, StoredIsLatest
  <2>2. conns[n] \in Connection
    BY <2>1, Connections
  <2>3. SentGrows /\ sent'[k] = sent[k] + 1 /\ sent[k] + 1 \in 1..MaxWrites
    BY <1>2, Received DEF WriteStored
  <2>4. CASE conns' = [conns EXCEPT ![n].got = Append(@, sent[k] + 1)]
    <3> DEFINE c == [conns[n] EXCEPT !.got = Append(@, sent[k] + 1)]
    <3>1. conns[n].got \in Seq(1..MaxWrites)
      BY <2>2 DEF Connection
    <3>2. Append(conns[n].got, sent[k] + 1) \in Seq(1..MaxWrites)
      BY <3>1, <2>3, AppendParts
    <3>3. /\ c \in Connection /\ c.key = conns[n].key /\ c.first = conns[n].first
          /\ c.pc = conns[n].pc /\ c.got = Append(conns[n].got, sent[k] + 1)
      BY <2>2, <3>2 DEF Connection
    <3>4. conns' = [conns EXCEPT ![n] = c]
      BY <2>4
    <3> HIDE DEF c, n
    <3>5. Written(n, sent[k] + 1)
      BY <2>1, <2>3, <3>3, <3>4, ReplaceWritten
    <3> QED
      BY <2>1, <2>3, <3>5 DEF WrittenByLoop
  <2>5. CASE conns' = [conns EXCEPT ![n].sock = "closed"]
    <3> DEFINE c == [conns[n] EXCEPT !.sock = "closed"]
    <3>1. /\ c \in Connection /\ c.key = conns[n].key /\ c.first = conns[n].first
          /\ c.pc = conns[n].pc /\ c.got = conns[n].got
      BY <2>2, SocketFields
    <3>2. conns' = [conns EXCEPT ![n] = c]
      BY <2>5
    <3> HIDE DEF c, n
    <3> QED
      BY <2>1, <2>3, <3>1, <3>2, ReplaceQuiet
  <2> QED
    BY <1>2, <2>4, <2>5 DEF WriteStored
<1>3. ASSUME NEW k \in Keys, DialAndStore(k)
      PROVE  Dialled(k)
  <2>1. SentGrows /\ sent'[k] = sent[k] + 1 /\ NewConnection(k) \in Connection
    BY <1>3, Received, NewConnectionType DEF DialAndStore, Receive
  <2>2. conns' = Append(conns, NewConnection(k)) /\ Len(conns) < MaxDials
    BY <1>3 DEF DialAndStore
  <2>3. conns \in Seq(Connection) /\ Len(conns) \in Nat /\ DOMAIN conns = 1..Len(conns)
    BY DEF TypeOK
  <2>4. /\ DOMAIN conns' = 1..Len(conns) + 1 /\ conns'[Len(conns) + 1] = NewConnection(k)
        /\ \A m \in DOMAIN conns : conns'[m] = conns[m]
    BY <2>1, <2>2, <2>3, AppendParts
  <2>5. Len(conns) + 1 \in 1..MaxDials
    BY <2>2, <2>3
  <2> QED
    BY <2>1, <2>4, <2>5 DEF Dialled
<1>4. ASSUME NEW k \in Keys, RefuseWrite(k)
      PROVE  Quiet
  BY <1>4, Received DEF RefuseWrite, Quiet, Kept
<1>5. ASSUME NEW k \in Keys, ProcessTCPCloseConnection(k)
      PROVE  Quiet
  <2>1. \A n \in DOMAIN conns : conns[n] \in Connection
    BY Connections
  <2>2. SentGrows /\ DOMAIN conns' = DOMAIN conns
    BY <1>1, <1>5 DEF ProcessTCPCloseConnection
  <2>3. \A n \in DOMAIN conns : conns'[n] \in {conns[n], [conns[n] EXCEPT !.sock = "closed"]}
    BY <1>5 DEF ProcessTCPCloseConnection
  <2> QED
    BY <2>1, <2>2, <2>3 DEF Quiet, Kept, Connection
<1>6. ASSUME SessionCleanup
      PROVE  Quiet
  <2>1. \A n \in DOMAIN conns : conns[n] \in Connection
    BY Connections
  <2>2. SentGrows /\ DOMAIN conns' = DOMAIN conns
    BY <1>1, <1>6 DEF SessionCleanup
  <2>3. \A n \in DOMAIN conns : conns'[n] \in {conns[n], [conns[n] EXCEPT !.closing = TRUE]}
    BY <1>6 DEF SessionCleanup
  <2> QED
    BY <2>1, <2>2, <2>3 DEF Quiet, Kept, Connection
<1>7. ASSUME NEW n \in DOMAIN conns, NEW v \in {"copy", "close", "del", "done"}, Step(n, v), sent' = sent
      PROVE  Quiet
  <2>1. conns[n] \in Connection /\ [conns[n] EXCEPT !.pc = v] \in Connection
    BY Connections, FieldTypes
  <2>2. conns' = [conns EXCEPT ![n] = [conns[n] EXCEPT !.pc = v]]
    BY <1>7 DEF Step
  <2>3. LET c == [conns[n] EXCEPT !.pc = v]
        IN  /\ c.key = conns[n].key /\ c.first = conns[n].first /\ c.got = conns[n].got
            /\ c.pc # "first"
    BY <2>1 DEF Connection
  <2> QED
    BY <1>1, <1>7, <2>1, <2>2, <2>3, ReplaceQuiet
<1>8. ASSUME NEW n \in DOMAIN conns, CloseLater(n) \/ ServerEnds(n)
      PROVE  Quiet
  <2>1. conns[n] \in Connection
    BY Connections
  <2>2. SentGrows
    BY <1>1, <1>8 DEF CloseLater, ServerEnds
  <2>3. PICK v \in {"eof", "reset", "closed"} :
           \/ conns' = [conns EXCEPT ![n] = [conns[n] EXCEPT !.sock = v]]
           \/ conns' = [conns EXCEPT ![n] = [conns[n] EXCEPT !.closing = FALSE, !.sock = v]]
    BY <1>8 DEF CloseLater, ServerEnds
  <2>4. PICK c : /\ conns' = [conns EXCEPT ![n] = c]
                 /\ \/ c = [conns[n] EXCEPT !.sock = v]
                    \/ c = [conns[n] EXCEPT !.closing = FALSE, !.sock = v]
    BY <2>3
  <2>5. /\ c \in Connection /\ c.key = conns[n].key /\ c.first = conns[n].first
        /\ c.got = conns[n].got /\ c.pc = conns[n].pc
    BY <2>1, <2>4 DEF Connection
  <2> QED
    BY <2>2, <2>4, <2>5, ReplaceQuiet
<1>9. ASSUME NEW n \in DOMAIN conns, WriteFirst(n)
      PROVE  Quiet \/ WrittenByGoroutine(n)
  <2>1. conns[n] \in Connection /\ sent' = sent /\ conns[n].pc = "first"
    BY <1>9, Connections DEF WriteFirst, At
  <2>2. CASE Step(n, "copy") \/ Step(n, "close")
    BY <1>7, <2>1, <2>2
  <2>3. CASE /\ conns[n].first # 0
             /\ conns' = [conns EXCEPT ![n].pc = "copy", ![n].got = Append(@, conns[n].first)]
    <3> DEFINE c == [conns[n] EXCEPT !.pc = "copy", !.got = Append(@, conns[n].first)]
    <3>1. conns[n].got \in Seq(1..MaxWrites) /\ conns[n].first \in 1..MaxWrites
      BY <2>1, <2>3 DEF Connection
    <3>2. Append(conns[n].got, conns[n].first) \in Seq(1..MaxWrites)
      BY <3>1, AppendParts
    <3>3. /\ c \in Connection /\ c.key = conns[n].key /\ c.first = conns[n].first
          /\ c.pc = "copy" /\ c.got = Append(conns[n].got, conns[n].first)
      BY <2>1, <3>2 DEF Connection
    <3>4. conns' = [conns EXCEPT ![n] = c]
      BY <2>3
    <3> HIDE DEF c
    <3>5. Written(n, conns[n].first) /\ conns'[n] = c
      BY <1>1, <2>1, <3>1, <3>3, <3>4, ReplaceWritten
    <3> QED
      BY <2>1, <2>3, <3>3, <3>5 DEF WrittenByGoroutine
  <2> QED
    BY <1>9, <2>2, <2>3 DEF WriteFirst
<1>10. ASSUME NEW n \in DOMAIN conns, CopyEnds(n) \/ SendTCPConnectionClose(n) \/ DelEntry(n)
       PROVE  Quiet
  BY <1>7, <1>10 DEF CopyEnds, SendTCPConnectionClose, DelEntry
<1>11. CASE UNCHANGED vars
  BY <1>1, <1>11 DEF vars, Quiet, Kept
<1> QED
  BY <1>2, <1>3, <1>4, <1>5, <1>6, <1>8, <1>9, <1>10, <1>11 DEF Next, Loop, Goroutine, Writes

\* Writing one packet: what the connections hold afterwards.
LEMMA WrittenParts ==
    ASSUME TypeOK, NEW n, NEW e, Written(n, e)
    PROVE  /\ DOMAIN conns' = DOMAIN conns /\ n \in DOMAIN conns
           /\ DOMAIN conns'[n].got = 1..Len(conns[n].got) + 1
           /\ conns'[n].got[Len(conns[n].got) + 1] = e
           /\ Len(conns[n].got) \in Nat /\ DOMAIN conns[n].got = 1..Len(conns[n].got)
           /\ \A a \in DOMAIN conns[n].got : conns'[n].got[a] = conns[n].got[a]
           /\ \A m \in DOMAIN conns : m # n => conns'[m].got = conns[m].got
<1>1. n \in DOMAIN conns /\ e \in 1..MaxWrites /\ conns'[n].got = Append(conns[n].got, e)
  BY DEF Written
<1>2. conns[n].got \in Seq(1..MaxWrites)
  BY <1>1, Connections DEF Connection
<1>3. DOMAIN conns[n].got = 1..Len(conns[n].got) /\ Len(conns[n].got) \in Nat
  BY <1>1, Connections
<1> QED
  BY <1>1, <1>2, <1>3, AppendParts DEF Written, Kept

\* What is at place a of connection x after e was written to n.
LEMMA GotAfter ==
    ASSUME TypeOK, NEW n, NEW e, Written(n, e),
           NEW x \in DOMAIN conns', NEW a \in DOMAIN conns'[x].got
    PROVE  \/ a \in DOMAIN conns[x].got /\ conns'[x].got[a] = conns[x].got[a]
           \/ /\ x = n /\ a = Len(conns[n].got) + 1 /\ conns'[x].got[a] = e
              /\ \A b \in DOMAIN conns[n].got : b < a
<1> DEFINE L == Len(conns[n].got) + 1
<1>1. CASE x # n
  BY <1>1, WrittenParts
<1>2. CASE x = n /\ a \in DOMAIN conns[n].got
  BY <1>2, WrittenParts
<1>3. CASE x = n /\ a \notin DOMAIN conns[n].got
  <2>1. a \in 1..L /\ a \notin 1..L - 1 /\ L \in Nat
    BY <1>3, WrittenParts
  <2>2. a = L
    BY <2>1
  <2>3. \A b \in 1..L - 1 : b < L
    BY <2>1
  <2> QED
    BY <1>3, <2>2, <2>3, WrittenParts
<1> QED
  BY <1>1, <1>2, <1>3

\* A packet that is on no connection of its id may be written anywhere.
LEMMA WrittenFresh ==
    ASSUME TypeOK, WrittenOnce, NEW n, NEW e, Written(n, e),
           \A m \in DOMAIN conns : conns[m].key = conns[n].key =>
               \A a \in DOMAIN conns[m].got : conns[m].got[a] # e
    PROVE  WrittenOnce'
<1>1. SUFFICES ASSUME NEW x \in DOMAIN conns', NEW y \in DOMAIN conns',
                      conns'[x].key = conns'[y].key,
                      NEW a \in DOMAIN conns'[x].got, NEW b \in DOMAIN conns'[y].got,
                      conns'[x].got[a] = conns'[y].got[b]
               PROVE  x = y /\ a = b
  BY DEF WrittenOnce
<1>2. x \in DOMAIN conns /\ y \in DOMAIN conns /\ conns[x].key = conns[y].key
  BY <1>1 DEF Written, Kept
<1> DEFINE L == Len(conns[n].got) + 1
<1>3. \/ a \in DOMAIN conns[x].got /\ conns'[x].got[a] = conns[x].got[a]
      \/ x = n /\ a = L /\ conns'[x].got[a] = e
  BY GotAfter
<1>4. \/ b \in DOMAIN conns[y].got /\ conns'[y].got[b] = conns[y].got[b]
      \/ y = n /\ b = L /\ conns'[y].got[b] = e
  BY GotAfter
<1> HIDE DEF L
<1> QED
  BY <1>1, <1>2, <1>3, <1>4 DEF WrittenOnce

\* Its order matters only if it is not the goroutine's packet.
LEMMA WrittenInOrder ==
    ASSUME TypeOK, OrderedAfterFirst, NEW n, NEW e, Written(n, e),
           e # conns[n].first => \A a \in DOMAIN conns[n].got : conns[n].got[a] < e
    PROVE  OrderedAfterFirst'
<1>1. SUFFICES ASSUME NEW x \in DOMAIN conns',
                      NEW i \in DOMAIN conns'[x].got, NEW j \in DOMAIN conns'[x].got,
                      i < j, conns'[x].first \notin {conns'[x].got[i], conns'[x].got[j]}
               PROVE  conns'[x].got[i] < conns'[x].got[j]
  BY DEF OrderedAfterFirst
<1>2. x \in DOMAIN conns /\ conns'[x].first = conns[x].first
  BY <1>1 DEF Written, Kept
<1> DEFINE L == Len(conns[n].got) + 1
<1>3. \/ i \in DOMAIN conns[x].got /\ conns'[x].got[i] = conns[x].got[i]
      \/ x = n /\ i = L /\ \A b \in DOMAIN conns[n].got : b < i
  BY GotAfter
<1>4. \/ j \in DOMAIN conns[x].got /\ conns'[x].got[j] = conns[x].got[j]
      \/ x = n /\ j = L /\ conns'[x].got[j] = e
  BY GotAfter
<1>5. L \in Nat /\ \A b \in DOMAIN conns[x].got : b \in Nat
  BY <1>2, Connections, WrittenParts
<1> HIDE DEF L
<1>6. i \in DOMAIN conns[x].got /\ conns'[x].got[i] = conns[x].got[i]
  <2>1. CASE x = n /\ i = L /\ \A b \in DOMAIN conns[n].got : b < i
    BY <1>1, <1>4, <1>5, <2>1
  <2> QED
    BY <1>3, <2>1
<1>7. CASE j \in DOMAIN conns[x].got /\ conns'[x].got[j] = conns[x].got[j]
  BY <1>1, <1>2, <1>6, <1>7 DEF OrderedAfterFirst
<1>8. CASE x = n /\ j = L /\ conns'[x].got[j] = e
  BY <1>1, <1>2, <1>6, <1>8
<1> QED
  BY <1>4, <1>7, <1>8

\* The numbers that are compared below.
LEMMA Numbers ==
    ASSUME TypeOK, NEW n \in DOMAIN conns
    PROVE  /\ sent[conns[n].key] \in Nat /\ conns[n].first \in Nat
           /\ \A a \in DOMAIN conns[n].got : conns[n].got[a] \in Nat
<1>1. /\ conns[n].key \in Keys /\ conns[n].first \in 0..MaxWrites
      /\ \A a \in DOMAIN conns[n].got : conns[n].got[a] \in 1..MaxWrites
  BY Connections DEF Connection
<1>2. sent[conns[n].key] \in 0..MaxWrites
  BY <1>1 DEF TypeOK
<1> QED
  BY <1>1, <1>2

\* A quiet step keeps what holds of the packets.
LEMMA QuietPackets ==
    ASSUME TypeOK, TypeOK', Packets, Quiet
    PROVE  Packets'
<1>1. /\ DOMAIN conns' = DOMAIN conns
      /\ \A m \in DOMAIN conns :
           /\ conns'[m].key = conns[m].key /\ conns'[m].first = conns[m].first
           /\ conns'[m].pc = "first" => conns[m].pc = "first"
           /\ conns'[m].got = conns[m].got
  BY DEF Quiet, Kept
<1>2. ASSUME NEW n \in DOMAIN conns'
      PROVE  /\ conns'[n].first <= sent'[conns'[n].key]
             /\ \A a \in DOMAIN conns'[n].got : conns'[n].got[a] <= sent'[conns'[n].key]
  <2>1. sent[conns[n].key] <= sent'[conns[n].key] /\ sent'[conns[n].key] \in Nat
    BY <1>1, Connections, TcpAssumption DEF Quiet, SentGrows, TypeOK
  <2> QED
    BY <1>1, <2>1, Numbers DEF Packets, Numbered
<1>3. Numbered'
  BY <1>2 DEF Numbered
<1>4. FirstsDiffer'
  BY <1>1 DEF Packets, FirstsDiffer
<1>5. PendingFirst'
  BY <1>1 DEF Packets, PendingFirst
<1>6. WrittenOnce'
  BY <1>1 DEF Packets, WrittenOnce
<1>7. OrderedAfterFirst'
  BY <1>1 DEF Packets, OrderedAfterFirst
<1> QED
  BY <1>3, <1>4, <1>5, <1>6, <1>7 DEF Packets

\* A packet that is written was sent, and the firsts stay as they are.
LEMMA WrittenNumbered ==
    ASSUME TypeOK, TypeOK', Packets, NEW n, NEW e, Written(n, e), e <= sent'[conns[n].key]
    PROVE  Numbered' /\ FirstsDiffer'
<1>1. /\ DOMAIN conns' = DOMAIN conns
      /\ \A m \in DOMAIN conns :
           conns'[m].key = conns[m].key /\ conns'[m].first = conns[m].first
  BY DEF Written, Kept
<1>2. ASSUME NEW x \in DOMAIN conns'
      PROVE  /\ conns'[x].first <= sent'[conns'[x].key]
             /\ \A a \in DOMAIN conns'[x].got : conns'[x].got[a] <= sent'[conns'[x].key]
  <2>1. sent[conns[x].key] <= sent'[conns[x].key] /\ sent'[conns[x].key] \in Nat
    BY <1>1, Connections, TcpAssumption DEF Written, SentGrows, TypeOK
  <2>2. conns'[x].first <= sent'[conns'[x].key]
    BY <1>1, <2>1, Numbers DEF Packets, Numbered
  <2>3. ASSUME NEW a \in DOMAIN conns'[x].got
        PROVE  conns'[x].got[a] <= sent'[conns'[x].key]
    <3>1. CASE a \in DOMAIN conns[x].got /\ conns'[x].got[a] = conns[x].got[a]
      BY <1>1, <2>1, <3>1, Numbers DEF Packets, Numbered
    <3>2. CASE x = n /\ conns'[x].got[a] = e
      BY <1>1, <3>2
    <3> QED
      BY <2>3, <3>1, <3>2, GotAfter
  <2> QED
    BY <2>2, <2>3
<1>3. Numbered'
  BY <1>2 DEF Numbered
<1>4. FirstsDiffer'
  BY <1>1 DEF Packets, FirstsDiffer
<1> QED
  BY <1>3, <1>4

\* A packet written by the loop is newer than all others of its id.
LEMMA LoopPackets ==
    ASSUME TypeOK, TypeOK', Packets, NEW n \in DOMAIN conns, WrittenByLoop(n)
    PROVE  Packets'
<1> DEFINE e == sent[conns[n].key] + 1
<1>1. Written(n, e) /\ sent'[conns[n].key] = e /\ e \in Nat
  BY Numbers DEF WrittenByLoop
<1>2. \A m \in DOMAIN conns : conns[m].key = conns[n].key =>
        /\ conns[m].first < e
        /\ \A a \in DOMAIN conns[m].got : conns[m].got[a] < e
  BY Numbers DEF Packets, Numbered
<1>3. \A m \in DOMAIN conns : conns[m].key = conns[n].key =>
        /\ conns[m].first # e
        /\ \A a \in DOMAIN conns[m].got : conns[m].got[a] # e
  BY <1>1, <1>2, Numbers
<1> HIDE DEF e
<1>4. Numbered' /\ FirstsDiffer'
  <2>1. e <= sent'[conns[n].key]
    BY <1>1
  <2> QED
    BY <1>1, <2>1, WrittenNumbered
<1>5. WrittenOnce'
  BY <1>1, <1>3, WrittenFresh DEF Packets
<1>6. OrderedAfterFirst'
  BY <1>1, <1>2, WrittenInOrder DEF Packets
<1>7. PendingFirst'
  <2>1. SUFFICES ASSUME NEW x \in DOMAIN conns', NEW y \in DOMAIN conns',
                        conns'[x].key = conns'[y].key, conns'[x].pc = "first",
                        conns'[x].first # 0, NEW a \in DOMAIN conns'[y].got
                 PROVE  conns'[y].got[a] # conns'[x].first
    BY DEF PendingFirst
  <2>2. /\ x \in DOMAIN conns /\ y \in DOMAIN conns /\ conns[x].key = conns[y].key
        /\ conns[x].pc = "first" /\ conns'[x].first = conns[x].first
    BY <1>1, <2>1 DEF Written, Kept
  <2>3. CASE a \in DOMAIN conns[y].got /\ conns'[y].got[a] = conns[y].got[a]
    BY <2>1, <2>2, <2>3 DEF Packets, PendingFirst
  <2>4. CASE y = n /\ conns'[y].got[a] = e
    BY <1>3, <2>2, <2>4
  <2> QED
    BY <1>1, <2>1, <2>3, <2>4, GotAfter
<1> QED
  BY <1>4, <1>5, <1>6, <1>7 DEF Packets

\* A packet written by a goroutine was pending, and is no other's first.
LEMMA GoroutinePackets ==
    ASSUME TypeOK, TypeOK', Packets, NEW n \in DOMAIN conns, WrittenByGoroutine(n)
    PROVE  Packets'
<1> DEFINE e == conns[n].first
<1>1. /\ Written(n, e) /\ conns[n].pc = "first" /\ conns'[n].pc # "first" /\ e # 0
  BY DEF WrittenByGoroutine
<1>2. \A m \in DOMAIN conns : conns[m].key = conns[n].key =>
        \A a \in DOMAIN conns[m].got : conns[m].got[a] # e
  BY <1>1 DEF Packets, PendingFirst
<1>3. e <= sent'[conns[n].key]
  <2>1. e <= sent[conns[n].key] /\ sent[conns[n].key] <= sent'[conns[n].key]
    BY <1>1, Connections DEF Packets, Numbered, Written, SentGrows
  <2>2. sent'[conns[n].key] \in Nat
    BY Connections, TcpAssumption DEF TypeOK
  <2> QED
    BY <2>1, <2>2, Numbers
<1>4. Numbered' /\ FirstsDiffer'
  BY <1>1, <1>3, WrittenNumbered
<1>5. WrittenOnce'
  BY <1>1, <1>2, WrittenFresh DEF Packets
<1>6. OrderedAfterFirst'
  BY <1>1, WrittenInOrder DEF Packets
<1>7. PendingFirst'
  <2>1. SUFFICES ASSUME NEW x \in DOMAIN conns', NEW y \in DOMAIN conns',
                        conns'[x].key = conns'[y].key, conns'[x].pc = "first",
                        conns'[x].first # 0, NEW a \in DOMAIN conns'[y].got
                 PROVE  conns'[y].got[a] # conns'[x].first
    BY DEF PendingFirst
  <2>2. /\ x \in DOMAIN conns /\ y \in DOMAIN conns /\ conns[x].key = conns[y].key
        /\ conns[x].pc = "first" /\ conns'[x].first = conns[x].first
    BY <1>1, <2>1 DEF Written, Kept
  <2>3. CASE a \in DOMAIN conns[y].got /\ conns'[y].got[a] = conns[y].got[a]
    BY <2>1, <2>2, <2>3 DEF Packets, PendingFirst
  <2>4. CASE y = n /\ conns'[y].got[a] = e
    BY <1>1, <2>1, <2>2, <2>4 DEF Packets, FirstsDiffer
  <2> QED
    BY <1>1, <2>1, <2>3, <2>4, GotAfter
<1> QED
  BY <1>4, <1>5, <1>6, <1>7 DEF Packets

\* A new connection has written nothing, and its first packet is new.
LEMMA DialledPackets ==
    ASSUME TypeOK, TypeOK', Packets, NEW k \in Keys, Dialled(k)
    PROVE  Packets'
<1> DEFINE N == Len(conns) + 1
           f == conns'[N].first
<1>1. /\ DOMAIN conns' = DOMAIN conns \cup {N} /\ N \notin DOMAIN conns /\ N \in DOMAIN conns'
      /\ \A m \in DOMAIN conns : conns'[m] = conns[m]
  <2>1. Len(conns) \in Nat /\ DOMAIN conns = 1..Len(conns)
    BY DEF TypeOK
  <2> QED
    BY <2>1 DEF Dialled
<1>2. conns'[N].key = k /\ conns'[N].got = << >> /\ f \in {0, sent[k] + 1}
  BY DEF Dialled, NewConnection
<1>3. DOMAIN conns'[N].got = {}
  BY <1>2
<1>4. sent'[k] = sent[k] + 1 /\ sent[k] \in Nat /\ SentGrows
  BY TcpAssumption DEF Dialled, TypeOK
<1>5. \A m \in DOMAIN conns : conns[m].key = k =>
        conns[m].first < sent[k] + 1 /\ \A a \in DOMAIN conns[m].got : conns[m].got[a] < sent[k] + 1
  BY <1>4, Numbers DEF Packets, Numbered
<1>6. \A m \in DOMAIN conns : conns[m].key = k /\ f # 0 =>
        conns[m].first # f /\ \A a \in DOMAIN conns[m].got : conns[m].got[a] # f
  BY <1>2, <1>4, <1>5, Numbers
<1> HIDE DEF N, f
<1>7. ASSUME NEW n \in DOMAIN conns'
      PROVE  /\ conns'[n].first <= sent'[conns'[n].key]
             /\ \A a \in DOMAIN conns'[n].got : conns'[n].got[a] <= sent'[conns'[n].key]
  <2>1. CASE n = N
    BY <1>2, <1>3, <1>4, <2>1 DEF f
  <2>2. CASE n \in DOMAIN conns
    <3>1. sent[conns[n].key] <= sent'[conns[n].key] /\ sent'[conns[n].key] \in Nat
      BY <1>4, <2>2, Connections, TcpAssumption DEF SentGrows, TypeOK
    <3> QED
      BY <1>1, <2>2, <3>1, Numbers DEF Packets, Numbered
  <2> QED
    BY <1>1, <1>7, <2>1, <2>2
<1>8. Numbered'
  BY <1>7 DEF Numbered
<1>9. FirstsDiffer'
  BY <1>1, <1>2, <1>6 DEF Packets, FirstsDiffer, f
<1>10. PendingFirst'
  BY <1>1, <1>2, <1>3, <1>6 DEF Packets, PendingFirst, f
<1>11. WrittenOnce'
  BY <1>1, <1>3 DEF Packets, WrittenOnce
<1>12. OrderedAfterFirst'
  BY <1>1, <1>3 DEF Packets, OrderedAfterFirst
<1> QED
  BY <1>8, <1>9, <1>10, <1>11, <1>12 DEF Packets

\* Only dialling adds an entry, and it adds the newest connection.
LEMMA StepStored ==
    ASSUME TypeOK, TypeOK', StoredIsLatest, [Next]_vars
    PROVE  StoredIsLatest'
<1>1. ASSUME DOMAIN conns' = DOMAIN conns,
             \A m \in DOMAIN conns : conns'[m].key = conns[m].key,
             \A k \in Keys : store'[k] \in {store[k], None}
      PROVE  StoredIsLatest'
  <2>1. \A k \in Keys : store[k] # None => store[k] \in DOMAIN conns
    BY DEF TypeOK
  <2> QED
    BY <1>1, <2>1 DEF StoredIsLatest
<1>2. ASSUME NEW k \in Keys, DialAndStore(k)
      PROVE  StoredIsLatest'
  <2> DEFINE N == Len(conns) + 1
  <2>1. conns \in Seq(Connection) /\ Len(conns) \in Nat /\ DOMAIN conns = 1..Len(conns)
    BY DEF TypeOK
  <2>2. /\ DOMAIN conns' = 1..N /\ conns'[N] = NewConnection(k)
        /\ \A m \in DOMAIN conns : conns'[m] = conns[m]
    BY <1>2, <2>1, NewConnectionType, AppendParts DEF DialAndStore, Receive
  <2>3. conns'[N].key = k
    BY <2>2 DEF NewConnection
  <2>4. store' = [store EXCEPT ![k] = N] /\ store \in [Keys -> 1..MaxDials \cup {None}]
    BY <1>2 DEF DialAndStore, TypeOK
  <2>5. ASSUME NEW j \in Keys, store'[j] # None
        PROVE  /\ conns'[store'[j]].key = j
               /\ \A m \in DOMAIN conns' : conns'[m].key = j => m <= store'[j]
    <3>1. CASE j = k
      BY <2>1, <2>2, <2>3, <2>4, <3>1
    <3>2. CASE j # k
      <4>1. store'[j] = store[j] /\ store[j] \in DOMAIN conns
        BY <2>4, <2>5, <3>2 DEF TypeOK
      <4>2. \A m \in DOMAIN conns' : m # N => m \in DOMAIN conns
        BY <2>1, <2>2
      <4> HIDE DEF N
      <4> QED
        BY <2>2, <2>3, <2>5, <3>2, <4>1, <4>2 DEF StoredIsLatest
    <3> QED
      BY <3>1, <3>2
  <2> QED
    BY <2>5 DEF StoredIsLatest
<1>3. ASSUME ~ \E k \in Keys : DialAndStore(k)
      PROVE  \A k \in Keys : store'[k] \in {store[k], None}
  BY <1>3 DEF Next, Loop, Goroutine, Writes, WriteStored, RefuseWrite, ProcessTCPCloseConnection,
              SessionCleanup, WriteFirst, CopyEnds, SendTCPConnectionClose, DelEntry,
              CloseLater, ServerEnds, vars, TypeOK
<1>4. CASE Quiet \/ \E n \in DOMAIN conns : WrittenByLoop(n) \/ WrittenByGoroutine(n)
  <2>1. Kept
    BY <1>4 DEF Quiet, WrittenByLoop, WrittenByGoroutine, Written
  <2> QED
    BY <1>1, <1>2, <1>3, <2>1 DEF Kept
<1> QED
  BY <1>2, <1>4, StepKinds

\* A connection that was not lost is lost only by the late Del of an earlier one.
LEMMA StepLost ==
    ASSUME TypeOK, TypeOK', StoredIsLatest, LostOnlyToLateDel, [Next]_vars
    PROVE  LostOnlyToLateDel'
<1>0. \A n \in DOMAIN conns : /\ conns[n] \in Connection /\ n # None /\ n \in Nat
                              /\ conns[n].key \in Keys
  BY Connections
<1>1. ASSUME DOMAIN conns' = DOMAIN conns,
             \A m \in DOMAIN conns : /\ conns'[m].key = conns[m].key
                                     /\ conns[m].pc = "done" => conns'[m].pc = "done",
             \A m \in DOMAIN conns : Lost(m)' => Lost(m)
      PROVE  LostOnlyToLateDel'
  <2>1. SUFFICES ASSUME NEW n \in DOMAIN conns', Lost(n)'
                 PROVE  LateDel(n)'
    BY DEF LostOnlyToLateDel
  <2>2. n \in DOMAIN conns /\ LateDel(n)
    BY <1>1, <2>1 DEF LostOnlyToLateDel
  <2>3. PICK m \in 1..n - 1 : conns[m].key = conns[n].key /\ conns[m].pc = "done"
    BY <2>2 DEF LateDel
  <2>4. m \in DOMAIN conns
    BY <1>0, <2>2, <2>3, Connections
  <2> QED
    BY <1>1, <2>2, <2>3, <2>4 DEF LateDel
<1>2. ASSUME NEW n \in DOMAIN conns, NEW c \in Connection,
             conns' = [conns EXCEPT ![n] = c], store' = store,
             c.key = conns[n].key, conns[n].pc = "done" => c.pc = "done",
             c.pc \in {"first", "copy"} => conns[n].pc \in {"first", "copy"},
             c.sock = "open" => conns[n].sock = "open",
             ~c.closing => ~conns[n].closing \/ c.sock # "open"
      PROVE  LostOnlyToLateDel'
  <2>1. /\ DOMAIN conns' = DOMAIN conns /\ conns'[n] = c
        /\ \A m \in DOMAIN conns : m # n => conns'[m] = conns[m]
    BY <1>2, Replace DEF TypeOK
  <2>2. \A m \in DOMAIN conns : Lost(m)' => Lost(m)
    BY <1>2, <2>1 DEF Lost
  <2> QED
    BY <1>1, <1>2, <2>1, <2>2
<1>3. ASSUME NEW k \in Keys, WriteStored(k)
      PROVE  LostOnlyToLateDel'
  <2> DEFINE n == store[k]
  <2>1. n \in DOMAIN conns /\ store' = store
    BY <1>3 DEF WriteStored, TypeOK
  <2>2. sent[k] + 1 \in 1..MaxWrites
    BY <1>3, Received DEF WriteStored
  <2>3. Append(conns[n].got, sent[k] + 1) \in Seq(1..MaxWrites)
    BY <1>0, <2>1, <2>2, AppendParts DEF Connection
  <2>4. CASE conns' = [conns EXCEPT ![n].got = Append(@, sent[k] + 1)]
    <3> DEFINE c == [conns[n] EXCEPT !.got = Append(@, sent[k] + 1)]
    <3>1. /\ c \in Connection /\ c.key = conns[n].key /\ c.pc = conns[n].pc
          /\ c.sock = conns[n].sock /\ c.closing = conns[n].closing
      BY <1>0, <2>1, <2>3 DEF Connection
    <3>2. conns' = [conns EXCEPT ![n] = c]
      BY <2>4
    <3> HIDE DEF c, n
    <3> QED
      BY <1>2, <2>1, <3>1, <3>2
  <2>5. CASE conns' = [conns EXCEPT ![n].sock = "closed"]
    <3> DEFINE c == [conns[n] EXCEPT !.sock = "closed"]
    <3>1. /\ c \in Connection /\ c.key = conns[n].key /\ c.pc = conns[n].pc
          /\ c.sock = "closed" /\ c.closing = conns[n].closing
      BY <1>0, <2>1 DEF Connection
    <3>2. conns' = [conns EXCEPT ![n] = c]
      BY <2>5
    <3> HIDE DEF c, n
    <3> QED
      BY <1>2, <2>1, <3>1, <3>2
  <2> QED
    BY <1>3, <2>4, <2>5 DEF WriteStored
<1>4. ASSUME NEW k \in Keys, DialAndStore(k)
      PROVE  LostOnlyToLateDel'
  <2>1. conns \in Seq(Connection) /\ Len(conns) \in Nat /\ DOMAIN conns = 1..Len(conns)
    BY DEF TypeOK
  <2>0. PICK N \in Nat : N = Len(conns) + 1
    BY <2>1
  <2>2. /\ DOMAIN conns' = 1..N /\ conns'[N] = NewConnection(k)
        /\ \A m \in DOMAIN conns : conns'[m] = conns[m]
    BY <1>4, <2>0, <2>1, NewConnectionType, AppendParts DEF DialAndStore, Receive
  <2>3. conns'[N].key = k
    BY <2>2 DEF NewConnection
  <2>4. store' = [store EXCEPT ![k] = N] /\ store[k] = None /\ store \in [Keys -> 1..MaxDials \cup {None}]
    BY <1>4, <2>0 DEF DialAndStore, TypeOK
  <2>5. ~Lost(N)'
    BY <2>3, <2>4 DEF Lost
  <2>6. SUFFICES ASSUME NEW n \in DOMAIN conns', Lost(n)'
                 PROVE  LateDel(n)'
    BY DEF LostOnlyToLateDel
  <2>7. n \in DOMAIN conns
    BY <2>0, <2>1, <2>2, <2>5, <2>6
  <2>8. Lost(n)
    <3>1. CASE conns[n].key = k
      BY <1>0, <2>2, <2>4, <2>6, <2>7, <3>1 DEF Lost
    <3>2. CASE conns[n].key # k
      BY <1>0, <2>2, <2>4, <2>6, <2>7, <3>2 DEF Lost
    <3> QED
      BY <3>1, <3>2
  <2>9. PICK m \in 1..n - 1 : conns[m].key = conns[n].key /\ conns[m].pc = "done"
    BY <2>7, <2>8 DEF LostOnlyToLateDel, LateDel
  <2>10. m \in DOMAIN conns
    BY <2>1, <2>7
  <2> QED
    BY <2>2, <2>7, <2>9, <2>10 DEF LateDel
<1>5. ASSUME NEW k \in Keys, RefuseWrite(k)
      PROVE  LostOnlyToLateDel'
  BY <1>1, <1>5 DEF RefuseWrite, Lost
<1>6. ASSUME NEW k \in Keys, ProcessTCPCloseConnection(k)
      PROVE  LostOnlyToLateDel'
  <2>1. /\ DOMAIN conns' = DOMAIN conns
        /\ \A m \in DOMAIN conns :
             conns'[m] = IF m \in Matching(k) THEN [conns[m] EXCEPT !.sock = "closed"] ELSE conns[m]
        /\ store' = [j \in Keys |-> IF j \in PrefixOf[k] THEN None ELSE store[j]]
    BY <1>6 DEF ProcessTCPCloseConnection
  <2>2. \A m \in DOMAIN conns :
          /\ conns'[m].key = conns[m].key /\ conns'[m].pc = conns[m].pc
          /\ conns'[m].closing = conns[m].closing
          /\ conns'[m].sock = IF m \in Matching(k) THEN "closed" ELSE conns[m].sock
    BY <1>0, <2>1 DEF Connection
  <2>3. ASSUME NEW m \in DOMAIN conns, Lost(m)'
        PROVE  Lost(m)
    <3> DEFINE j == conns[m].key
    <3>1. j \in Keys /\ m \notin Matching(k) /\ conns'[m].key = j
      BY <1>0, <2>2, <2>3 DEF Lost
    <3>2. store[j] # m
      <4>1. CASE j \in PrefixOf[k]
        BY <1>0, <3>1, <4>1 DEF Matching
      <4>2. CASE j \notin PrefixOf[k]
        BY <2>1, <2>3, <3>1, <4>2 DEF Lost
      <4> QED
        BY <4>1, <4>2
    <3> QED
      BY <2>2, <2>3, <3>1, <3>2 DEF Lost
  <2> QED
    BY <1>1, <2>1, <2>2, <2>3
<1>7. ASSUME SessionCleanup
      PROVE  LostOnlyToLateDel'
  <2>1. /\ DOMAIN conns' = DOMAIN conns
        /\ \A m \in DOMAIN conns :
             conns'[m] = IF m \in Stored THEN [conns[m] EXCEPT !.closing = TRUE] ELSE conns[m]
    BY <1>7 DEF SessionCleanup
  <2>2. \A m \in DOMAIN conns :
          /\ conns'[m].key = conns[m].key /\ conns'[m].pc = conns[m].pc
          /\ conns'[m].sock = conns[m].sock
          /\ conns'[m].closing = IF m \in Stored THEN TRUE ELSE conns[m].closing
    BY <1>0, <2>1 DEF Connection
  <2>3. ASSUME NEW m \in DOMAIN conns, Lost(m)'
        PROVE  Lost(m)
    <3>1. m \notin Stored
      BY <2>2, <2>3 DEF Lost
    <3>2. store[conns[m].key] # m
      BY <1>0, <3>1 DEF Stored
    <3> QED
      BY <2>2, <2>3, <3>1, <3>2 DEF Lost
  <2> QED
    BY <1>1, <2>1, <2>2, <2>3
<1>8. ASSUME NEW n \in DOMAIN conns, NEW v \in {"copy", "close", "del"},
             Step(n, v), store' = store,
             conns[n].pc # "done", v = "copy" => conns[n].pc = "first"
      PROVE  LostOnlyToLateDel'
  <2> DEFINE c == [conns[n] EXCEPT !.pc = v]
  <2>1. /\ c \in Connection /\ c.key = conns[n].key /\ c.pc = v
        /\ c.sock = conns[n].sock /\ c.closing = conns[n].closing
    BY <1>0 DEF Connection
  <2>2. conns' = [conns EXCEPT ![n] = c]
    BY <1>8 DEF Step
  <2> HIDE DEF c
  <2> QED
    BY <1>2, <1>8, <2>1, <2>2
<1>9. ASSUME NEW n \in DOMAIN conns, WriteFirst(n)
      PROVE  LostOnlyToLateDel'
  <2>1. CASE Step(n, "copy") \/ Step(n, "close")
    BY <1>8, <1>9, <2>1 DEF WriteFirst, At
  <2>2. CASE /\ conns[n].first # 0
             /\ conns' = [conns EXCEPT ![n].pc = "copy", ![n].got = Append(@, conns[n].first)]
    <3> DEFINE c == [conns[n] EXCEPT !.pc = "copy", !.got = Append(@, conns[n].first)]
    <3>1. conns[n].got \in Seq(1..MaxWrites) /\ conns[n].first \in 1..MaxWrites
      BY <1>0, <2>2, TcpAssumption DEF Connection
    <3>2. Append(conns[n].got, conns[n].first) \in Seq(1..MaxWrites)
      BY <3>1, AppendParts
    <3>3. /\ c \in Connection /\ c.key = conns[n].key /\ c.pc = "copy"
          /\ c.sock = conns[n].sock /\ c.closing = conns[n].closing
      BY <1>0, <3>2 DEF Connection
    <3>4. conns' = [conns EXCEPT ![n] = c]
      BY <2>2
    <3>5. conns[n].pc = "first" /\ store' = store
      BY <1>9 DEF WriteFirst, At
    <3> HIDE DEF c
    <3> QED
      BY <1>2, <3>3, <3>4, <3>5
  <2> QED
    BY <1>9, <2>1, <2>2 DEF WriteFirst
<1>10. ASSUME NEW n \in DOMAIN conns, CopyEnds(n) \/ SendTCPConnectionClose(n)
       PROVE  LostOnlyToLateDel'
  BY <1>8, <1>10 DEF CopyEnds, SendTCPConnectionClose, At
<1>11. ASSUME NEW n \in DOMAIN conns, DelEntry(n)
       PROVE  LostOnlyToLateDel'
  <2> DEFINE c == [conns[n] EXCEPT !.pc = "done"]
  <2>1. c \in Connection /\ c.key = conns[n].key /\ c.pc = "done"
    BY <1>0 DEF Connection
  <2>2. conns' = [conns EXCEPT ![n] = c]
    BY <1>11 DEF DelEntry, Step
  <2>3. /\ DOMAIN conns' = DOMAIN conns /\ conns'[n] = c
        /\ \A m \in DOMAIN conns : m # n => conns'[m] = conns[m]
    BY <2>1, <2>2, Replace DEF TypeOK
  <2>4. /\ store' = [store EXCEPT ![conns[n].key] = None]
        /\ store \in [Keys -> 1..MaxDials \cup {None}]
    BY <1>11 DEF DelEntry, TypeOK
  <2> HIDE DEF c
  <2>5. SUFFICES ASSUME NEW m \in DOMAIN conns', Lost(m)'
                 PROVE  LateDel(m)'
    BY DEF LostOnlyToLateDel
  <2>6. m \in DOMAIN conns /\ m # n /\ conns'[m] = conns[m]
    BY <2>1, <2>3, <2>5 DEF Lost
  <2>7. CASE Lost(m)
    <3>1. PICK i \in 1..m - 1 : conns[i].key = conns[m].key /\ conns[i].pc = "done"
      BY <2>6, <2>7 DEF LostOnlyToLateDel, LateDel
    <3>2. i \in DOMAIN conns
      BY <1>0, <2>6, <3>1, Connections
    <3>3. conns'[i].key = conns[i].key /\ conns'[i].pc = "done"
      BY <2>1, <2>3, <3>1, <3>2
    <3> QED
      BY <2>6, <3>1, <3>3 DEF LateDel
  <2>8. CASE ~Lost(m)
    <3>1. store[conns[m].key] = m
      BY <2>5, <2>6, <2>8 DEF Lost
    <3>2. conns[m].key = conns[n].key
      BY <1>0, <2>4, <2>5, <2>6, <3>1 DEF Lost
    <3>3. n <= m
      BY <1>0, <2>6, <3>1, <3>2 DEF StoredIsLatest
    <3>4. n \in 1..m - 1
      BY <1>0, <2>6, <3>3, Connections
    <3> QED
      BY <2>1, <2>3, <2>6, <3>2, <3>4 DEF LateDel
  <2> QED
    BY <2>7, <2>8
<1>12. ASSUME NEW n \in DOMAIN conns, CloseLater(n)
       PROVE  LostOnlyToLateDel'
  <2> DEFINE c == [conns[n] EXCEPT !.closing = FALSE, !.sock = "closed"]
  <2>1. /\ c \in Connection /\ c.key = conns[n].key /\ c.pc = conns[n].pc /\ c.sock = "closed"
    BY <1>0 DEF Connection
  <2>2. conns' = [conns EXCEPT ![n] = c] /\ store' = store
    BY <1>12 DEF CloseLater
  <2> HIDE DEF c
  <2> QED
    BY <1>2, <2>1, <2>2
<1>13. ASSUME NEW n \in DOMAIN conns, ServerEnds(n)
       PROVE  LostOnlyToLateDel'
  <2>1. PICK v \in {"eof", "reset"} : conns' = [conns EXCEPT ![n].sock = v]
    BY <1>13 DEF ServerEnds
  <2> DEFINE c == [conns[n] EXCEPT !.sock = v]
  <2>2. /\ c \in Connection /\ c.key = conns[n].key /\ c.pc = conns[n].pc /\ c.sock # "open"
    BY <1>0 DEF Connection
  <2>3. conns' = [conns EXCEPT ![n] = c] /\ store' = store
    BY <1>13, <2>1 DEF ServerEnds
  <2> HIDE DEF c
  <2> QED
    BY <1>2, <2>2, <2>3
<1>14. CASE UNCHANGED vars
  BY <1>1, <1>14 DEF vars, Lost
<1> QED
  BY <1>3, <1>4, <1>5, <1>6, <1>7, <1>9, <1>10, <1>11, <1>12, <1>13, <1>14
  DEF Next, Loop, Goroutine, Writes

-----------------------------------------------------------------------------
(* The theorems *)

IInv == TypeOK /\ StoredIsLatest /\ Packets /\ LostOnlyToLateDel

\* The invariant holds with no connection at all.
LEMMA InitInv ==
    ASSUME Init
    PROVE  IInv
<1>1. TypeOK
  BY InitTypes
<1>2. DOMAIN conns = {} /\ \A k \in Keys : store[k] = None
  BY DEF Init
<1> QED
  BY <1>1, <1>2 DEF IInv, StoredIsLatest, Packets, Numbered, FirstsDiffer, PendingFirst,
                    WrittenOnce, OrderedAfterFirst, LostOnlyToLateDel

\* Every step keeps it.
LEMMA StepInv ==
    ASSUME IInv, [Next]_vars
    PROVE  IInv'
<1>1. TypeOK /\ StoredIsLatest /\ Packets /\ LostOnlyToLateDel
  BY DEF IInv
<1>2. TypeOK'
  BY <1>1, StepTypes
<1>3. StoredIsLatest'
  BY <1>1, <1>2, StepStored
<1>4. Packets'
  BY <1>1, <1>2, StepKinds, QuietPackets, LoopPackets, GoroutinePackets, DialledPackets
<1>5. LostOnlyToLateDel'
  BY <1>1, <1>2, StepLost
<1> QED
  BY <1>2, <1>3, <1>4, <1>5 DEF IInv

\* The invariant of every reachable state.
LEMMA Invariant == Spec => []IInv
  BY InitInv, StepInv, PTL DEF Spec

\* A packet the client sent once reaches the server at most once, on one
\* connection of its id, although the loop and the goroutines of successive
\* connections of the id all write to sockets (tcp.go:28, 55).
THEOREM NoDuplicates == Spec => []WrittenOnce
<1>1. IInv => WrittenOnce
  BY DEF IInv, Packets
<1> QED
  BY <1>1, Invariant, PTL

\* Only the packet that opened a connection can be out of order on it.
THEOREM Ordering == Spec => []OrderedAfterFirst
<1>1. IInv => OrderedAfterFirst
  BY DEF IInv, Packets
<1> QED
  BY <1>1, Invariant, PTL

\* A connection in use drops out of connStore, and so out of reach of every
\* close, only when the Del of an earlier connection of its id comes late.
THEOREM LostConnections == Spec => []LostOnlyToLateDel
<1>1. IInv => LostOnlyToLateDel
  BY DEF IInv
<1> QED
  BY <1>1, Invariant, PTL

=============================================================================
