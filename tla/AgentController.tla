--------------------------- MODULE AgentController ---------------------------
(***************************************************************************)
(* The agent's controller (agent/controller): one Agent object per stream, *)
(* made by New when the stream is connected.  Run receives packets and     *)
(* handles each one to its end before it receives the next; the only other *)
(* goroutines are the ones processSessionOpen starts to probe a database,  *)
(* and the keepalive.                                                      *)
(*                                                                         *)
(* connStore is one map; its keys are "<sid>" (connection parameters),     *)
(* "<sid>:<conn>", "exec:<sid>" and "cmd:<sid>" (io.Closers).  The first   *)
(* kind is params, the others are proxies.  The protocol library is the    *)
(* stub of agent/libbifrost: its proxies end at once, reporting an error,  *)
(* and swallow what is written to them.                                    *)
(*                                                                         *)
(* A handler that sends packets leaves them in outbox, in order, and the   *)
(* loop goes on once all are sent: client.Send can block on the window.    *)
(* A query is run by a command that nothing stops: the loop waits for it   *)
(* at "command", and only goroutines that were started before go on.       *)
(*                                                                         *)
(* Raw TCP connections have goroutines of their own: module TcpProxy.      *)
(***************************************************************************)
EXTENDS Transport, FiniteSets

CONSTANTS
    ConnType,    \* ConnType[c]: the connection type session c asks for
    GoodEnv,     \* sessions whose env vars parseConnectionEnvVars accepts
    PrefixOf,    \* PrefixOf[k]: the connection ids that start with k
    Mentions,    \* Mentions[k]: the sessions whose id occurs in connection id k
    MaxRuns      \* bound on the number of times one session's query is run

ProbedTypes == {"postgres", "tcp", "mysql", "mssql", "mongodb"}
ConnTypes == ProbedTypes \cup {"ssh", "httpproxy", "command-line"}

ASSUME AgentAssumption ==
    /\ ConnType \in [ClientStreams -> ConnTypes \cup {None}]
    /\ GoodEnv \subseteq ClientStreams
    /\ PrefixOf \in [ConnIds -> SUBSET ConnIds]
    /\ \A k \in ConnIds : k \in PrefixOf[k]
    /\ Mentions \in [ConnIds -> SUBSET ClientStreams]
    /\ MaxRuns \in Nat

VARIABLES
    apc,      \* apc[s]: where Run is: "off", "run", "command" or "stopped"
    params,   \* params[s]: sessions whose connection parameters are stored
    proxies,  \* proxies[s]: stored io.Closers, as <<sid, key>>
    outbox,   \* outbox[s]: packets the current handler has still to send
    probing,  \* probing[s]: sessions whose probe goroutine is dialling
    opened,   \* opened[s][c]: packets the probe goroutine has still to send
    ran       \* ran[c]: number of times the query of session c was executed

agentVars == <<apc, params, proxies, outbox, probing, opened, ran>>

\* A payload: whose query it holds or answers, and the exit code it reports.
ExitCodes == {"0", "1", "254"}
AgentBodies == [query : ClientStreams \cup {None}, code : ExitCodes \cup {None}]
ASSUME BodiesAssumption == Bodies = AgentBodies

\* None is the key "<sid>:" of an empty connection id.
ProxyKeys == ConnIds \cup {None, "exec", "cmd"}

AgentTypeOK ==
    /\ apc \in [AgentStreams -> {"off", "run", "command", "stopped"}]
    /\ params \in [AgentStreams -> SUBSET ClientStreams]
    /\ proxies \in [AgentStreams -> SUBSET (ClientStreams \X ProxyKeys)]
    /\ outbox \in [AgentStreams -> Seq(Packet)]
    /\ probing \in [AgentStreams -> SUBSET ClientStreams]
    /\ opened \in [AgentStreams -> [ClientStreams -> Seq(Packet)]]
    /\ ran \in [ClientStreams -> 0..MaxRuns]

AgentInit ==
    /\ apc = [s \in AgentStreams |-> "off"]
    /\ params = [s \in AgentStreams |-> {}]
    /\ proxies = [s \in AgentStreams |-> {}]
    /\ outbox = [s \in AgentStreams |-> << >>]
    /\ probing = [s \in AgentStreams |-> {}]
    /\ opened = [s \in AgentStreams |-> [c \in ClientStreams |-> << >>]]
    /\ ran = [c \in ClientStreams |-> 0]

-----------------------------------------------------------------------------
(* Packets the agent sends *)

\* Mutant of SessionClose: an error reports exit code 0.
SessionCloseOK(c, code) ==
    [type |-> "ClientSessionClose", sid |-> c, conn |-> None,
     body |-> [query |-> None, code |-> IF code = "254" THEN "0" ELSE code]]

\* sendClientSessionCloseWithExitCode.  sendClientSessionClose reports "254"
\* (internalExitCode) whenever there is an error message.
SessionClose(c, code) ==
    [type |-> "ClientSessionClose", sid |-> c, conn |-> None,
     body |-> [query |-> None, code |-> code]]

SessionOpenOK(c) ==
    [type |-> "ClientSessionOpenOK", sid |-> c, conn |-> None,
     body |-> [query |-> None, code |-> None]]

\* The stream writer answers with the Spec of the packet that was received.
WriteReply(p, type) ==
    [type |-> type, sid |-> p.sid, conn |-> p.conn,
     body |-> [query |-> p.body.query, code |-> None]]

\* A handler that was given a session id closes that session; without one it
\* sends nothing.
CloseReply(c, code) == IF c = None THEN << >> ELSE <<SessionClose(c, code)>>

-----------------------------------------------------------------------------
(* Run *)

\* Run has not returned.
Running(s) == apc[s] \in {"run", "command"}

\* New, Run: a controller starts on a stream that was just dialled.
AgentStart(s) ==
    /\ apc[s] = "off"
    /\ Dial(s)
    /\ apc' = [apc EXCEPT ![s] = "run"]
    /\ UNCHANGED <<params, proxies, outbox, probing, opened, ran>>

\* client.Recv returns an error: Run returns and the controller is closed.
AgentRunReturns(s) ==
    /\ apc[s] = "run"
    /\ outbox[s] = << >>
    /\ PeerRecvFails(s)
    /\ apc' = [apc EXCEPT ![s] = "stopped"]
    /\ UNCHANGED <<transportVars, params, proxies, outbox, probing, opened, ran>>

\* The agent's process dies.  The gateway does not know until the stream
\* breaks.
AgentCrash(s) ==
    /\ Running(s)
    /\ apc' = [apc EXCEPT ![s] = "stopped"]
    /\ outbox' = [outbox EXCEPT ![s] = << >>]
    /\ probing' = [probing EXCEPT ![s] = {}]
    /\ opened' = [opened EXCEPT ![s] = [c \in ClientStreams |-> << >>]]
    /\ UNCHANGED <<transportVars, params, proxies, ran>>

\* The loop is at client.Recv and the next packet is one of these types.
Takes(s, types) ==
    /\ apc[s] = "run"
    /\ outbox[s] = << >>
    /\ PeerRecv(s)
    /\ Head(fromGw[s]).type \in types

\* Its handler only has packets to send before the loop goes on.
Handles(s, types) == Takes(s, types) /\ UNCHANGED apc

Replies(s, packets) == outbox' = [outbox EXCEPT ![s] = packets]

\* client.Send of the handler's next packet: an error is ignored everywhere.
AgentSend(s) ==
    /\ apc[s] = "run"
    /\ outbox[s] # << >>
    /\ \/ PeerSend(s, Head(outbox[s]))
       \/ link[s] # "open" /\ UNCHANGED transportVars
    /\ outbox' = [outbox EXCEPT ![s] = Tail(@)]
    /\ UNCHANGED <<apc, params, proxies, probing, opened, ran>>

\* StartKeepAlive
KeepAlive(s) ==
    /\ Running(s)
    /\ PeerSend(s, [type |-> "GatewayKeepAlive", sid |-> None, conn |-> None,
                    body |-> [query |-> None, code |-> None]])
    /\ UNCHANGED agentVars

\* GatewayConnectOK is only logged; the stub is no Terminal, so a resize does
\* nothing.
Ignore(s) ==
    /\ Handles(s, {"AgentGatewayConnectOK", "AgentTerminalResizeTTY"})
    /\ UNCHANGED <<params, proxies, outbox, probing, opened, ran>>

-----------------------------------------------------------------------------
(* Sessions *)

\* buildConnectionParams fails: decodeConnectionParams has sent a SessionClose
\* of its own by then, and processSessionOpen sends another.
SessionOpenFails(s) ==
    /\ Handles(s, {"AgentSessionOpen"})
    /\ LET c == Head(fromGw[s]).sid
       IN  Replies(s, <<SessionClose(c, "254"), SessionClose(c, "254")>>)
    /\ UNCHANGED <<params, proxies, probing, opened, ran>>

\* Mutant of ProcessSessionOpen: the parameters are not stored.
ProcessSessionOpenForgets(s) ==
    /\ Handles(s, {"AgentSessionOpen"})
    /\ probing' = [probing EXCEPT ![s] = @ \cup {Head(fromGw[s]).sid}]
    /\ UNCHANGED <<params, proxies, outbox, opened, ran>>

\* The parameters are stored before the goroutine that answers is started.
ProcessSessionOpen(s) ==
    /\ Handles(s, {"AgentSessionOpen"})
    /\ LET c == Head(fromGw[s]).sid IN
         /\ params' = [params EXCEPT ![s] = @ \cup {c}]
         /\ probing' = [probing EXCEPT ![s] = @ \cup {c}]
    /\ UNCHANGED <<proxies, outbox, opened, ran>>

\* Mutant of ProbeFails: the goroutine returns without a word.
ProbeFailsSilently(s, c) ==
    /\ c \in probing[s]
    /\ ConnType[c] \in ProbedTypes
    /\ probing' = [probing EXCEPT ![s] = @ \ {c}]
    /\ UNCHANGED <<transportVars, apc, params, proxies, outbox, opened, ran>>

\* checkTCPLiveness: env vars that do not parse, or a port that is not active,
\* are an error; types that are not probed never fail.
ProbeFails(s, c) ==
    /\ c \in probing[s]
    /\ ConnType[c] \in ProbedTypes
    /\ probing' = [probing EXCEPT ![s] = @ \ {c}]
    /\ opened' = [opened EXCEPT ![s][c] =
                     @ \o <<SessionClose(c, "254"), SessionOpenOK(c)>>]
    /\ UNCHANGED <<transportVars, apc, params, proxies, outbox, ran>>

ProbeSucceeds(s, c) ==
    /\ c \in probing[s]
    /\ ConnType[c] \in ProbedTypes => c \in GoodEnv
    /\ probing' = [probing EXCEPT ![s] = @ \ {c}]
    /\ opened' = [opened EXCEPT ![s][c] = Append(@, SessionOpenOK(c))]
    /\ UNCHANGED <<transportVars, apc, params, proxies, outbox, ran>>

ProbeSend(s, c) ==
    /\ opened[s][c] # << >>
    /\ \/ PeerSend(s, Head(opened[s][c]))
       \/ link[s] # "open" /\ UNCHANGED transportVars
    /\ opened' = [opened EXCEPT ![s][c] = Tail(@)]
    /\ UNCHANGED <<apc, params, proxies, outbox, probing, ran>>

\* strings.Contains(key, c): the id of session c is that of the entry, or
\* occurs in the connection id the client chose for it.
KeyContains(e, c) == e[1] = c \/ (e[2] \in ConnIds /\ c \in Mentions[e[2]])

\* Mutant of ProcessSessionClose: the parameters are deleted as well.
ProcessSessionCloseAll(s) ==
    /\ Handles(s, {"AgentSessionClose"})
    /\ LET c == Head(fromGw[s]).sid IN
         /\ proxies' = [proxies EXCEPT ![s] = {e \in @ : ~KeyContains(e, c)}]
         /\ params' = [params EXCEPT ![s] = @ \ {c}]
    /\ UNCHANGED <<outbox, probing, opened, ran>>

\* sessionCleanup: only io.Closers are deleted, wherever the session's id
\* occurs in the key; the parameters stay.
ProcessSessionClose(s) ==
    /\ Handles(s, {"AgentSessionClose"})
    /\ LET c == Head(fromGw[s]).sid
       IN  proxies' = [proxies EXCEPT ![s] = {e \in @ : ~KeyContains(e, c)}]
    /\ UNCHANGED <<params, outbox, probing, opened, ran>>

\* Mutant of ProcessTCPCloseConnection: the session is not part of the key.
ProcessTCPCloseAnySession(s) ==
    /\ Handles(s, {"AgentCloseTCPConnection"})
    /\ LET p == Head(fromGw[s])
           matching == IF p.conn = None THEN ConnIds \cup {None} ELSE PrefixOf[p.conn]
       IN  proxies' = [proxies EXCEPT ![s] = @ \ (ClientStreams \X matching)]
    /\ UNCHANGED <<params, outbox, probing, opened, ran>>

\* Every entry whose key starts with "<sid>:<conn>" is closed and deleted.
ProcessTCPCloseConnection(s) ==
    /\ Handles(s, {"AgentCloseTCPConnection"})
    /\ LET p == Head(fromGw[s])
           matching == IF p.conn = None THEN ConnIds \cup {None} ELSE PrefixOf[p.conn]
       IN  proxies' = [proxies EXCEPT ![s] = @ \ ({p.sid} \X matching)]
    /\ UNCHANGED <<params, outbox, probing, opened, ran>>

-----------------------------------------------------------------------------
(* Protocols *)

HasParams(s, p) == p.sid \in params[s]
Stored(s, p, key) == <<p.sid, key>> \in proxies[s]
\* Mutant of Store: the connection id is used as the session id.
StoreUnderConn(s, p, key) ==
    proxies' = [proxies EXCEPT ![s] = @ \cup {<<p.conn, key>>}]

Store(s, p, key) == proxies' = [proxies EXCEPT ![s] = @ \cup {<<p.sid, key>>}]

\* These handlers only miss a connection id if there is a payload: "<sid>:"
\* is a key to them otherwise.
LenientWrites == {"AgentMySQLConnectionWrite", "AgentMongoDBConnectionWrite",
                  "AgentMSSQLConnectionWrite", "AgentSSHConnectionWrite"}

NoConnId(p) ==
    p.conn = None /\ (p.type \in LenientWrites => p.body.query # None)

\* Mutant of Refused: missing parameters are not an error.
RefusedWithParams(s, p) ==
    \/ NoConnId(p)
    \/ ~Stored(s, p, p.conn) /\ p.sid \notin GoodEnv

\* The checks every protocol handler starts with: the connection parameters
\* of the session, a connection id, and credentials that parse.  A stored
\* proxy is written to before the credentials are looked at.
Refused(s, p) ==
    \/ ~HasParams(s, p)
    \/ NoConnId(p)
    \/ ~Stored(s, p, p.conn) /\ p.sid \notin GoodEnv

Accepted(s, p) == ~Refused(s, p) /\ ~Stored(s, p, p.conn)

RefuseWrite(s, type) ==
    /\ Handles(s, {type})
    /\ LET p == Head(fromGw[s])
       IN  Refused(s, p) /\ Replies(s, CloseReply(p.sid, "254"))
    /\ UNCHANGED <<params, proxies, probing, opened, ran>>

\* The stub's Write accepts everything and does nothing.
WriteToProxy(s, type) ==
    /\ Handles(s, {type})
    /\ LET p == Head(fromGw[s]) IN ~Refused(s, p) /\ Stored(s, p, p.conn)
    /\ UNCHANGED <<params, proxies, outbox, probing, opened, ran>>

\* Mutant of RunQuery: the session is closed before the output is sent.
RunQueryClosesFirst(s, type, reply, runs) ==
    /\ Takes(s, {type})
    /\ apc' = [apc EXCEPT ![s] = "command"]
    /\ LET p == Head(fromGw[s]) IN
         /\ Accepted(s, p)
         /\ \E n \in runs : /\ ran[p.sid] + n <= MaxRuns
                            /\ ran' = [ran EXCEPT ![p.sid] = @ + n]
         /\ \E output \in {<< >>, <<WriteReply(p, reply)>>}, code \in {"0", "1"} :
              Replies(s, <<SessionClose(p.sid, code)>> \o output)
    /\ UNCHANGED <<params, proxies, probing, opened>>

\* The query is given to the command line client of the database, and the
\* session will be closed with its exit code; "1" stands for any but 0.  What
\* the command does is chosen when it is started and shows when it has ended.
RunQuery(s, type, reply, runs) ==
    /\ Takes(s, {type})
    /\ apc' = [apc EXCEPT ![s] = "command"]
    /\ LET p == Head(fromGw[s]) IN
         /\ Accepted(s, p)
         /\ \E n \in runs : /\ ran[p.sid] + n <= MaxRuns
                            /\ ran' = [ran EXCEPT ![p.sid] = @ + n]
         /\ \E output \in {<< >>, <<WriteReply(p, reply)>>}, code \in {"0", "1"} :
              Replies(s, output \o <<SessionClose(p.sid, code)>>)
    /\ UNCHANGED <<params, proxies, probing, opened>>

\* CombinedOutput returns.  It has no deadline: a database that does not answer
\* keeps the loop there.
CommandEnds(s) ==
    /\ apc[s] = "command"
    /\ apc' = [apc EXCEPT ![s] = "run"]
    /\ UNCHANGED <<transportVars, params, proxies, outbox, probing, opened, ran>>

\* Mutant of StartProxy: the error of the proxy is not reported.
StartProxySilently(s, type) ==
    /\ Handles(s, {type})
    /\ LET p == Head(fromGw[s]) IN Accepted(s, p) /\ Store(s, p, p.conn)
    /\ UNCHANGED <<params, outbox, probing, opened, ran>>

\* The stub's Run reports its error before it returns, which closes the
\* session; then the proxy is stored.
StartProxy(s, type) ==
    /\ Handles(s, {type})
    /\ LET p == Head(fromGw[s]) IN
         /\ Accepted(s, p)
         /\ Store(s, p, p.conn)
         /\ Replies(s, <<SessionClose(p.sid, "254")>>)
    /\ UNCHANGED <<params, probing, opened, ran>>

ProcessMySQLProtocol(s) ==
    LET type == "AgentMySQLConnectionWrite" IN
    \/ RefuseWrite(s, type) \/ WriteToProxy(s, type)
    \/ RunQuery(s, type, "ClientMySQLConnectionWrite", {1})

\* The shell line is "mongosh ... || mongo ...": a query that fails in the
\* first client is run once more by the second.
ProcessMongoDBProtocol(s) ==
    LET type == "AgentMongoDBConnectionWrite" IN
    \/ RefuseWrite(s, type) \/ WriteToProxy(s, type)
    \/ RunQuery(s, type, "ClientMongoDBConnectionWrite", {1, 2})

ProcessPGProtocol(s) ==
    LET type == "AgentPGConnectionWrite" IN
    RefuseWrite(s, type) \/ WriteToProxy(s, type) \/ StartProxy(s, type)

ProcessMSSQLProtocol(s) ==
    LET type == "AgentMSSQLConnectionWrite" IN
    RefuseWrite(s, type) \/ WriteToProxy(s, type) \/ StartProxy(s, type)

\* The callback of Run deletes the entry, which is stored only after it.
ProcessSSHProtocol(s) ==
    LET type == "AgentSSHConnectionWrite" IN
    RefuseWrite(s, type) \/ WriteToProxy(s, type) \/ StartProxy(s, type)

\* The proxy is never Run.
ProcessHttpProxyWriteServer(s) ==
    LET type == "AgentHttpProxyConnectionWrite" IN
    \/ RefuseWrite(s, type) \/ WriteToProxy(s, type)
    \/ /\ Handles(s, {type})
       /\ LET p == Head(fromGw[s]) IN Accepted(s, p) /\ Store(s, p, p.conn)
       /\ UNCHANGED <<params, outbox, probing, opened, ran>>

\* doExec: the entry is stored, and deleted by the callback of Run, which the
\* stub calls before Run returns.
DoExec(s) ==
    /\ Handles(s, {"AgentExecWriteStdin"})
    /\ LET p == Head(fromGw[s]) IN
         /\ proxies' = IF HasParams(s, p)
                         THEN [proxies EXCEPT ![s] = @ \ {<<p.sid, "exec">>}]
                         ELSE proxies
         /\ Replies(s, CloseReply(p.sid, IF HasParams(s, p) THEN "1" ELSE "254"))
    /\ UNCHANGED <<params, probing, opened, ran>>

\* doTerminalWriteAgentStdin
DoTerminalWriteAgentStdin(s) ==
    /\ Handles(s, {"AgentTerminalWriteStdin"})
    /\ LET p == Head(fromGw[s]) IN
         \/ /\ ~HasParams(s, p)
            /\ Replies(s, CloseReply(p.sid, "254"))
            /\ UNCHANGED proxies
         \/ /\ HasParams(s, p) /\ Stored(s, p, "cmd")
            /\ UNCHANGED <<proxies, outbox>>
         \/ /\ HasParams(s, p) /\ ~Stored(s, p, "cmd")
            /\ Store(s, p, "cmd")
            /\ Replies(s, CloseReply(p.sid, "1"))
    /\ UNCHANGED <<params, probing, opened, ran>>

-----------------------------------------------------------------------------
\* A step of the loop of Run that takes no longer than its Sends.
RunStep(s) ==
    \/ AgentSend(s) \/ AgentRunReturns(s) \/ Ignore(s)
    \/ SessionOpenFails(s) \/ ProcessSessionOpen(s)
    \/ ProcessSessionClose(s) \/ ProcessTCPCloseConnection(s)
    \/ ProcessMySQLProtocol(s) \/ ProcessMongoDBProtocol(s)
    \/ ProcessPGProtocol(s) \/ ProcessMSSQLProtocol(s) \/ ProcessSSHProtocol(s)
    \/ ProcessHttpProxyWriteServer(s) \/ DoExec(s) \/ DoTerminalWriteAgentStdin(s)

\* A step of the goroutine of session c.
ProbeStep(s, c) == ProbeFails(s, c) \/ ProbeSucceeds(s, c) \/ ProbeSend(s, c)

=============================================================================
