------------------------------ MODULE ApiQuery ------------------------------
(***************************************************************************)
(* The API server's query endpoint: handleExecuteQuery and executeQuery of *)
(* api-server/main.go.  Every request opens a client stream of its own,    *)
(* named c, on a gRPC connection of its own, which is closed on return.    *)
(*                                                                         *)
(* The gateway's handlers never return nil, so Recv never yields io.EOF    *)
(* and the branch for it is not reached.  The databases table only admits  *)
(* the four types of the switch (CHECK in migrations/004), so its default  *)
(* is not reached either.                                                  *)
(***************************************************************************)
EXTENDS Transport

CONSTANT
    DbRow    \* DbRow[c]: type of the database request c names; None if the
             \* row does not exist; "invalid" if the request is malformed

DbTypes == {"mysql", "postgres", "mssql", "mongodb"}

ASSUME ApiAssumption ==
    /\ DbRow \in [ClientStreams -> DbTypes \cup {None, "invalid"}]
    /\ "web-conn-1" \in ConnIds

VARIABLES
    qpc,      \* qpc[c]: "idle", "opening", "waiting", "sending" or "done"
    results,  \* results[c]: whose query the results of c answer, or None
    answer    \* answer[c]: what the HTTP client is told, None until then

apiVars == <<qpc, results, answer>>

ApiInit ==
    /\ qpc = [c \in ClientStreams |-> "idle"]
    /\ results = [c \in ClientStreams |-> None]
    /\ answer = [c \in ClientStreams |-> None]

SendType(c) ==
    CASE DbRow[c] = "mysql"    -> "AgentMySQLConnectionWrite"
      [] DbRow[c] = "postgres" -> "AgentPGConnectionWrite"
      [] DbRow[c] = "mssql"    -> "AgentMSSQLConnectionWrite"
      [] DbRow[c] = "mongodb"  -> "AgentMongoDBConnectionWrite"

ReceiveType(c) ==
    CASE DbRow[c] = "mysql"    -> "ClientMySQLConnectionWrite"
      [] DbRow[c] = "postgres" -> "ClientPGConnectionWrite"
      [] DbRow[c] = "mssql"    -> "ClientMSSQLConnectionWrite"
      [] DbRow[c] = "mongodb"  -> "ClientMongoDBConnectionWrite"

\* A packet with the query of request c as its payload.
QueryPacket(c, type, conn) ==
    [type |-> type, sid |-> None, conn |-> conn,
     body |-> [query |-> c, code |-> None]]

\* executeQuery returns a and the handler writes it: "error" is a response
\* with exit code 1 and the error's text.
Respond(c, a) ==
    /\ answer' = [answer EXCEPT ![c] = a]
    /\ qpc' = [qpc EXCEPT ![c] = "done"]

\* The deferred conn.Close cancels the stream.
Hangup(c) ==
    link' = [link EXCEPT ![c] = IF @ = "open" THEN "broken" ELSE @]

\* The request is refused before executeQuery: wrong method, body, no query
\* or no database id.
RejectRequest(c) ==
    /\ qpc[c] = "idle" /\ DbRow[c] = "invalid"
    /\ Respond(c, [kind |-> "badRequest"])
    /\ UNCHANGED <<transportVars, results>>

\* The database is not found, or the gateway cannot be reached.
QueryFailsEarly(c) ==
    /\ qpc[c] = "idle" /\ DbRow[c] # "invalid"
    /\ Respond(c, [kind |-> "error"])
    /\ UNCHANGED <<transportVars, results>>

\* The database is found and the stream is created.
StartQuery(c) ==
    /\ qpc[c] = "idle" /\ DbRow[c] \in DbTypes
    /\ Dial(c)
    /\ qpc' = [qpc EXCEPT ![c] = "opening"]
    /\ UNCHANGED <<results, answer>>

SendSessionOpen(c) ==
    /\ qpc[c] = "opening"
    /\ PeerSend(c, QueryPacket(c, "AgentSessionOpen", None))
    /\ qpc' = [qpc EXCEPT ![c] = "waiting"]
    /\ UNCHANGED <<results, answer>>

\* SessionOpenOK in the receive loop is answered with the query itself.
SendQuery(c) ==
    /\ qpc[c] = "sending"
    /\ PeerSend(c, QueryPacket(c, SendType(c), "web-conn-1"))
    /\ qpc' = [qpc EXCEPT ![c] = "waiting"]
    /\ UNCHANGED <<results, answer>>

\* One of the two Sends fails.
SendFails(c) ==
    /\ qpc[c] \in {"opening", "sending"}
    /\ link[c] # "open"
    /\ Respond(c, [kind |-> "error"])
    /\ UNCHANGED <<transportVars, results>>

\* Mutant of ReceiveReply: every packet is answered with the query.
ReceiveReplyResends(c) ==
    /\ qpc[c] = "waiting"
    /\ PeerRecv(c)
    /\ LET p == Head(fromGw[c]) IN
         /\ p.type # "ClientSessionClose"
         /\ qpc' = [qpc EXCEPT ![c] = "sending"]
         /\ results' = [results EXCEPT ![c] =
                           IF p.type = ReceiveType(c) THEN p.body.query ELSE @]
    /\ UNCHANGED answer

\* The receive loop takes a packet that does not end it.
ReceiveReply(c) ==
    /\ qpc[c] = "waiting"
    /\ PeerRecv(c)
    /\ LET p == Head(fromGw[c]) IN
         /\ p.type # "ClientSessionClose"
         /\ qpc' = [qpc EXCEPT ![c] =
                       IF p.type = "ClientSessionOpenOK" THEN "sending" ELSE @]
         /\ results' = [results EXCEPT ![c] =
                           IF p.type = ReceiveType(c) THEN p.body.query ELSE @]
    /\ UNCHANGED answer

\* SessionClose ends it: the exit code and the last results are the answer.
ReceiveClose(c) ==
    /\ qpc[c] = "waiting"
    /\ fromGw[c] # << >>
    /\ LET p == Head(fromGw[c]) IN
         /\ p.type = "ClientSessionClose"
         /\ Respond(c, [kind |-> "response", code |-> p.body.code,
                        results |-> results[c]])
    /\ fromGw' = Take(fromGw, c)
    /\ Hangup(c)
    /\ UNCHANGED <<toGw, results>>

\* Recv fails.
ReceiveFails(c) ==
    /\ qpc[c] = "waiting"
    /\ PeerRecvFails(c)
    /\ Respond(c, [kind |-> "error"])
    /\ UNCHANGED <<transportVars, results>>

QueryStep(c) ==
    \/ RejectRequest(c) \/ QueryFailsEarly(c) \/ StartQuery(c)
    \/ SendSessionOpen(c) \/ SendQuery(c) \/ SendFails(c)
    \/ ReceiveReply(c) \/ ReceiveClose(c) \/ ReceiveFails(c)

=============================================================================
