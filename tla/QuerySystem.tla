----------------------------- MODULE QuerySystem -----------------------------
(***************************************************************************)
(* The whole query path: API server requests, the gateway and the agents,  *)
(* each as its own module describes it, over the same streams.  An agent   *)
(* that loses its stream or dies comes back on a new stream with the same  *)
(* id.  Keepalives are left out: the gateway drops them.                   *)
(***************************************************************************)
EXTENDS Gateway, AgentController, ApiQuery

CONSTANTS
    AgentFaults,   \* how many agent streams may break or agents crash
    ClientFaults   \* how many client streams may break by themselves

ASSUME FaultsAssumption == AgentFaults \in Nat /\ ClientFaults \in Nat

VARIABLE faults    \* faults so far: [agent |-> .., client |-> ..]

vars == <<transportVars, gatewayVars, agentVars, apiVars, faults>>

NoBody == [query |-> None, code |-> None]

Init ==
    /\ TransportInit /\ GatewayInit /\ AgentInit /\ ApiInit
    /\ faults = [agent |-> 0, client |-> 0]

GatewayStep(x) ==
    /\ \/ RejectUnauthorized(x)
       \/ x \in AgentStreams /\ AgentHandler(x, NoBody)
       \/ x \in ClientStreams /\ ClientHandler(x)
    /\ UNCHANGED <<agentVars, apiVars, faults>>

\* An agent process runs one controller at a time.
StartAgent(s) ==
    /\ \A t \in AgentStreams : IdOf[t] = IdOf[s] => ~Running(t)
    /\ AgentStart(s)
    /\ UNCHANGED <<gatewayVars, apiVars, faults>>

AgentStep(s) ==
    /\ RunStep(s) \/ \E c \in ClientStreams : ProbeStep(s, c)
    /\ UNCHANGED <<gatewayVars, apiVars, faults>>

\* The database client the agent waits for ends.
CommandStep(s) == CommandEnds(s) /\ UNCHANGED <<gatewayVars, apiVars, faults>>

ApiStep(c) == QueryStep(c) /\ UNCHANGED <<gatewayVars, agentVars, faults>>

AgentFault(s) ==
    /\ faults.agent < AgentFaults
    /\ \/ AgentCrash(s)
       \/ Running(s) /\ Break(s) /\ UNCHANGED agentVars
    /\ faults' = [faults EXCEPT !.agent = @ + 1]
    /\ UNCHANGED <<gatewayVars, apiVars>>

\* The stream of a dead agent breaks in the end.
StreamOfDeadAgentBreaks(s) ==
    /\ apc[s] = "stopped"
    /\ link[s] = "open"
    /\ Break(s)
    /\ UNCHANGED <<gatewayVars, agentVars, apiVars, faults>>

ClientFault(c) ==
    /\ faults.client < ClientFaults
    /\ link[c] = "open" /\ Break(c)
    /\ faults' = [faults EXCEPT !.client = @ + 1]
    /\ UNCHANGED <<gatewayVars, agentVars, apiVars>>

Next ==
    \/ \E x \in Streams : GatewayStep(x)
    \/ \E s \in AgentStreams :
         \/ StartAgent(s) \/ AgentStep(s) \/ CommandStep(s)
         \/ AgentFault(s) \/ StreamOfDeadAgentBreaks(s)
    \/ \E c \in ClientStreams : ApiStep(c) \/ ClientFault(c)

Spec == Init /\ [][Next]_vars

\* Every goroutine that can take a step takes one, and an agent whose stream
\* is gone reconnects (runDefaultMode retries forever).  Faults need not happen,
\* and the command that runs a query need not end.
Fairness ==
    /\ \A x \in Streams : WF_vars(GatewayStep(x))
    /\ \A s \in AgentStreams : /\ WF_vars(StartAgent(s))
                               /\ WF_vars(AgentStep(s))
                               /\ WF_vars(StreamOfDeadAgentBreaks(s))
    /\ \A c \in ClientStreams : WF_vars(ApiStep(c))

FairSpec == Spec /\ Fairness

-----------------------------------------------------------------------------
(* Properties *)

Responded(c) == answer[c] # None /\ answer[c].kind = "response"

\* The query path implements the abstract service.
Service ==
    INSTANCE QueryService WITH
        Queries <- ClientStreams,
        executed <- {c \in ClientStreams : ran[c] > 0},
        reply <- [c \in ClientStreams |->
                    IF answer[c] = None THEN None
                    ELSE IF answer[c].kind = "response"
                      THEN [code |-> answer[c].code, results |-> answer[c].results]
                      ELSE [error |-> TRUE]]

ImplementsService == Service!ServiceSpec

\* No query is executed twice, except by the second shell of the MongoDB
\* command line: executeQuery sends the query once per SessionOpenOK it gets,
\* whatever breaks or comes back meanwhile.
ExecutedAtMostOnce ==
    \A c \in ClientStreams : ran[c] <= IF DbRow[c] = "mongodb" THEN 2 ELSE 1

DbWrites == {SendType(c) : c \in {d \in ClientStreams : DbRow[d] \in DbTypes}}

\* "Store connection params BEFORE sending SessionOpenOK to ensure they're
\* available when subsequent packets (like MySQLConnectionWrite) arrive"
\* (agent/controller/agent.go:213): a query that reaches an agent finds them.
ParamsBeforeQuery ==
    \A s \in AgentStreams : Running(s) =>
        \A i \in DOMAIN fromGw[s] :
            fromGw[s][i].type \in DbWrites => fromGw[s][i].sid \in params[s]

\* The output of c's query is on its way: in the agent, in a queue or in the
\* hands of the gateway.
ResultsInFlight(c) ==
    LET isResult(p) == p.type = ReceiveType(c) /\ p.sid = c
        queued(q) == \E i \in DOMAIN q : isResult(q[i])
    IN  \/ queued(fromGw[c])
        \/ \E s \in AgentStreams : \/ queued(outbox[s]) \/ queued(toGw[s])
                                   \/ hand[s] # None /\ isResult(hand[s])

\* A response is complete: SessionClose, which ends executeQuery, never
\* overtakes the output of the query.
NoResultsLeftBehind ==
    \A c \in ClientStreams : Responded(c) => ~ResultsInFlight(c)

\* Database clients end.  The agent sets them no deadline (agent.go:245), so
\* this is up to the database, and one that hangs keeps the agent's loop.
CommandsEnd == \A s \in AgentStreams : WF_vars(CommandStep(s))

\* "executeQuery sends a query to the gateway and returns results"
\* (api-server/main.go:46): if database clients end, a request that was started
\* is answered.
EveryQueryAnswered ==
    CommandsEnd =>
    \A c \in ClientStreams : (qpc[c] # "idle") ~> (answer[c] # None)

=============================================================================
