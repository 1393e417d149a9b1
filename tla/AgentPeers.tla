----------------------------- MODULE AgentPeers -----------------------------
(***************************************************************************)
(* The agent's controller with the most general gateway: packets of every  *)
(* type, for any session, in any order, whether the session was opened or  *)
(* closed or never existed.  Only one thing is asked of clients, which the *)
(* one client of this repository does: a session is opened at most once.   *)
(***************************************************************************)
EXTENDS AgentController

CONSTANT MaxPackets   \* packets the gateway sends on one stream

ASSUME MaxPacketsAssumption == MaxPackets \in Nat \ {0}

VARIABLES
    sentTo,   \* sentTo[s]: number of packets sent to agent stream s
    asked     \* asked: sessions whose SessionOpen was sent, as <<s, c>>

vars == <<transportVars, agentVars, sentTo, asked>>

TypeOK ==
    /\ TransportTypeOK
    /\ AgentTypeOK
    /\ sentTo \in [AgentStreams -> 0..MaxPackets]
    /\ asked \subseteq AgentStreams \X ClientStreams

Init ==
    /\ TransportInit
    /\ AgentInit
    /\ sentTo = [s \in AgentStreams |-> 0]
    /\ asked = {}

\* TCPConnectionWrite is the subject of module TcpProxy.  Whether a packet has
\* a payload only matters where a handler looks at it.
GatewaySends(s) ==
    /\ link[s] = "open" /\ Room(fromGw, s)
    /\ sentTo[s] < MaxPackets
    /\ \E type \in AgentPacketTypes \ {"AgentTCPConnectionWrite"},
          c \in ClientStreams, k \in ConnIds \cup {None} : \E q \in {c, None} :
         /\ type = "AgentSessionOpen" => <<s, c>> \notin asked /\ k = None
         /\ q = None => k = None /\ type \in LenientWrites
         /\ asked' = IF type = "AgentSessionOpen" THEN asked \cup {<<s, c>>} ELSE asked
         /\ fromGw' = Put(fromGw, s, [type |-> type, sid |-> c, conn |-> k,
                                      body |-> [query |-> q, code |-> None]])
    /\ sentTo' = [sentTo EXCEPT ![s] = @ + 1]
    /\ UNCHANGED <<link, toGw, agentVars>>

GatewayReceives(s) ==
    /\ toGw[s] # << >>
    /\ toGw' = Take(toGw, s)
    /\ UNCHANGED <<link, fromGw, agentVars, sentTo, asked>>

StreamBreaks(s) == Break(s) /\ UNCHANGED <<agentVars, sentTo, asked>>

AgentDoes(A) == A /\ UNCHANGED <<sentTo, asked>>

Next ==
    \E s \in AgentStreams :
        \/ GatewaySends(s) \/ GatewayReceives(s) \/ StreamBreaks(s)
        \/ AgentDoes(AgentStart(s)) \/ AgentDoes(KeepAlive(s))
        \/ AgentDoes(RunStep(s)) \/ AgentDoes(CommandEnds(s))
        \/ \E c \in ClientStreams : AgentDoes(ProbeStep(s, c))

Spec == Init /\ [][Next]_vars

\* The loop and the probe goroutines run.  A dial has a timeout of five
\* seconds, so a probe ends.  Senders share the window with the keepalive, which
\* is sent every ten seconds: a goroutine that waits for room gets it in
\* between, hence strong fairness.  That a command ends is not assumed.
Fairness ==
    \A s \in AgentStreams :
        /\ SF_vars(AgentDoes(RunStep(s)))
        /\ \A c \in ClientStreams : SF_vars(AgentDoes(ProbeStep(s, c)))

FairSpec == Spec /\ Fairness

-----------------------------------------------------------------------------
(* Properties *)

Items(q) == {q[i] : i \in DOMAIN q}

\* Everything the agent has said, or is about to say, of session c.
Said(s, c) ==
    {p \in Items(toGw[s]) \cup Items(outbox[s]) \cup Items(opened[s][c]) : p.sid = c}

\* "Store connection params BEFORE sending SessionOpenOK to ensure they're
\* available when subsequent packets (like MySQLConnectionWrite) arrive"
\* (agent/controller/agent.go:213): from the start of the probe on they stay
\* stored, whatever other packets, SessionClose included, are handled between.
ParamsBeforeOpenOK ==
    \A s \in AgentStreams, c \in ClientStreams :
        c \in probing[s] \/ SessionOpenOK(c) \in Said(s, c) => c \in params[s]

\* Only a session whose parameters were stored has entries in the store:
\* no handler stores a proxy for a session it has just refused.
ProxiesHaveParams ==
    \A s \in AgentStreams : \A e \in proxies[s] : e[1] \in params[s]

\* The session the loop is about to handle a packet of.
Current(s) == Head(fromGw[s]).sid

\* SessionClose selects keys by substring (agent.go:296): it also takes an
\* entry whose connection id has the id of the closed session in it.
TakenBySubstring(s, k) ==
    /\ Head(fromGw[s]).type = "AgentSessionClose"
    /\ k \in ConnIds /\ Current(s) \in Mentions[k]

\* A packet of one session leaves the store entries of all others alone, with
\* one exception: SessionClose may delete, and only delete, entries of another
\* session under a connection id that contains the closed session's id.
\* TCPConnectionClose selects by prefix, which begins with the session.
SessionsAreIsolated ==
    [][\A s \in AgentStreams : fromGw'[s] # fromGw[s] /\ apc[s] = "run" =>
         \A c \in ClientStreams :
            \/ fromGw[s] # << >> /\ c = Current(s)
            \/ /\ c \in params[s] <=> c \in params'[s]
               /\ \A k \in ProxyKeys :
                    /\ <<c, k>> \in proxies'[s] => <<c, k>> \in proxies[s]
                    /\ <<c, k>> \in proxies[s] =>
                         <<c, k>> \in proxies'[s] \/ TakenBySubstring(s, k)
      ]_vars

\* The gateway's handler of the stream keeps receiving.  It may be blocked by
\* a client that does not read (gateway/main.go:316).
GatewayKeepsReceiving == \A s \in AgentStreams : WF_vars(GatewayReceives(s))

\* A session open that is the next packet of the loop is answered, with
\* SessionOpenOK or SessionClose, as long as the stream stays open and the
\* gateway receives from it, however many others compete for the window.
EveryOpenIsAnswered ==
    GatewayKeepsReceiving =>
    \A s \in AgentStreams, c \in ClientStreams :
        (apc[s] = "run" /\ fromGw[s] # << >>
            /\ Head(fromGw[s]).type = "AgentSessionOpen" /\ Current(s) = c)
        ~> (link[s] # "open"
            \/ \E p \in Items(toGw[s]) : p.sid = c)

=============================================================================
