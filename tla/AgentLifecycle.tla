--------------------------- MODULE AgentLifecycle ---------------------------
(***************************************************************************)
(* The life of an agent process (agent/main.go, agent/proc.go): it loads   *)
(* its configuration, connects to the gateway, registers the controller    *)
(* for the signal handler, runs it, and connects again with a back-off     *)
(* (common/backoff), or after PreConnect in embedded mode.  Controller     *)
(* instances are AgentController's; here they have a stream, open or not.  *)
(*                                                                         *)
(* Two goroutines and the one that closes an instance share agentStore and *)
(* the instance.  The gateway, with the network to it, is up or down.      *)
(***************************************************************************)
EXTENDS Naturals, FiniteSets, FiniteSetsExt

CONSTANTS
    Envs,         \* environments the agent may be started in
    Instances,    \* controller instances, reused once nothing refers to them
    MaxBackoff,   \* defaulMaxBackoff: attempts that the back-off grows with
    None

\* The URL in BIFROST_KEY or BIFROST_DSN, by what dsnkeys.Parse makes of it;
\* "standard" stands for every mode but embedded.
Keys == {"", "malformed", "nosecret", "old", "standard", "embedded"}

ASSUME LifecycleAssumption ==
    /\ MaxBackoff \in Nat \ {0}
    /\ \A e \in Envs : /\ e.key \in Keys /\ e.dsn \in Keys
                       /\ \A f \in {"token", "secretOk", "addrOk", "tlscaOk"} : e[f] \in BOOLEAN

VARIABLES
    env,       \* the environment
    up,        \* the gateway is there
    pc,        \* the goroutine that connects
    attempt,   \* Exponential2x, up to MaxBackoff + 1, beyond which nothing changes
    duration,
    cur,       \* the instance it runs, or None
    store,     \* what agentStore has under "instance", or None
    open,      \* instances whose stream is open
    shut,      \* instances whose shutdownCtx is done
    sig,       \* the goroutine of handleOsInterrupt
    popped,    \* the instance it has taken out of agentStore, or None
    closer,    \* the goroutine that closes that instance
    fails,     \* failures in a row, as far as they matter
    waited     \* seconds slept since the last connection ended

agentVars == <<pc, attempt, duration, cur, fails, waited>>
signalVars == <<sig, popped, closer>>
vars == <<env, up, store, open, shut, agentVars, signalVars>>

Init ==
    /\ env \in Envs
    /\ up \in BOOLEAN
    /\ pc = "start" /\ attempt = 1 /\ duration = 1 /\ cur = None
    /\ store = None /\ open = {} /\ shut = {}
    /\ sig = "none" /\ popped = None /\ closer = "none"
    /\ fails = 0 /\ waited = 0

-----------------------------------------------------------------------------
(* Configuration *)

\* getEnvCredentials
Credentials == IF env.key # "" THEN env.key ELSE env.dsn

\* agentconfig.Load: the mode, or "fatal".  An old DSN is always embedded.
LoadedMode ==
    CASE Credentials \in {"malformed", "nosecret"}           -> "fatal"
      [] Credentials \in {"old", "embedded"} /\ env.tlscaOk  -> "embedded"
      [] Credentials = "standard" /\ env.tlscaOk             -> "standard"
      [] Credentials = "" /\ env.token                       -> "standard"
      [] OTHER                                               -> "fatal"

\* Run, RunV2 and runDefaultMode up to their loops.
Start ==
    /\ pc = "start"
    /\ pc' = IF LoadedMode = "fatal" \/ ~env.addrOk THEN "exited"
             ELSE IF LoadedMode = "embedded" THEN "preconnect" ELSE "dial"
    /\ UNCHANGED <<env, up, store, open, shut, attempt, duration, cur, fails, waited, signalVars>>

-----------------------------------------------------------------------------
(* PreConnect, of the gateway, and the loop of runAgentController *)

\* validateAuth finds the secret in a URL with an "@" in it, which an old DSN
\* is not.
Authorized == env.secretOk /\ Credentials # "old"

PreConnectResponse == IF Authorized THEN "connect" ELSE "backoff"

PreConnectStatusConnectType == "CONNECT"

PreConnect ==
    /\ pc = "preconnect"
    /\ pc' = IF up /\ PreConnectResponse = PreConnectStatusConnectType THEN "dial" ELSE "nap"
    /\ UNCHANGED <<env, up, store, open, shut, attempt, duration, cur, fails, waited, signalVars>>

\* time.Sleep(time.Second * 5)
Nap ==
    /\ pc = "nap"
    /\ pc' = "preconnect"
    /\ UNCHANGED <<env, up, store, open, shut, attempt, duration, cur, fails, waited, signalVars>>

-----------------------------------------------------------------------------
(* Connecting *)

\* Mutant of Retry: the back-off is not reset.
RetryNoReset(failed) ==
    IF LoadedMode = "embedded" THEN pc' = "nap" /\ UNCHANGED <<attempt, duration, fails, waited>>
    ELSE /\ attempt' = IF failed THEN Min({attempt + 1, MaxBackoff + 1}) ELSE attempt
         /\ duration' = IF failed /\ attempt + 1 <= MaxBackoff THEN 2 * duration ELSE duration
         /\ pc' = IF failed THEN "sleep" ELSE "dial"
         /\ fails' = IF failed THEN Min({fails + 1, MaxBackoff}) ELSE 0
         /\ waited' = 0

\* The function's turn is over: Exponential2x after an error of its own kind,
\* or after nil.  In embedded mode the loop of runAgentController sleeps.
Retry(failed) ==
    IF LoadedMode = "embedded" THEN pc' = "nap" /\ UNCHANGED <<attempt, duration, fails, waited>>
    ELSE /\ attempt' = IF failed THEN Min({attempt + 1, MaxBackoff + 1}) ELSE 1
         /\ duration' = IF ~failed THEN 1
                        ELSE IF attempt + 1 <= MaxBackoff THEN 2 * duration ELSE duration
         /\ pc' = IF failed THEN "sleep" ELSE "dial"
         /\ fails' = IF failed THEN Min({fails + 1, MaxBackoff}) ELSE 0
         /\ waited' = 0

Sleep ==
    /\ pc = "sleep"
    /\ pc' = "dial" /\ waited' = duration
    /\ UNCHANGED <<env, up, store, open, shut, attempt, duration, cur, fails, signalVars>>

\* Mutant of ConnectFails: the program ends.
ConnectFailsFatal ==
    /\ pc = "dial" /\ ~up
    /\ pc' = "exited"
    /\ UNCHANGED <<env, up, store, open, shut, attempt, duration, cur, fails, waited, signalVars>>

\* grpc.Connect returns an error.
ConnectFails ==
    /\ pc = "dial" /\ ~up
    /\ Retry(TRUE)
    /\ UNCHANGED <<env, up, store, open, shut, cur, signalVars>>

\* It returns a client.  Whether the gateway takes it is only known from Recv.
Connect ==
    /\ pc = "dial" /\ up
    /\ pc' = "connected"
    /\ cur' = Min(Instances \ {popped})
    /\ open' = IF Authorized THEN open \cup {cur'} ELSE open
    /\ shut' = shut \ {cur'}
    /\ UNCHANGED <<env, up, store, attempt, duration, fails, waited, signalVars>>

\* agentStore.Set
Register ==
    /\ pc = "connected"
    /\ pc' = "running" /\ store' = cur
    /\ UNCHANGED <<env, up, open, shut, attempt, duration, cur, fails, waited, signalVars>>

-----------------------------------------------------------------------------
(* Running and leaving *)

\* Controller.Run returns: it finds shutdownCtx done, or Recv fails.  The
\* status of a stream that was closed on this side is Canceled, unless it was
\* found broken first; that of one the gateway refused is another one.
RunReturns(status) ==
    /\ pc = "running"
    /\ \/ status = "cause" /\ cur \in shut
       \/ status = "canceled" /\ cur = popped /\ closer = "done"
       \/ status = "broken" /\ cur \notin open
    /\ pc' = status
    /\ UNCHANGED <<env, up, store, open, shut, attempt, duration, cur, fails, waited, signalVars>>

\* The rest of the function and the deferred agentStore.Del: it was connected
\* for longer than defaultBackoffResetSec or not.
Leave(long) ==
    /\ pc \in {"cause", "canceled", "broken"}
    /\ pc' = IF pc # "canceled" /\ ~long THEN "leaveFailed" ELSE "leaveOk"
    /\ store' = None
    /\ UNCHANGED <<env, up, open, shut, attempt, duration, cur, fails, waited, signalVars>>

\* Mutant of CloseController: the controller is not closed.
CloseControllerNot ==
    /\ pc \in {"leaveFailed", "leaveOk"}
    /\ cur' = None
    /\ Retry(pc = "leaveFailed")
    /\ UNCHANGED <<env, up, store, open, shut, signalVars>>

\* The deferred ctrl.Close returns, which it may never do, like the one of the
\* signal handler: its proxies are closed, its context is done, its stream ends.
CloseController ==
    /\ pc \in {"leaveFailed", "leaveOk"}
    /\ cur' = None
    /\ open' = open \ {cur} /\ shut' = shut \cup {cur}
    /\ Retry(pc = "leaveFailed")
    /\ UNCHANGED <<env, up, store, signalVars>>

AgentStep ==
    \/ Start \/ PreConnect \/ Nap \/ Sleep
    \/ ConnectFails \/ Connect \/ Register
    \/ \E long \in BOOLEAN : Leave(long)

\* Steps that end only if the controller lets them: Run returns when its loop
\* is back at Recv, not while it runs a query.
ControllerStep ==
    \/ \E status \in {"cause", "canceled", "broken"} : RunReturns(status)
    \/ CloseController

-----------------------------------------------------------------------------
(* Signals *)

Alive == pc \notin {"start", "exited"}

\* The first SIGHUP, SIGINT, SIGTERM or SIGQUIT; later ones are not read.
Signal ==
    /\ Alive /\ sig = "none"
    /\ sig' = "received"
    /\ UNCHANGED <<env, up, store, open, shut, agentVars, popped, closer>>

\* cleanupAgentInstance up to its wait
Cleanup ==
    /\ Alive /\ sig = "received"
    /\ sig' = "waiting"
    /\ popped' = store /\ store' = None
    /\ closer' = IF store = None THEN "done" ELSE "closing"
    /\ UNCHANGED <<env, up, open, shut, agentVars>>

\* Agent.Close of that instance: its proxies, its context, its stream.  The
\* proxies, or a Send that holds the client's mutex, may block it for ever.
CancelInstance ==
    /\ Alive /\ closer = "closing"
    /\ closer' = "cancelled"
    /\ shut' = shut \cup {popped}
    /\ UNCHANGED <<env, up, store, open, agentVars, sig, popped>>

CloseInstance ==
    /\ Alive /\ closer = "cancelled"
    /\ closer' = "done"
    /\ open' = open \ {popped}
    /\ UNCHANGED <<env, up, store, shut, agentVars, sig, popped>>

\* Mutant of Cleaned: it waits for Close only.
CleanedNoTimeout ==
    /\ Alive /\ sig = "waiting" /\ closer = "done"
    /\ sig' = "exiting"
    /\ UNCHANGED <<env, up, store, open, shut, agentVars, popped, closer>>

\* timeoutCtx is done: the instance is closed, or ten seconds are over.
Cleaned ==
    /\ Alive /\ sig = "waiting"
    /\ sig' = "exiting"
    /\ UNCHANGED <<env, up, store, open, shut, agentVars, popped, closer>>

\* os.Exit
Exit ==
    /\ Alive /\ sig = "exiting"
    /\ pc' = "exited" /\ open' = {}
    /\ UNCHANGED <<env, up, store, shut, attempt, duration, cur, fails, waited, signalVars>>

SignalStep == Cleanup \/ Cleaned \/ Exit

-----------------------------------------------------------------------------
GatewayGoesDown ==
    /\ up /\ up' = FALSE
    /\ open' = {}
    /\ UNCHANGED <<env, store, shut, agentVars, signalVars>>

GatewayComesUp ==
    /\ ~up /\ up' = TRUE
    /\ UNCHANGED <<env, store, open, shut, agentVars, signalVars>>

Next ==
    \/ AgentStep \/ ControllerStep
    \/ Signal \/ SignalStep \/ CancelInstance \/ CloseInstance
    \/ GatewayGoesDown \/ GatewayComesUp

\* The two goroutines run; sleeps, dialling and the wait for Close end.  That
\* Run or Close of a controller end, or that the gateway comes up, is not assumed.
Spec == Init /\ [][Next]_vars /\ WF_vars(AgentStep) /\ WF_vars(SignalStep)

-----------------------------------------------------------------------------
(* Properties *)

\* "increase exponentially until max" (exponential.go:34): before an attempt
\* to connect the agent has slept twice as long as before the last one, from
\* two seconds up to 2^(MaxBackoff - 1); it has not slept at all only if there
\* was no failure since a connection that was cancelled or lasted.
RetryPaced ==
    pc = "dial" /\ LoadedMode = "standard" =>
        waited = IF fails = 0 THEN 0 ELSE 2 ^ Min({fails, MaxBackoff - 1})

\* The agent never has two streams to the gateway, which would register the
\* second under the name of the first, even if it reconnects while the signal
\* handler is still closing the instance it had.
OneStream == Cardinality(open) <= 1

\* Run returns once its stream is broken, and Close returns: no query and no
\* Close of a proxy holds them up for ever (agent.go:88, 245).
ControllersEnd == WF_vars(ControllerStep)

\* "always reset on this status" and the rest of the loop (main.go:174-214):
\* if controllers end, an authorised agent in standard mode ends up serving
\* once the gateway stays up, however often and for however long it was down.
Reconnects ==
    (LoadedMode = "standard" /\ env.addrOk /\ Authorized
       /\ ControllersEnd /\ <>[](up /\ sig = "none"))
    => <>[](pc = "running" /\ store = cur /\ cur \in open)

\* A signal ends the program (proc.go:109-126), whatever the agent is at, and
\* even if closing its instance blocks.
ExitsOnSignal == sig # "none" ~> pc = "exited"

\* "1. Agent -> PreConnect(req) -> Gateway, Gateway validates token and returns
\* status="connect"; 2. Agent -> Connect(stream) -> Gateway" (gateway/README.md:18):
\* an authorised agent in embedded mode gets to open a stream if the gateway
\* stays up.  The statuses are spelt differently, so it does not.
EmbeddedAgentConnects ==
    (LoadedMode = "embedded" /\ env.addrOk /\ Authorized
       /\ ControllersEnd /\ <>[](up /\ sig = "none"))
    => <>(open # {})

=============================================================================
