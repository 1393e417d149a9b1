# BifrostLink in TLA+

BifrostLink lets a web user run queries on databases that only an agent can
reach.  An API server turns an HTTP request into a gRPC stream to the gateway;
the gateway forwards packets between that stream and the stream of an agent;
the agent talks to the database.  Around that path are the pages on which
users, agents and databases are managed, the agent's own life, and a provisioner
that creates database roles and keeps their passwords in Vault.  This directory
models all of these, checks them with TLC and proves with TLAPS every safety
property of the passing runs, for every value of the constants.

Paths below are relative to the repository; `agent.go` alone means
`agent/controller/agent.go`.

## 1. Inventory

| Part | State | Operations | Talks to |
|---|---|---|---|
| gRPC streams (`common/grpc/client.go`, `common/proto`) | one bidirectional stream per agent connection and per query | dial, send, receive, keepalive, close | everything below |
| Gateway broker (`gateway/main.go`) | `agents` and `sessions` (two `sync.Map`s), per session a mutex, a closed flag and the captured agent connection | `Connect`, `handleAgentConnection`, `handleClientConnection`, `SendToClient`, `Session.Close`, `GetActiveAgents`, `PreConnect` | agents, API server |
| API server, queries (`api-server/main.go`) | per request: the stream, the last results | `handleExecuteQuery`, `executeQuery` | PostgreSQL table `databases`, gateway |
| API server, CRUD (`api-server/agents.go`, `users.go`, `databases.go`, `migrations`) | three tables: unique names, databases referring to agents with cascade | list, get, create, update, delete; merge with the gateway's list | PostgreSQL, gateway's HTTP port |
| Agent controller (`agent/controller`) | `connStore`: parameters and proxies of every session | `Run` and one handler per packet type; a probe goroutine per session | gateway, databases |
| Raw TCP proxy (`tcp.go`) | one socket and one goroutine per connection id, in `connStore` | write, copy back, close by connection or session | loop of `Run`, database |
| Provisioner and runbook hook (`agent/controller/system`) | a lock per resource; roles in the database; secrets in Vault | create roles, store secrets, run the hook, answer | database, Vault, shell |
| Agent lifecycle (`agent/main.go`, `proc.go`, `common/backoff`) | the running controller; back-off | pre-connect, connect, reconnect, interrupt, clean-up | gateway, OS |
| Secrets managers (`agent/secretsmanager`) | per call of `Decode`: the providers with their caches | replace references in a session's env vars by secrets; write a secret | Vault, AWS, environment |
| Web console (`frontend/src/App.jsx`) | copies of the tables, the open form | fetch, edit, submit, delete | API server |
| Configuration, DSN keys, env var parsing | none of their own | pure conversions | - |
| Wire codecs (`pgtypes`, `mongotypes`, `mssqltypes`), `runbooks`, `keys` | none; imported by no program | encode and decode | - |
| `libbifrost` | none (a stub) | `Run` fails at once, `Write` swallows | - |
| Logging, generated code | - | - | - |

What is hard here, and a unit test would hardly reach:

* the gateway has a goroutine per stream and no lock that spans two of them; an
  agent that reconnects is served twice for a while (`gateway/main.go:167-171`);
* sends block when a flow-control window is full, one of them with a session's
  mutex held (`gateway/main.go:308-317`);
* streams break at any point and lose what is in flight; nobody retries, and
  some parties are never told;
* the agent runs a query inside its receive loop, without a timeout: while it
  waits nothing else is received (`agent.go:245`);
* the agent answers a session-open from a goroutine that races its main loop
  and the keepalive for one stream (`agent.go:217-240`);
* a TCP connection is written by two goroutines and removed from the store by
  key (`tcp.go:48-66`);
* the provisioner's lock is a `Has` and a `Set`, its steps change the database,
  then Vault, and may fail or be cut off anywhere (`dbprovisioner.go:39-108`),
  while sessions read the same secrets one env var at a time;
* the signal handler closes the agent's controller while the main goroutine
  leaves it and connects again (`proc.go:82`);
* browsers edit old copies of rows that others change, rename and delete, with
  several calls under way (`App.jsx:216`, `databases.go:165`).

What makes each part correct: the gateway must never mix sessions, never write
to a closed one, keep packets in order, clean up what is gone, and list who is
connected; the agent must have the parameters when the query comes and keep
sessions apart; the query path must answer each request, with this query's
results, having run it at most once; the TCP proxy must write each packet once
and in order, and close what it opened; the tables must stay consistent and
"updated successfully" must be true; a completed provisioning must leave
passwords that work where they are looked for; the agent must come back when the
gateway does, and go when it is told to.  PROJECT.json lists the hazards at
their lines.

## 2. Modules

```
Transport
   |-- Gateway ---- GatewayPeers ---- MCGateway
   |      \               \---------- GatewayProofs
   |-- AgentController -- AgentPeers -- MCAgentController
   |        \  \------------- \------ AgentProofs (with AgentLemmas)
   |-- ApiQuery -- QuerySystem ---- MCQuerySystem
                       |   \------- QueryProofs (with AgentLemmas)
                       : refines QueryService
TcpProxy ---- MCTcpProxy, TcpProofs
ApiStore ---- WebConsole ---- MCWebConsole, ConsoleProofs
SecretsManager ---- Provisioner ---- MCProvisioner, ProvisionerProofs
AgentLifecycle ---- MCAgentLifecycle, LifecycleProofs
```

**Transport** is the streams: per stream a link state and a FIFO queue in each
direction, of at most `Window` packets.  gRPC is external; kept of it are order,
blocking senders, and streams that break at any time and lose any suffix of
what is in flight (an error may be returned before queued packets are).  A
packet has a type, the session id, the connection id and an abstract payload.

**Gateway** is the broker.  A stream is a model value; a session's uuid is fresh
per client stream, so the session of client stream `c` is called `c`.  `agents`
and `sessions` are the maps, `bound[c]` and `closed[c]` the session's fields,
`hpc[x]` the program counter of the handler of stream `x` and `hand[x]` the
packet it holds between receiving and sending.  Each access to shared state is
an action; the mutex of a session is held exactly while a handler is at
`"sending"`.  Deferred calls are the actions after `"returning"` (agents) and
`"closing"` (clients).  `validateAuth` is the constant set `Authorized`.

**GatewayPeers** closes it with the most general peers: agents that answer on
any session they have heard of, in any order and number, clients that send
whatever they like, streams that dial and break at will.  Peers number their
packets, which is what the delivery properties speak about.

**AgentController** is `Run` with every handler.  A handler that sends leaves
its packets in `outbox` and the loop goes on when they are sent, because a send
may block; the probe goroutine has its own outbox, `opened`.  `connStore` is
split by the kind of key into `params` and `proxies`.  SessionClose selects keys
by substring: `Mentions[k]` is the set of sessions whose id occurs in the
connection id `k` that a client chose.  The stub library makes
the PostgreSQL, SQL Server and SSH handlers close the session with an error;
MySQL and MongoDB run the query with a command-line client, for which the loop
waits at `"command"` until `CommandEnds`, if that ever comes.  MySQL, MongoDB,
SQL Server and SSH take an empty connection id if the packet has no payload
(`NoConnId`).  Whether a
session's env vars parse is the constant `GoodEnv`; exit code "1" stands for
every code but 0 and 254.  **AgentPeers** closes it with a gateway that sends
every packet type for any session in any order, with one restriction the only
client in the repository obeys: a session is opened at most once.

**ApiQuery** is a request from the HTTP handler to its answer.  The branches for
`io.EOF` and for an unknown database type cannot be reached (the gateway's
handlers never return nil; the table has a CHECK) and are left out.

**QuerySystem** composes the three over the same streams, with bounded numbers
of agent and client faults.  **QueryService** is what a user may rely on: a
query is executed, answered with an error that says nothing about execution, or
answered with a response, which is final, carries the results of this very
query or none, and reports success only after the query was executed.  The
refinement mapping takes `ran` to executed and `answer` to reply.

**TcpProxy** models one session's TCP connections at the grain of accesses to
`connStore` and to the sockets.  What `io.Copy` forwards is left out: it changes
nothing the properties see, and that it may block in a Send is why the progress
of `Writes` is never assumed by the specification.

**ApiStore** is the management endpoints over the three tables.  A handler does
its work in one SQL statement, so it is one action, with the constraints of the
migrations: unique columns, the CHECK on the type, the foreign key without ON
UPDATE and with ON DELETE CASCADE.  Only the handlers that list agents have a
second step, the call to the gateway.  A call in flight occupies a slot of
`calls`; slots are handled, and answered, in any order.  Host, port, username
and db_name of a database are one column; time stamps are left out.  `clock` and
`changed` date the rows for the properties.  **WebConsole** adds the browsers:
`list` is the copy a console has of each table, `form` its open form.  Every
change that succeeds starts a fetch, nothing waits for anything, and a call or
its answer may get lost.  A tab may change, by its address, while a form is
open; a change that succeeds closes the form of its own table.  The form of an
agent puts "agent-" before the id that was typed, whatever it starts with
(`AddPrefix`).  The body of a failed fetch of users or agents takes
the place of the list, and the page fails (`Blank`) when it renders that; a
reload is not modelled.  Another client calls the endpoints with bodies a form
would not send.

**SecretsManager** is `Decode`: the env vars of a session in any order, the four
providers, the cache that lives for one call, and every request to a store as a
step.  A secret is the version it has; what `urlPathForProvider` does to its
name is kept, because two names may meet at one path.  `SetValue` may fail after
it has written.  **Provisioner** adds the goroutine of every request: `Has`,
`Set`, the connection, one step per role, one per secret, the hook and the
answer, and the deferred `Del`.  A role is the password it takes; its SQL is
what it may leave behind when it fails.  The process may die at any point, which
loses the locks and keeps database and Vault.  `load` is what an instance meets:
requests, env vars and the environment of the process.

**AgentLifecycle** is the main goroutine from `Run` to its exit, the signal
handler and the goroutine in which it closes the controller.  An environment is
what `dsnkeys.Parse` and `agentconfig.Load` make of it.  `attempt`, `duration`
and the sleep are `Exponential2x`; after `MaxBackoff` (9 in the code, and in the
run) attempts nothing changes any more.  `PreConnect` includes the gateway's
side.  A controller is only its stream and its context; what runs in it is
AgentController.  Leaving it is two steps, `agentStore.Del` and `ctrl.Close`
(`CloseController`), between which the signal handler finds no instance.

Operators whose comment starts with "Mutant of" are used by no specification.
Each is a plausible mistake in the operator it follows, and substituting it
makes TLC report the property PROJECT.json pairs it with.

## 3. Runs

| Run | Instance | Shows |
|---|---|---|
| `gateway_isolation` | 2 connections of one agent id, 2 clients, window 1, 1 packet per peer, symmetric | packets stay between a client and the agent connection its session captured; the registry never names a finished handler |
| `gateway_session` | 1 agent, 1 client, 1 unauthorised client, window 1, 2 packets per peer, fair | types; the mutex is held only on open, stored sessions; answers and requests in order without duplicates; silence after close; sessions of gone clients are removed if agents go on receiving |
| `gateway_registry` | 2 connections of one id | **violated**: a connected agent can be missing from `GetActiveAgents` |
| `agent` | 2 sessions (one probed, one not; one with bad env vars), ids "1" and "10", of which "10" contains the id of a session, 3 packets, fair | parameters precede SessionOpenOK and stay; entries only for opened sessions; sessions do not touch each other, but for what SessionClose takes by substring; every open is answered if the gateway receives |
| `query_safety` | an agent that may come back, a MongoDB query, a missing database, a malformed request, one fault of each kind | parameters precede the query; SessionClose never overtakes results; at most one execution (two for MongoDB's shell fallback); refinement of `QueryService` |
| `query_live` | 1 agent, a MySQL and a PostgreSQL request, window 2, one client fault, fair | every request is answered while the agent stays, if database commands end |
| `query_hang` | the same with an agent fault | **violated**: the request is never answered |
| `tcp` | ids "1" and "10" (prefix of each other), 2 dials, 3 packets per id, fair | packets written once, in order but for the first; connections lost only to a late Del; the others end with the session, if writes end |
| `console` | 1 console on 2 tabs, another client, 2 calls at a time, 3 clicks; a database, its agent and one without the prefix | types; the tables stay consistent; only what was typed is overwritten, or what an outdated form holds; own changes are shown |
| `credentials` | 9 loads of up to 3 requests for 2 instances on one host, 1 session, 1 crash | types; a lock is always given back; completed means that the passwords work and Vault has them; what a session gets belongs together and works |
| `lifecycle` | 9 environments, 2 controllers, back-off as in the code, fair | attempts are paced; never two streams; serves in the end if the gateway stays up and controllers end; ends after a signal |
| `lifecycle_embedded` | an authorised agent in embedded mode, fair | **violated**: it never connects |

Bounds.  One packet in the window is the harshest flow control: every send can
block.  Two connections of one id is the smallest case of a reconnection that
overlaps; a third adds no new relation between handlers, and the safety
properties are proved for any number anyway.  Two packets per peer let
a handler block on a client's window with the mutex held, let a forward fail
after an answer is under way (the case of a closed session on an open stream)
and let order be violated.  In the agent, three packets reach
open, write, close.  Two dials per key are what a late Del needs.  `MaxRuns` is
above what `ExecutedAtMostOnce` allows, so that it does not hide a violation.
In the console, two slots let answers overtake each other and let the other
client act between a form's fetch and its submission; three clicks reach a
change, the fetch after it and a conflicting change (a second console would
share nothing with the first but the tables, which the other client changes as
well).  In `credentials`, a third request can start after the Del
of the first of two that raced for the lock; the loads keep the combinations apart that do not interact.  Two
controllers suffice: at most one is still being closed.
`query_live` uses window 2: with window 1, TLC finds a
circular wait in which clients fill a new agent's window before the gateway has
sent GatewayConnectOK and the agent's own window is full as well.  A window of
64 KB would need hundreds of session opens in that instant, so this is listed as a
hazard that no property of a run catches.  Deadlock checking is off because every
instance really ends: streams are not reused and peers may stay silent.

Fairness.  Weak fairness for every goroutine (the Go scheduler runs what is
runnable): the gateway's handlers, the agent's loop, connection goroutines and
the API server's requests, and in `AgentLifecycle` the main goroutine, whose
sleeps and dials end, and the signal handler, whose wait ends after ten seconds
at the latest.  In `AgentPeers` the loop and the probes have
strong fairness, because they share the window with the keepalive, which pauses
ten seconds between packets.  In `QuerySystem` agents dial again
(`runDefaultMode` retries for ever) and the stream of a dead process breaks in
the end.  Faults never have to happen.

What the code does not guarantee is no part of a `Fairness`; where a liveness
property needs it, it is a premise of that property, with a name:

| Premise | Says | Of |
|---|---|---|
| `AgentsKeepReceiving` | agents take what is queued for them; an agent's loop stops doing so while it runs a query or sends | `SessionOfGoneClientRemoved` |
| `GatewayKeepsReceiving` | the gateway takes what the agent sends; its handler may be held up by a client | `EveryOpenIsAnswered` |
| `CommandsEnd` | the command that runs a query ends; it has no timeout (`agent.go:245`) | `EveryQueryAnswered` |
| `WritesEnd` | no write of a TCP goroutine, to the server or to the stream, blocks for ever | `ClosedSessionEnds` |
| `ControllersEnd` | `Run` returns when the stream is broken, and `Close` returns; a command or a proxy may prevent both | `Reconnects` |

`ExitsOnSignal` needs none of these.  That one slow client holds up the packets
of all other clients of its agent (`gateway/main.go:316`) is not the subject of
a property.

## 4. Findings

* `gateway/main.go:169`: the deferred `Delete` removes by id.  An agent that
  reconnects before its old handler has returned disappears from the registry,
  against "GetActiveAgents returns a list of all currently connected agents"
  (line 338), and clients are refused (`gateway_registry`).  Without such an
  overlap the registry is exact: theorem `RegistryExactWithoutOverlap`.
* `api-server/main.go:148`: when the agent is lost, neither the gateway nor a
  deadline ends the request, against "executeQuery sends a query to the
  gateway and returns results" (line 46) (`query_hang`).
* `agent/main.go:120`: the agent expects "CONNECT" (`common/proto/const.go:83`),
  the gateway answers "connect" (`gateway/main.go:124`), so an agent in embedded
  mode never gets past PreConnect, against `gateway/README.md:18-21`
  (`lifecycle_embedded`).

Three more claims of the repository are stated as properties and not true.  They
have no run of their own: TLC refutes each within seconds when it is added to the
configuration that is named.

* `OneProcessPerInstance` (Provisioner, `Credentials.cfg`): "use a lock mechanism
  to avoid initializing multiple process to the same instance"
  (`dbprovisioner.go:37`).  `Has` and `Set` are two calls (lines 39, 43), so two
  requests for one instance may both go on.  Theorem `Exclusion`: this race is the
  only hole.
* `NoPasswordSentWithVault` (Provisioner, `Credentials.cfg`): "avoid password from
  being sent by the network when Vault is set" (`dbprovisioner.go:100`).  The
  password is taken out of the response only where it is stored in Vault, which
  is skipped when a role has failed; the passwords of the other roles are sent
  then.  Theorem `Responses`: a failed role is the only case.
* `DatabaseUpdatedSuccessfully` (WebConsole, `Console.cfg`): "Database updated
  successfully" (`databases.go:181`, shown by `App.jsx:515`).  The number of rows
  that were changed is not looked at (line 165), so this is also said of a
  database that was deleted after the form had been opened.

Behaviour that the properties allow by name, and about which no doc, comment or
test of the repository was found: the second packet of a TCP connection may be
written before the first (`OrderedAfterFirst`); the late Del of an old
connection may take the entry of a new one (`LostOnlyToLateDel`); SessionClose
takes entries of other sessions whose connection id contains its session's id
(`SessionsAreIsolated`); two instances on one host share their secrets' paths
(`CredentialsWork`); an outdated form undoes the changes of others
(`UneditedColumnsKept`); overlapping fetches may leave the older list
(`OwnChangesShown`).  These properties say that nothing worse happens; they do
not catch these cases, and the hazards in PROJECT.json say so.

## 5. Proofs

Every invariant and every action property of the passing runs is also a
theorem, for every set of streams, sessions, ids, requests, rows and tables at
first, every window and every bound.  Each rests on an inductive invariant that
TLC has checked on the instance of the run first.

**GatewayProofs.**
* `Typing`: `TypeOK /\ HandlerState`.  `TypeOK` alone is not inductive: a
  handler queues the packet in its hand, so one must know it holds one.
* `RoutingIsolation`, `ForwardingIsolation`: `DeliveredOnlyByBoundAgent` and
  `ForwardedOnlyToBoundAgent`.  The gateway routes answers by session id alone
  and never compares sender and session; that this is safe rests on how
  session ids spread.  The inductive invariant `Routing` follows a packet
  everywhere it can be (both queues and the hand of each handler), says that
  an agent has heard only of sessions that captured it, and that a session
  without a captured agent has no packets yet.
* `SessionMutex`: `LockedSessionIsOpen`, from `SessionLock`: which program
  counters imply that a session is stored, and when it is closed.
* `ClosedIsSilent`: the action property `ClosedSessionIsSilent`, from the same
  invariant: only `SendToClient` queues for a client, under the mutex.
* `RegistryNamesServedAgents`: `RegisteredIsServed`.
* `RegistryExactWithoutOverlap`: `ExactWithoutOverlap`, an implication between
  two invariants, from a step lemma on who is served and what is registered.
* `AnswersKeepOrder`, `RequestsKeepOrder`: `AnswersInOrder` and
  `RequestsInOrder`.  `Order` says that what a peer sent and the gateway has not
  taken is in order behind the packet in hand (`Line`), and that what is queued
  for the other side is in order, after what was received there and before
  everything on the sender's side (`Flow`).  Two directions of many sessions
  share an agent's queue, so `Flow` speaks of the places of one session's
  packets.

**AgentLemmas** says which of six things a step of `Run` is (send, return,
refuse a SessionOpen, open a session, query, serve), and what each does to the store;
both modules below use it.

**AgentProofs.**  `Typing`, `ParamsAvailable` (`ParamsBeforeOpenOK`),
`StoreHasParams` (`ProxiesHaveParams`) and the action property
`SessionIsolation`, which holds for any `Mentions`: what SessionClose takes of
other sessions is exactly what its substring filter finds.  The invariant adds
that packets for the agent name a session and that a probe goroutine answers
only for its own.

**QueryProofs.**  `ParamsStored`, `ResponsesComplete`, `ExecutedOnce` and
`Implementation`, the refinement of `QueryService`.  None of them is inductive
and none can be seen in one component.  The invariant follows the packets of
one session through eight stages, from the client's stream to the agent and
back: `Lined` and `Tidy` say that they are in a legal order, between stages and
within a queue; `Content` what a packet at a stage tells of the request and
its execution; `Session` what the API server's request is at meanwhile.  The core
is that a session has one request on its way, a probe at work or one batch of
answers coming back, never two of these, however streams break: so a query is
executed once, and when the close that ends a batch arrives its output has.
The lemmas are per kind of movement (a packet moves on, is dropped, is handled,
arrives without a session), and each action is one of these.  For the
refinement, each step changes executed and reply as an action of `QueryService`
would, or not at all.

**TcpProofs.**  `Typing`, `NoDuplicates` (`WrittenOnce`), `Ordering`
(`OrderedAfterFirst`) and `LostConnections` (`LostOnlyToLateDel`).  The store
names the connection of an id that was dialled last; no two goroutines have the
same first packet, and one not yet written is on no connection.

**ProvisionerProofs.**  `Typing`, `LocksReleased`, `Credentials`, `Together` and
`SessionPasswords`, and what is left of two claims that TLC refutes (section 4):
`Exclusion` (`ExclusiveUnlessRaced`) and `Responses`
(`PasswordSentOnlyIfRoleFailed`).  `Locking` says that where no
race was met one request works at a time, under the lock; `Effects` that what
the last request has done so far is still in the database and in Vault, role by
role; `SentInv` which passwords a response still holds.  `Versions` and
`DecodeInv` say that a password written to Vault is not written again, so a
secret that has changed since a session began never changes back: that is why a
cached value and a fresh one can be compared.  An attempt to prove `Locking`
showed that the history variable `raced` was cleared too early in the model: a
third request could start while one of two racing requests was still at work.

**LifecycleProofs.**  `NeverTwoStreams` (an open stream is that of the current
controller, and none is open where the main goroutine is not at one) and
`Pacing` (`fails`, `attempt` and `duration` agree, for any `MaxBackoff`).

**ConsoleProofs.**  `Typing`, `Consistency`, `OwnChanges`, and the action
property `UneditedKept`.  The invariant follows a row from the
table into the answer of a fetch, the copy of a console, its form and the
update sent from it: wherever it is, it is what the table holds, unless the
row has changed since it was read.  `FetchOK` says that a table whose fetches
did not overlap has at most one under way, which has read, or will read, what
was reported.  That the foreign key holds needs that an agent's id is changed
only when no database names it, and that a delete cascades.

The assumptions are named in the modules that declare the constants and TLC
evaluates them on every run.  Agent and client streams are disjoint, none is
`None` and no packet is (`PacketAssumption`); windows and counts are positive;
payloads are those of the peers or the agent (`PeerBodyAssumption`,
`BodiesAssumption`).  Prefixes of a connection id include the id.  A request for
an instance has a known resource, role names differ, the roles' secrets are in
Vault's key-value store and hold at first nothing a request will generate
(`ProvisionerAssumption`).  The tables satisfy their constraints at first and
their ids have been given out in order (`StoreAssumption`): PostgreSQL
guarantees that, as the migrations declare them.

Only model-checked: the six liveness properties (`SessionOfGoneClientRemoved`,
`EveryOpenIsAnswered`, `EveryQueryAnswered`, `ClosedSessionEnds`, `Reconnects`,
`ExitsOnSignal`), because fairness and ENABLED are out of the prover's reach, and
of course the three runs that end in a violation.

## 6. Not modelled

Left out for good: TLS and gRPC's internals, HTTP and JSON encoding, logging,
versions, monitoring, generated code, the `*.bak` copies, layout and the SQL tab
of the frontend (it sends one request and shows its answer).  The wire codecs,
runbooks, key generation and `apiutils` are imported by no program of the
repository; the foreground command of `proc.go` is never given one.  Parsing of
connection env vars is the constant `GoodEnv`: what it yields is text for a
driver or a shell.  That handlers of several clients call `Send` on one agent
stream without a lock (`gateway/main.go:279`), which gRPC forbids, is modelled
as atomic sends: what else could happen depends on gRPC's internals.  That
`PreConnectRPC` never closes its connection (`client.go:115`) is a hazard
without a property.

## 7. Plan

1. Shorten the proofs of QueryProofs and ProvisionerProofs where lemmas of
   one can serve both directions or several actions.
2. State the safety halves of the liveness properties (what is always true of a
   session that is not yet answered, of a connection whose session is closed) and
   prove those.
3. Hazards without a property: the client that is not told of the end of a
   server's data (`tcp.go:61`), and the entries an agent keeps of sessions whose
   client has left (`gateway/main.go:252`).  A client that is held up by
   another one's window (`gateway/main.go:316`) needs a liveness run with two
   authorised clients.
