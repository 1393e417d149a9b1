------------------------------ MODULE ApiStore ------------------------------
(***************************************************************************)
(* The API server's management endpoints (api-server/agents.go, users.go,  *)
(* databases.go and the routes of main.go) over the three tables that the  *)
(* migrations create.                                                      *)
(*                                                                         *)
(* Every handler runs in a goroutine of its own and does its work on the   *)
(* tables in one SQL statement, which is one action.  The two handlers     *)
(* that read agents ask the gateway for the connected ones after their     *)
(* SELECT, in a second step.  HTTP calls in flight occupy a slot; they are *)
(* handled, and their answers arrive, in any order.                        *)
(***************************************************************************)
EXTENDS Naturals, FiniteSets

CONSTANTS
    Slots,       \* HTTP calls that may be in flight at the same time
    Callers,     \* who sends calls
    Api,         \* the caller whose answers nobody looks at
    AgentIds,    \* values of agent_id, without ""
    FirstRows,   \* FirstRows[t]: the rows of table t that exist at first
    MaxId        \* bound on the ids of a table

Tables == {"users", "agents", "databases"}

\* host, port, username and db_name of a database are one column, target;
\* its description and the time stamps are left out.
Columns ==
    [users     |-> {"username", "email", "teamname"},
     agents    |-> {"agent_id", "name", "description"},
     databases |-> {"database_name", "type", "agent_id", "target", "password"}]

Required ==
    [users     |-> {"username", "email", "teamname"},
     agents    |-> {"agent_id", "name"},
     databases |-> {"database_name", "type", "agent_id", "target"}]

UniqueColumns ==
    [users     |-> {"username", "email"},
     agents    |-> {"agent_id"},
     databases |-> {"database_name"}]

ValidTypes == {"mysql", "postgres", "mssql", "mongodb"}

IsRow(t, row) == DOMAIN row = Columns[t]

\* The tables at first: ids are the first ones of the sequence, and the keys
\* and checks of the migrations hold.
ASSUME StoreAssumption ==
    /\ MaxId \in Nat
    /\ DOMAIN FirstRows = Tables
    /\ \A t \in Tables :
         /\ \E k \in 0..MaxId : DOMAIN FirstRows[t] = 1..k
         /\ \A i \in DOMAIN FirstRows[t] : IsRow(t, FirstRows[t][i])
         /\ \A i, j \in DOMAIN FirstRows[t] : \A f \in UniqueColumns[t] :
              i # j => FirstRows[t][i][f] # FirstRows[t][j][f]
    /\ \A i \in DOMAIN FirstRows["databases"] : \E j \in DOMAIN FirstRows["agents"] :
         FirstRows["agents"][j].agent_id = FirstRows["databases"][i].agent_id

VARIABLES
    rows,      \* rows[t]: the table, a function from ids to rows
    nextId,    \* nextId[t]: the table's sequence
    calls,     \* calls[n]: the call in slot n, or Free
    clock,     \* changes made to the tables so far
    changed    \* changed[t][i]: the value of clock after row i last changed

storeVars == <<rows, nextId, clock, changed>>
serverVars == <<rows, nextId, calls, clock, changed>>

\* A slot without a call.
Free == [pc |-> "free"]

Ops == {"list", "get", "create", "update", "delete", "malformed"}
NoRow == << >>

\* A call: who waits for it; what it asks; the columns its sender meant to
\* set and the clock when the other ones were read; how far it is; the answer.
NewCall(c, op, t, i, body, edited, read) ==
    [from |-> c, op |-> op, table |-> t, id |-> i, body |-> body,
     edited |-> edited, read |-> read, pc |-> "sent",
     status |-> 0, data |-> NoRow, ver |-> 0]

StoreTypeOK ==
    /\ \A t \in Tables :
         /\ DOMAIN rows[t] \subseteq 1..nextId[t] - 1
         /\ \A i \in DOMAIN rows[t] : IsRow(t, rows[t][i])
         /\ nextId[t] \in 1..MaxId + 1
         /\ changed[t] \in [1..MaxId -> 0..clock]
    /\ clock \in Nat
    /\ \A n \in Slots : calls[n] # Free =>
         /\ calls[n].from \in Callers /\ calls[n].op \in Ops
         /\ calls[n].pc \in {"sent", "asking", "answered"}
         /\ calls[n].status \in {0, 200, 201, 400, 404, 409, 500}
         /\ calls[n].ver \in 0..clock

StoreInit ==
    /\ rows = FirstRows
    /\ nextId = [t \in Tables |-> Cardinality(DOMAIN FirstRows[t]) + 1]
    /\ calls = [n \in Slots |-> Free]
    /\ clock = 0
    /\ changed = [t \in Tables |-> [i \in 1..MaxId |-> 0]]

-----------------------------------------------------------------------------
(* What PostgreSQL does with a statement *)

Has(t, i) == i \in DOMAIN rows[t]

Clash(t, i, row) ==
    \E j \in DOMAIN rows[t] \ {i}, f \in UniqueColumns[t] : rows[t][j][f] = row[f]

AgentExists(a) == \E i \in DOMAIN rows["agents"] : rows["agents"][i].agent_id = a

UsedBy(a) == {i \in DOMAIN rows["databases"] : rows["databases"][i].agent_id = a}

Touch(t, ids) ==
    /\ clock' = clock + 1
    /\ changed' = [changed EXCEPT ![t] = [i \in 1..MaxId |->
                                            IF i \in ids THEN clock + 1 ELSE @[i]]]

With(table, i, row) == [j \in DOMAIN table \cup {i} |-> IF j = i THEN row ELSE table[j]]

\* Ids come from a sequence and are not used again.
Insert(t, row) ==
    /\ rows' = [rows EXCEPT ![t] = With(@, nextId[t], row)]
    /\ nextId' = [nextId EXCEPT ![t] = @ + 1]
    /\ Touch(t, {nextId[t]})

SetRow(t, i, row) ==
    /\ rows' = [rows EXCEPT ![t][i] = row]
    /\ Touch(t, {i})
    /\ UNCHANGED nextId

Without(table, ids) == [i \in DOMAIN table \ ids |-> table[i]]

\* ON DELETE CASCADE takes the databases of an agent along.
DeleteRow(t, i) ==
    /\ rows' = [u \in Tables |-> Without(rows[u],
                   CASE u = t -> {i}
                     [] u = "databases" /\ t = "agents" -> UsedBy(rows[t][i].agent_id)
                     [] OTHER -> {})]
    /\ Touch(t, {i})
    /\ UNCHANGED nextId

-----------------------------------------------------------------------------
(* Handlers.  n is the slot of the call. *)

Asked(n, op, t) ==
    /\ calls[n] # Free
    /\ calls[n].pc = "sent" /\ calls[n].op = op /\ calls[n].table = t

\* What the call asked is not needed any more.
Answer(call, status, data, ver) ==
    [NewCall(call.from, call.op, call.table, 0, NoRow, {}, 0)
       EXCEPT !.pc = "answered", !.status = status, !.data = data, !.ver = ver]

Reply(n, status, data) ==
    calls' = [calls EXCEPT ![n] = IF @.from = Api THEN Free
                                  ELSE Answer(@, status, data, clock')]

Refuse(n, status) == UNCHANGED storeVars /\ Reply(n, status, NoRow)

\* http.Error and the 400s for ids and bodies that do not parse.
RejectMalformed(n, t) ==
    /\ Asked(n, "malformed", t)
    /\ Refuse(n, 400)

\* A statement fails for reasons of its own; how that is reported differs.
FailStatus(op, t) ==
    CASE op = "get" /\ t = "databases"                     -> 404
      [] op \in {"create", "update"} /\ t # "databases"    -> 400
      [] OTHER                                             -> 500

StatementFails(n, t) ==
    /\ \E op \in Ops \ {"malformed"} : Asked(n, op, t) /\ Refuse(n, FailStatus(op, t))

HandleList(n, t) ==
    /\ Asked(n, "list", t)
    /\ t \in {"users", "databases"}
    /\ UNCHANGED storeVars
    /\ Reply(n, 200, rows[t])

HandleGet(n, t) ==
    /\ Asked(n, "get", t)
    /\ t \in {"users", "databases"}
    /\ \/ ~Has(t, calls[n].id) /\ Refuse(n, 404)
       \/ /\ Has(t, calls[n].id) /\ UNCHANGED storeVars
          /\ Reply(n, 200, With(NoRow, calls[n].id, rows[t][calls[n].id]))

\* handleGetAgents and handleGetAgent up to the call to the gateway.
SelectAgents(n) ==
    /\ \/ /\ Asked(n, "list", "agents")
          /\ calls' = [calls EXCEPT ![n].pc = "asking", ![n].ver = clock,
                                    ![n].data = rows["agents"]]
          /\ UNCHANGED storeVars
       \/ /\ Asked(n, "get", "agents") /\ Has("agents", calls[n].id)
          /\ calls' = [calls EXCEPT ![n].pc = "asking", ![n].ver = clock,
                          ![n].data = With(NoRow, calls[n].id, rows["agents"][calls[n].id])]
          /\ UNCHANGED storeVars
       \/ Asked(n, "get", "agents") /\ ~Has("agents", calls[n].id) /\ Refuse(n, 404)

\* getActiveAgentsFromGateway: with or without the gateway's answer, which
\* only decides what is shown as connected, the rows of the SELECT are sent.
AskGateway(n) ==
    /\ calls[n] # Free /\ calls[n].pc = "asking"
    /\ calls' = [calls EXCEPT ![n] = IF @.from = Api THEN Free
                                     ELSE Answer(@, 200, @.data, @.ver)]
    /\ UNCHANGED storeVars

Incomplete(t, body) == \E f \in Required[t] : body[f] = ""

HandleCreateUser(n) ==
    /\ Asked(n, "create", "users")
    /\ IF Incomplete("users", calls[n].body) \/ Clash("users", 0, calls[n].body)
       THEN Refuse(n, 400)
       ELSE /\ nextId["users"] <= MaxId
            /\ Insert("users", calls[n].body) /\ Reply(n, 201, NoRow)

HandleCreateAgent(n) ==
    /\ Asked(n, "create", "agents")
    /\ IF Incomplete("agents", calls[n].body) \/ Clash("agents", 0, calls[n].body)
       THEN Refuse(n, 400)
       ELSE /\ nextId["agents"] <= MaxId
            /\ Insert("agents", calls[n].body) /\ Reply(n, 201, NoRow)

HandleCreateDatabase(n) ==
    LET body == calls[n].body IN
    /\ Asked(n, "create", "databases")
    /\ CASE Incomplete("databases", body) \/ body.type \notin ValidTypes -> Refuse(n, 400)
         [] OTHER ->
              IF Clash("databases", 0, body) THEN Refuse(n, 409)
              ELSE IF ~AgentExists(body.agent_id) THEN Refuse(n, 500)
              ELSE /\ nextId["databases"] <= MaxId
                   /\ Insert("databases", body) /\ Reply(n, 201, NoRow)

\* Mutant of Patched: the row is replaced by the columns that are given.
PatchedToGiven(t, i, body) ==
    [f \in {g \in Columns[t] : body[g] # ""} |-> body[f]]

\* Only the columns that are not empty are set.
Patched(t, i, body) ==
    [f \in Columns[t] |-> IF body[f] = "" THEN rows[t][i][f] ELSE body[f]]

NothingGiven(t, body) == \A f \in Columns[t] : body[f] = ""

HandleUpdateUser(n) ==
    LET i == calls[n].id  body == calls[n].body IN
    /\ Asked(n, "update", "users")
    /\ IF NothingGiven("users", body) THEN Refuse(n, 400)
       ELSE IF ~Has("users", i) THEN Refuse(n, 404)
       ELSE IF Clash("users", i, Patched("users", i, body)) THEN Refuse(n, 400)
       ELSE SetRow("users", i, Patched("users", i, body)) /\ Reply(n, 200, NoRow)

\* Mutant of HandleUpdateAgent: databases do not hold on to their agent's id.
HandleUpdateAgentFreely(n) ==
    LET i == calls[n].id  body == calls[n].body IN
    /\ Asked(n, "update", "agents")
    /\ IF NothingGiven("agents", body) THEN Refuse(n, 400)
       ELSE IF ~Has("agents", i) THEN Refuse(n, 404)
       ELSE IF Clash("agents", i, Patched("agents", i, body)) THEN Refuse(n, 400)
       ELSE SetRow("agents", i, Patched("agents", i, body)) /\ Reply(n, 200, NoRow)

\* There is no ON UPDATE CASCADE: an agent with databases keeps its agent_id.
HandleUpdateAgent(n) ==
    LET i == calls[n].id  body == calls[n].body IN
    /\ Asked(n, "update", "agents")
    /\ IF NothingGiven("agents", body) THEN Refuse(n, 400)
       ELSE IF ~Has("agents", i) THEN Refuse(n, 404)
       ELSE LET row == Patched("agents", i, body)  old == rows["agents"][i].agent_id IN
            IF Clash("agents", i, row) \/ (row.agent_id # old /\ UsedBy(old) # {})
            THEN Refuse(n, 400)
            ELSE SetRow("agents", i, row) /\ Reply(n, 200, NoRow)

\* The whole row is replaced; required columns are not checked; an empty type
\* passes the handler but not the table; a row that is not there is no error.
HandleUpdateDatabase(n) ==
    LET i == calls[n].id  body == calls[n].body IN
    /\ Asked(n, "update", "databases")
    /\ IF body.type \notin ValidTypes \cup {""} THEN Refuse(n, 400)
       ELSE IF ~Has("databases", i) THEN Refuse(n, 200)
       ELSE IF body.type = "" THEN Refuse(n, 500)
       ELSE IF Clash("databases", i, body) THEN Refuse(n, 409)
       ELSE IF ~AgentExists(body.agent_id) THEN Refuse(n, 500)
       ELSE SetRow("databases", i, body) /\ Reply(n, 200, NoRow)

HandleDelete(n, t) ==
    /\ Asked(n, "delete", t)
    /\ t \in {"users", "agents"}
    /\ IF Has(t, calls[n].id) THEN DeleteRow(t, calls[n].id) /\ Reply(n, 200, NoRow)
       ELSE Refuse(n, 404)

\* Rows affected are not looked at.
HandleDeleteDatabase(n) ==
    /\ Asked(n, "delete", "databases")
    /\ IF Has("databases", calls[n].id)
       THEN DeleteRow("databases", calls[n].id) /\ Reply(n, 200, NoRow)
       ELSE Refuse(n, 200)

\* The routes of main.
Handle(n) ==
    \/ \E t \in Tables : \/ RejectMalformed(n, t) \/ StatementFails(n, t)
                         \/ HandleList(n, t) \/ HandleGet(n, t) \/ HandleDelete(n, t)
    \/ SelectAgents(n) \/ AskGateway(n)
    \/ HandleCreateUser(n) \/ HandleCreateAgent(n) \/ HandleCreateDatabase(n)
    \/ HandleUpdateUser(n) \/ HandleUpdateAgent(n) \/ HandleUpdateDatabase(n)
    \/ HandleDeleteDatabase(n)

=============================================================================
