--------------------------- MODULE ConsoleProofs ---------------------------
(***************************************************************************)
(* Proofs about WebConsole, for all consoles, slots, tables at first,      *)
(* bodies, ids and bounds.                                                 *)
(*                                                                         *)
(* One inductive invariant serves all theorems.  StoreOK is about the      *)
(* tables alone.  The other parts follow a row from the table into the     *)
(* answer of a fetch, the copy of a console, the form and the update that  *)
(* is sent from it: wherever it is, it is what the table holds unless the  *)
(* table has changed since the row was read.                               *)
(***************************************************************************)
EXTENDS WebConsole, FiniteSetTheorems, TLAPS

TablesTyped ==
    /\ DOMAIN rows = Tables /\ DOMAIN nextId = Tables /\ DOMAIN changed = Tables
    /\ clock \in Nat
    /\ \A t \in Tables :
         /\ nextId[t] \in 1..MaxId + 1
         /\ DOMAIN rows[t] \subseteq 1..nextId[t] - 1
         /\ \A i \in DOMAIN rows[t] : IsRow(t, rows[t][i])
         /\ changed[t] \in [1..MaxId -> 0..clock]

StoreOK == TablesTyped /\ TablesConsistent

\* What was read of row i of t at time ver is what the table holds, unless
\* the row has gone or changed.
Fresh(t, i, row, ver) ==
    i \in DOMAIN rows[t] /\ changed[t][i] <= ver => rows[t][i] = row

CopyOf(t, rs, ver) ==
    /\ DOMAIN rs \subseteq 1..MaxId
    /\ \A i \in DOMAIN rs : IsRow(t, rs[i]) /\ Fresh(t, i, rs[i], ver)

\* A column of an update that was not typed into is what was read.
FromCopy(k) ==
    k.id \in DOMAIN rows[k.table] /\ changed[k.table][k.id] <= k.read =>
        \A f \in Columns[k.table] \ k.edited :
            \/ k.body[f] = rows[k.table][k.id][f]
            \/ /\ k.table = "agents" /\ f = "agent_id"
               /\ k.body[f] = WithPrefix[rows[k.table][k.id][f]]

CallFields ==
    {"from", "op", "table", "id", "body", "edited", "read", "pc", "status", "data", "ver"}

CallOK(k) ==
    /\ DOMAIN k = CallFields
    /\ k.from \in Callers /\ k.op \in Ops /\ k.table \in Tables
    /\ k.pc \in {"sent", "asking", "answered"}
    /\ k.status \in {0, 200, 201, 400, 404, 409, 500}
    /\ k.ver \in 0..clock
    /\ k.pc = "answered" => k.from \in Consoles
    /\ k.op = "list" => CopyOf(k.table, k.data, k.ver)
    /\ k.pc = "sent" /\ k.op \in {"create", "update"} => IsRow(k.table, k.body)
    /\ k.pc = "sent" /\ k.op = "update" => k.read \in 0..clock /\ FromCopy(k)

CallsOK == DOMAIN calls = Slots /\ \A n \in Slots : calls[n] # Free => CallOK(calls[n])

ListsOK ==
    /\ DOMAIN list = Consoles
    /\ \A c \in Consoles : DOMAIN list[c] = Tables
    /\ \A c \in Consoles, t \in Tables :
         list[c][t].ver \in 0..clock /\ CopyOf(t, list[c][t].rows, list[c][t].ver)

FormOK(m) ==
    /\ m.table \in Tables /\ m.id \in 0..MaxId /\ IsRow(m.table, m.copy)
    /\ m.read \in 0..clock
    /\ m.id # 0 => Fresh(m.table, m.id, m.copy, m.read)

FormsOK == DOMAIN form = Consoles /\ \A c \in Consoles : form[c] # NoRow => FormOK(form[c])

ConsolesOK ==
    /\ tab \in [Consoles -> Tabs \cup {Blank}]
    /\ budget \in 0..MaxClicks
    /\ reported \in [Consoles -> [Tables -> 0..clock]]
    /\ excused \in [Consoles -> SUBSET Tables]

\* A table of a console that is not excused is fetched at most once at a time,
\* and what the fetch has read is as new as the last change reported.
FetchOK(c, t) ==
    t \notin excused[c] =>
        /\ \A n, m \in Fetching(c, t) : n = m
        /\ \A n \in Fetching(c, t) : calls[n].pc # "sent" => calls[n].ver >= reported[c][t]
        /\ Fetching(c, t) = {} => list[c][t].ver >= reported[c][t]

FetchesOK == \A c \in Consoles, t \in Tables : FetchOK(c, t)

IInv ==
    StoreOK /\ CallsOK /\ ListsOK /\ FormsOK /\ ConsolesOK /\ FetchesOK

-----------------------------------------------------------------------------
(* Statements on the tables *)

\* A step dates every row it changes: a row that is not newer than the clock
\* was there before and is the same.
Dated ==
    /\ clock' \in {clock, clock + 1}
    /\ \A t \in Tables : \A i \in DOMAIN rows'[t] : changed'[t][i] <= clock =>
         /\ i \in DOMAIN rows[t] /\ rows'[t][i] = rows[t][i]
         /\ changed'[t][i] = changed[t][i]

\* What Touch does to the time stamps of the rows it names and of the others.
LEMMA Touches ==
    ASSUME TablesTyped, NEW t \in Tables, NEW ids, Touch(t, ids)
    PROVE  /\ clock' = clock + 1 /\ clock' \in Nat /\ DOMAIN changed' = Tables
           /\ \A u \in Tables : changed'[u] \in [1..MaxId -> 0..clock']
           /\ \A u \in Tables \ {t} : changed'[u] = changed[u]
           /\ \A i \in 1..MaxId : changed'[t][i] = IF i \in ids THEN clock + 1 ELSE changed[t][i]
<1>1. clock' = clock + 1 /\ clock' \in Nat
  BY DEF Touch, TablesTyped
<1>2. /\ DOMAIN changed' = Tables
      /\ \A u \in Tables \ {t} : changed'[u] = changed[u]
      /\ changed'[t] = [i \in 1..MaxId |-> IF i \in ids THEN clock + 1 ELSE changed[t][i]]
  BY DEF Touch, TablesTyped
<1>3. \A i \in 1..MaxId : changed'[t][i] = IF i \in ids THEN clock + 1 ELSE changed[t][i]
  BY <1>2
<1>4. \A u \in Tables : changed[u] \in [1..MaxId -> 0..clock] /\ clock \in Nat
  BY DEF TablesTyped
<1>5. \A u \in Tables \ {t} : changed'[u] \in [1..MaxId -> 0..clock']
  BY <1>1, <1>2, <1>4
<1>6. ASSUME NEW i \in 1..MaxId
      PROVE  changed'[t][i] \in 0..clock'
  <2>1. changed[t][i] \in 0..clock /\ clock \in Nat
    BY <1>4
  <2>2. clock + 1 \in 0..clock' /\ \A v \in 0..clock : v \in 0..clock'
    BY <1>1, <2>1
  <2> QED
    BY <1>3, <2>1, <2>2
<1>7. changed'[t] \in [1..MaxId -> 0..clock']
  BY <1>2, <1>6
<1> QED
  BY <1>1, <1>2, <1>3, <1>5, <1>7

\* An INSERT that breaks no constraint keeps the tables consistent.
LEMMA InsertOK ==
    ASSUME StoreOK, NEW t \in Tables, NEW row, IsRow(t, row), ~Clash(t, 0, row),
           t = "databases" => AgentExists(row.agent_id),
           nextId[t] <= MaxId, Insert(t, row)
    PROVE  StoreOK' /\ Dated
<1> DEFINE new == nextId[t]
<1>0. MaxId \in Nat
  BY StoreAssumption
<1>1. /\ DOMAIN rows' = Tables
      /\ \A u \in Tables \ {t} : rows'[u] = rows[u]
      /\ rows'[t] = With(rows[t], new, row)
  BY DEF StoreOK, TablesTyped, Insert
<1>2. /\ DOMAIN rows'[t] = DOMAIN rows[t] \cup {new}
      /\ rows'[t][new] = row
      /\ \A i \in DOMAIN rows[t] \ {new} : rows'[t][i] = rows[t][i]
  BY <1>1 DEF With
<1>3. /\ DOMAIN nextId' = Tables /\ nextId'[t] = new + 1
      /\ \A u \in Tables \ {t} : nextId'[u] = nextId[u]
  BY DEF StoreOK, TablesTyped, Insert
<1>4. new \in 1..MaxId /\ new \notin DOMAIN rows[t]
  BY <1>0 DEF StoreOK, TablesTyped
<1>5. Touch(t, {new}) /\ TablesTyped
  BY DEF Insert, StoreOK
<1>6. /\ clock' = clock + 1 /\ clock' \in Nat /\ DOMAIN changed' = Tables
      /\ \A u \in Tables : changed'[u] \in [1..MaxId -> 0..clock']
      /\ \A u \in Tables \ {t} : changed'[u] = changed[u]
      /\ \A i \in 1..MaxId : changed'[t][i] = IF i \in {new} THEN clock + 1 ELSE changed[t][i]
  BY <1>5, Touches
<1>7. TablesTyped'
  <2>1. \A u \in Tables : nextId'[u] \in 1..MaxId + 1
    <3>1. nextId'[t] \in 1..MaxId + 1
      BY <1>0, <1>3, <1>4
    <3> QED
      BY <1>3, <1>5, <3>1 DEF TablesTyped
  <2>2. \A u \in Tables : DOMAIN rows'[u] \subseteq 1..nextId'[u] - 1
    <3>1. \A u \in Tables \ {t} : DOMAIN rows'[u] \subseteq 1..nextId'[u] - 1
      BY <1>1, <1>3, <1>5 DEF TablesTyped
    <3>2. DOMAIN rows[t] \subseteq 1..new - 1
      BY <1>5 DEF TablesTyped
    <3>3. DOMAIN rows'[t] \subseteq 1..nextId'[t] - 1
      BY <1>2, <1>3, <1>4, <3>2
    <3> QED
      BY <3>1, <3>3
  <2>3. \A u \in Tables : \A i \in DOMAIN rows'[u] : IsRow(u, rows'[u][i])
    BY <1>1, <1>2, <1>5 DEF TablesTyped
  <2> QED
    BY <1>1, <1>3, <1>6, <2>1, <2>2, <2>3 DEF TablesTyped, IsRow
<1>8. TablesConsistent'
  <2>1. \A u \in Tables : \A i \in DOMAIN rows'[u] : \A j \in DOMAIN rows'[u] \ {i},
            f \in UniqueColumns[u] : rows'[u][j][f] # rows'[u][i][f]
    <3>1. \A u \in Tables : \A i \in DOMAIN rows[u] : \A j \in DOMAIN rows[u] \ {i},
              f \in UniqueColumns[u] : rows[u][j][f] # rows[u][i][f]
      BY DEF StoreOK, TablesConsistent, Clash
    <3>2. 0 \notin DOMAIN rows[t]
      BY <1>0, <1>5 DEF TablesTyped
    <3>3. \A j \in DOMAIN rows[t], f \in UniqueColumns[t] : rows[t][j][f] # row[f]
      BY <3>2 DEF Clash
    <3> QED
      BY <1>1, <1>2, <1>4, <3>1, <3>3
  <2>2. \A j \in DOMAIN rows["agents"] :
            j \in DOMAIN rows'["agents"] /\ rows'["agents"][j] = rows["agents"][j]
    BY <1>1, <1>2, <1>4 DEF Tables
  <2>3. \A i \in DOMAIN rows'["databases"] : \E j \in DOMAIN rows["agents"] :
            rows["agents"][j].agent_id = rows'["databases"][i].agent_id
    BY <1>1, <1>2, <1>4 DEF Tables, StoreOK, TablesConsistent, AgentExists
  <2> QED
    BY <2>1, <2>2, <2>3 DEF TablesConsistent, Clash, AgentExists
<1>9. Dated
  <2>1. \A i \in DOMAIN rows[t] : i \in 1..MaxId /\ i # new
    BY <1>0, <1>4, <1>5 DEF TablesTyped
  <2>2. \A i \in DOMAIN rows'[t] : changed'[t][i] <= clock => i # new
    BY <1>2, <1>4, <1>5, <1>6 DEF TablesTyped
  <2> QED
    BY <1>1, <1>2, <1>6, <2>1, <2>2 DEF Dated
<1> QED
  BY <1>7, <1>8, <1>9 DEF StoreOK

\* So does an UPDATE.  A database keeps an agent it refers to, because the
\* foreign key holds on to the id of an agent that is in use.
LEMMA SetRowOK ==
    ASSUME StoreOK, NEW t \in Tables, NEW i \in DOMAIN rows[t], NEW row, IsRow(t, row),
           ~Clash(t, i, row),
           t = "databases" => AgentExists(row.agent_id),
           t = "agents" => \/ row.agent_id = rows[t][i].agent_id
                           \/ UsedBy(rows[t][i].agent_id) = {},
           SetRow(t, i, row)
    PROVE  /\ StoreOK' /\ Dated
           /\ i \in DOMAIN rows'[t] /\ rows'[t][i] = row
<1>0. MaxId \in Nat
  BY StoreAssumption
<1>1. /\ DOMAIN rows' = Tables
      /\ \A u \in Tables \ {t} : rows'[u] = rows[u]
      /\ rows'[t] = [rows[t] EXCEPT ![i] = row]
  BY DEF StoreOK, TablesTyped, SetRow
<1>2. /\ DOMAIN rows'[t] = DOMAIN rows[t]
      /\ rows'[t][i] = row
      /\ \A j \in DOMAIN rows[t] \ {i} : rows'[t][j] = rows[t][j]
  BY <1>1
<1>3. nextId' = nextId /\ Touch(t, {i}) /\ TablesTyped
  BY DEF StoreOK, SetRow
<1>4. /\ clock' = clock + 1 /\ clock' \in Nat /\ DOMAIN changed' = Tables
      /\ \A u \in Tables : changed'[u] \in [1..MaxId -> 0..clock']
      /\ \A u \in Tables \ {t} : changed'[u] = changed[u]
      /\ \A j \in 1..MaxId : changed'[t][j] = IF j \in {i} THEN clock + 1 ELSE changed[t][j]
  BY <1>3, Touches
<1>5. TablesTyped'
  <2>1. \A u \in Tables : \A j \in DOMAIN rows'[u] : IsRow(u, rows'[u][j])
    BY <1>1, <1>2, <1>3 DEF TablesTyped
  <2>2. \A u \in Tables : DOMAIN rows'[u] = DOMAIN rows[u]
    BY <1>1, <1>2
  <2> QED
    BY <1>1, <1>3, <1>4, <2>1, <2>2 DEF TablesTyped, IsRow
<1>6. TablesConsistent'
  <2>1. \A u \in Tables : \A k \in DOMAIN rows'[u] : \A j \in DOMAIN rows'[u] \ {k},
            f \in UniqueColumns[u] : rows'[u][j][f] # rows'[u][k][f]
    <3>1. \A u \in Tables : \A k \in DOMAIN rows[u] : \A j \in DOMAIN rows[u] \ {k},
              f \in UniqueColumns[u] : rows[u][j][f] # rows[u][k][f]
      BY DEF StoreOK, TablesConsistent, Clash
    <3>2. \A j \in DOMAIN rows[t] \ {i}, f \in UniqueColumns[t] : rows[t][j][f] # row[f]
      BY DEF Clash
    <3> QED
      BY <1>1, <1>2, <3>1, <3>2
  <2>2. ASSUME NEW d \in DOMAIN rows'["databases"]
        PROVE  \E j \in DOMAIN rows'["agents"] :
                   rows'["agents"][j].agent_id = rows'["databases"][d].agent_id
    <3>0. {"agents", "databases"} \subseteq Tables /\ "agents" # "databases"
      BY DEF Tables
    <3>1. d \in DOMAIN rows["databases"]
      BY <1>1, <1>2, <3>0
    <3>2. PICK j \in DOMAIN rows["agents"] :
              rows["agents"][j].agent_id = rows["databases"][d].agent_id
      BY <3>1 DEF StoreOK, TablesConsistent, AgentExists
    <3>3. CASE t = "databases"
      <4>1. \E k \in DOMAIN rows["agents"] :
                rows["agents"][k].agent_id = rows'["databases"][d].agent_id
        BY <1>2, <3>1, <3>2, <3>3 DEF AgentExists
      <4> QED
        BY <1>1, <3>0, <3>3, <4>1
    <3>4. CASE t = "agents"
      <4>1. rows'["databases"][d] = rows["databases"][d] /\ DOMAIN rows'["agents"] = DOMAIN rows["agents"]
        BY <1>1, <1>2, <3>0, <3>4
      <4>2. rows'["agents"][j].agent_id = rows["agents"][j].agent_id
        BY <1>2, <3>1, <3>2, <3>4 DEF UsedBy
      <4> QED
        BY <3>2, <4>1, <4>2
    <3>5. CASE t \notin {"agents", "databases"}
      BY <1>1, <3>0, <3>2, <3>5
    <3> QED
      BY <3>3, <3>4, <3>5
  <2> QED
    BY <2>1, <2>2 DEF TablesConsistent, Clash, AgentExists
<1>7. Dated
  <2>1. \A j \in DOMAIN rows[t] : j \in 1..MaxId
    BY <1>0, <1>3 DEF TablesTyped
  <2>2. \A j \in DOMAIN rows'[t] : changed'[t][j] <= clock => j # i
    BY <1>2, <1>3, <1>4, <2>1 DEF TablesTyped
  <2> QED
    BY <1>1, <1>2, <1>4, <2>1, <2>2 DEF Dated
<1> QED
  BY <1>2, <1>5, <1>6, <1>7 DEF StoreOK

\* And a DELETE, which takes the databases of an agent along.
LEMMA DeleteRowOK ==
    ASSUME StoreOK, NEW t \in Tables, NEW i \in DOMAIN rows[t], DeleteRow(t, i)
    PROVE  StoreOK' /\ Dated
<1> DEFINE left(u) == IF u = t THEN DOMAIN rows[t] \ {i}
                      ELSE IF u = "databases" /\ t = "agents"
                      THEN DOMAIN rows[u] \ UsedBy(rows[t][i].agent_id)
                      ELSE DOMAIN rows[u]
<1>0. MaxId \in Nat
  BY StoreAssumption
<1>1. DOMAIN rows' = Tables
  BY DEF StoreOK, TablesTyped, DeleteRow
<1>2. ASSUME NEW u \in Tables
      PROVE  /\ DOMAIN rows'[u] = left(u)
             /\ \A j \in left(u) : rows'[u][j] = rows[u][j]
  <2>1. CASE u = t
    <3>1. rows'[u] = Without(rows[u], {i})
      BY <2>1 DEF DeleteRow
    <3> QED
      BY <2>1, <3>1 DEF Without
  <2>2. CASE u # t /\ u = "databases" /\ t = "agents"
    <3>1. rows'[u] = Without(rows[u], UsedBy(rows[t][i].agent_id))
      BY <2>2 DEF DeleteRow
    <3> QED
      BY <2>2, <3>1 DEF Without
  <2>3. CASE u # t /\ ~(u = "databases" /\ t = "agents")
    <3>1. rows'[u] = Without(rows[u], {})
      BY <2>3 DEF DeleteRow
    <3> QED
      BY <2>3, <3>1 DEF Without
  <2> QED
    BY <2>1, <2>2, <2>3
<1>3. nextId' = nextId /\ Touch(t, {i}) /\ TablesTyped
  BY DEF StoreOK, DeleteRow
<1>4. /\ clock' = clock + 1 /\ clock' \in Nat /\ DOMAIN changed' = Tables
      /\ \A u \in Tables : changed'[u] \in [1..MaxId -> 0..clock']
      /\ \A u \in Tables \ {t} : changed'[u] = changed[u]
      /\ \A j \in 1..MaxId : changed'[t][j] = IF j \in {i} THEN clock + 1 ELSE changed[t][j]
  BY <1>3, Touches
<1>5. \A u \in Tables : \A j \in DOMAIN rows'[u] :
          j \in DOMAIN rows[u] /\ rows'[u][j] = rows[u][j]
  BY <1>2
<1>6. TablesTyped'
  BY <1>1, <1>3, <1>4, <1>5 DEF TablesTyped, IsRow
<1>7. TablesConsistent'
  <2>1. \A u \in Tables : \A k \in DOMAIN rows'[u] : \A j \in DOMAIN rows'[u] \ {k},
            f \in UniqueColumns[u] : rows'[u][j][f] # rows'[u][k][f]
    <3>1. \A u \in Tables : \A k \in DOMAIN rows[u] : \A j \in DOMAIN rows[u] \ {k},
              f \in UniqueColumns[u] : rows[u][j][f] # rows[u][k][f]
      BY DEF StoreOK, TablesConsistent, Clash
    <3> QED
      BY <1>5, <3>1
  <2>2. ASSUME NEW d \in DOMAIN rows'["databases"]
        PROVE  \E j \in DOMAIN rows'["agents"] :
                   rows'["agents"][j].agent_id = rows'["databases"][d].agent_id
    <3>0. "agents" \in Tables /\ "databases" \in Tables /\ "agents" # "databases"
      BY DEF Tables
    <3>1. d \in DOMAIN rows["databases"] /\ rows'["databases"][d] = rows["databases"][d]
      BY <1>5, <3>0
    <3>2. PICK j \in DOMAIN rows["agents"] :
              rows["agents"][j].agent_id = rows["databases"][d].agent_id
      BY <3>1 DEF StoreOK, TablesConsistent, AgentExists
    <3>3. t = "agents" => d \notin UsedBy(rows[t][i].agent_id)
      BY <1>2, <3>0
    <3>4. t = "agents" => j # i
      BY <3>1, <3>2, <3>3 DEF UsedBy
    <3>5. j \in DOMAIN rows'["agents"]
      BY <1>2, <3>0, <3>2, <3>4
    <3> QED
      BY <1>5, <3>0, <3>1, <3>2, <3>5
  <2> QED
    BY <2>1, <2>2 DEF TablesConsistent, Clash, AgentExists
<1>8. Dated
  <2>1. \A j \in DOMAIN rows'[t] : j # i
    BY <1>2
  <2>2. \A j \in DOMAIN rows[t] : j \in 1..MaxId
    BY <1>0, <1>3 DEF TablesTyped
  <2> QED
    BY <1>1, <1>4, <1>5, <2>1, <2>2 DEF Dated
<1> QED
  BY <1>6, <1>7, <1>8 DEF StoreOK

-----------------------------------------------------------------------------
(* Handlers *)

\* The call in slot n has gone because nobody waits for it, or it is still the same call and has got
\* further, with what was read of the tables now or at its own SELECT.
Answers(n) ==
    /\ \A m \in Slots \ {n} : calls'[m] = calls[m]
    /\ DOMAIN calls' = Slots
    /\ calls'[n] = Free => calls[n].from = Api
    /\ calls'[n] # Free =>
         /\ DOMAIN calls'[n] = CallFields
         /\ calls'[n].from = calls[n].from /\ calls'[n].op = calls[n].op
         /\ calls'[n].table = calls[n].table
         /\ calls'[n].pc \in {"asking", "answered"}
         /\ calls'[n].pc = "answered" => calls'[n].from \in Consoles
         /\ calls'[n].status \in {0, 200, 201, 400, 404, 409, 500}
         /\ calls'[n].ver \in 0..clock'
         /\ calls'[n].ver >= clock \/ (calls[n].pc # "sent" /\ calls'[n].ver = calls[n].ver)
         /\ (calls[n].op = "list" => CopyOf(calls[n].table, calls[n].data, calls[n].ver))'

\* A slot whose call has got anywhere is not free.
LEMMA NotFree ==
    ASSUME NEW k, k.pc \in {"sent", "asking", "answered"}
    PROVE  k # Free
BY DEF Free

\* Reply answers a call, or forgets it when nobody waits.
LEMMA Replies ==
    ASSUME CallsOK, NEW n \in Slots, calls[n] # Free, calls[n].pc = "sent",
           NEW status \in {0, 200, 201, 400, 404, 409, 500}, NEW data,
           clock \in Nat, clock' \in {clock, clock + 1}, Reply(n, status, data),
           calls[n].op = "list" =>
             /\ DOMAIN data \subseteq 1..MaxId
             /\ \A i \in DOMAIN data :
                  /\ IsRow(calls[n].table, data[i])
                  /\ i \in DOMAIN rows'[calls[n].table] =>
                         rows'[calls[n].table][i] = data[i]
    PROVE  Answers(n) /\ (calls'[n] # Free => calls'[n].status = status)
<1>0. DOMAIN calls = Slots /\ CallOK(calls[n])
  BY DEF CallsOK
<1>1. DOMAIN calls = Slots /\ calls[n].from \in Consoles \cup {Api}
  <2>1. calls[n].from \in Callers
    BY <1>0 DEF CallOK
  <2> QED
    BY <1>0, <2>1, ConsoleAssumption
<1>2. /\ \A m \in Slots \ {n} : calls'[m] = calls[m]
      /\ DOMAIN calls' = Slots
      /\ calls'[n] = IF calls[n].from = Api THEN Free
                     ELSE Answer(calls[n], status, data, clock')
  BY <1>1 DEF Reply
<1>3. CASE calls[n].from = Api
  BY <1>2, <1>3 DEF Answers
<1>4. CASE calls[n].from # Api
  <2>1. calls'[n] = Answer(calls[n], status, data, clock')
    BY <1>2, <1>4
  <2>2. /\ calls'[n].from = calls[n].from /\ calls'[n].op = calls[n].op
        /\ calls'[n].table = calls[n].table /\ calls'[n].pc = "answered"
        /\ calls'[n].status = status /\ calls'[n].ver = clock' /\ calls'[n].data = data
        /\ DOMAIN calls'[n] = CallFields
    BY <2>1 DEF Answer, NewCall, CallFields
  <2>3. calls'[n].from \in Consoles
    BY <1>1, <1>4, <2>2
  <2>4. clock' \in 0..clock' /\ clock' >= clock
    OBVIOUS
  <2>5. (calls[n].op = "list" => CopyOf(calls[n].table, calls[n].data, calls[n].ver))'
    BY <2>2 DEF CopyOf, Fresh, IsRow
  <2> QED
    BY <1>2, <2>2, <2>3, <2>4, <2>5, NotFree DEF Answers
<1> QED
  BY <1>3, <1>4

\* A handler that only answers: what it refuses, and why, does not matter.
LEMMA Refusals ==
    ASSUME StoreOK, CallsOK, NEW n \in Slots, calls[n] # Free, calls[n].pc = "sent",
           NEW status \in {0, 200, 201, 400, 404, 409, 500}, Refuse(n, status)
    PROVE  /\ StoreOK' /\ Dated /\ rows' = rows
           /\ Answers(n) /\ (calls'[n] # Free => calls'[n].status = status)
<1>1. UNCHANGED storeVars /\ Reply(n, status, NoRow)
  BY DEF Refuse
<1>2. /\ rows' = rows /\ nextId' = nextId /\ clock' = clock /\ changed' = changed
  BY <1>1 DEF storeVars
<1>3. StoreOK' /\ Dated
  BY <1>2 DEF StoreOK, TablesTyped, TablesConsistent, AgentExists, Clash, IsRow, Dated
<1>4. DOMAIN NoRow = {}
  BY DEF NoRow
<1>5. clock \in Nat
  BY DEF StoreOK, TablesTyped
<1>6. Answers(n) /\ (calls'[n] # Free => calls'[n].status = status)
  BY <1>1, <1>2, <1>4, <1>5, Replies
<1> QED
  BY <1>2, <1>3, <1>6

\* UneditedColumnsKept, for the step that handles the call in slot n.
KeptBy(n) ==
    UpdateHandled(n) =>
        LET t == calls[n].table  i == calls[n].id IN
        i \in DOMAIN rows[t] => \A f \in Columns[t] :
           \/ rows'[t][i][f] = rows[t][i][f]
           \/ f \in calls[n].edited
           \/ changed[t][i] > calls[n].read
           \/ Prefixed(t, i, f)

Serves(n) == StoreOK' /\ Dated /\ Answers(n) /\ KeptBy(n)

\* An update that is refused leaves the row as it is.
LEMMA UpdateRefused ==
    ASSUME StoreOK, CallsOK, NEW n \in Slots, calls[n] # Free, calls[n].pc = "sent",
           NEW status \in {200, 400, 404, 409, 500}, Refuse(n, status)
    PROVE  Serves(n)
<1>1. StoreOK' /\ Dated /\ rows' = rows /\ Answers(n)
  BY Refusals
<1>2. KeptBy(n)
  BY <1>1 DEF KeptBy
<1> QED
  BY <1>1, <1>2 DEF Serves

\* What a handler makes of row i by an update: the columns sent, or for users
\* and agents those of them that are not empty.
UpdatedRow(t, i, body, row) ==
    /\ IsRow(t, row)
    /\ \A f \in Columns[t] :
         \/ row[f] = body[f]
         \/ t # "databases" /\ body[f] = "" /\ row[f] = rows[t][i][f]

\* An update that is done is what was sent, and a column that was not typed
\* into keeps its value if the row has not changed since it was read.
LEMMA UpdateDone ==
    ASSUME StoreOK, CallsOK, NEW n \in Slots, NEW t \in Tables, Asked(n, "update", t),
           NEW row, UpdatedRow(t, calls[n].id, calls[n].body, row),
           calls[n].id \in DOMAIN rows[t],
           ~Clash(t, calls[n].id, row),
           t = "databases" => AgentExists(row.agent_id),
           t = "agents" => \/ row.agent_id = rows[t][calls[n].id].agent_id
                           \/ UsedBy(rows[t][calls[n].id].agent_id) = {},
           SetRow(t, calls[n].id, row), Reply(n, 200, NoRow)
    PROVE  Serves(n)
<1> DEFINE i == calls[n].id
<1>1. calls[n] # Free /\ calls[n].pc = "sent" /\ calls[n].op = "update" /\ calls[n].table = t
  BY DEF Asked
<1>2. StoreOK' /\ Dated /\ i \in DOMAIN rows'[t] /\ rows'[t][i] = row
  BY SetRowOK DEF UpdatedRow
<1>3. clock \in Nat /\ clock' \in {clock, clock + 1}
  BY <1>2 DEF StoreOK, TablesTyped, Dated
<1>4. Answers(n)
  BY <1>1, <1>3, Replies
<1>5. KeptBy(n)
  <2> SUFFICES ASSUME NEW f \in Columns[t], f \notin calls[n].edited,
                      ~(changed[t][i] > calls[n].read)
               PROVE  rows'[t][i][f] = rows[t][i][f] \/ Prefixed(t, i, f)
    BY <1>1 DEF KeptBy
  <2>1. CallOK(calls[n])
    BY <1>1 DEF CallsOK
  <2>2. FromCopy(calls[n]) /\ calls[n].read \in 0..clock
    BY <1>1, <2>1 DEF CallOK
  <2>3. changed[t][i] <= calls[n].read
    <3>1. i \in 1..MaxId
      BY StoreAssumption DEF StoreOK, TablesTyped
    <3>2. changed[t][i] \in 0..clock
      BY <3>1 DEF StoreOK, TablesTyped
    <3> QED
      BY <2>2, <3>2, <1>3
  <2>4. \/ calls[n].body[f] = rows[t][i][f]
        \/ /\ t = "agents" /\ f = "agent_id"
           /\ calls[n].body[f] = WithPrefix[rows[t][i][f]]
    BY <1>1, <2>2, <2>3 DEF FromCopy
  <2>5. row[f] = calls[n].body[f] \/ row[f] = rows[t][i][f]
    BY DEF UpdatedRow
  <2> QED
    BY <1>2, <2>4, <2>5 DEF Prefixed
<1> QED
  BY <1>2, <1>4, <1>5 DEF Serves

\* A handler that does not serve an update has nothing to do with KeptBy.
LEMMA NoUpdate ==
    ASSUME NEW n, calls[n].op # "update" \/ calls[n].pc # "sent", StoreOK', Dated, Answers(n)
    PROVE  Serves(n)
<1>1. ~UpdateHandled(n)
  BY DEF UpdateHandled
<1> QED
  BY <1>1 DEF Serves, KeptBy

\* A handler that only reads keeps the tables.
LEMMA TablesKept ==
    ASSUME StoreOK, UNCHANGED storeVars
    PROVE  /\ StoreOK' /\ Dated /\ rows' = rows /\ changed' = changed /\ clock' = clock
           /\ clock \in Nat
<1>1. /\ rows' = rows /\ nextId' = nextId /\ clock' = clock /\ changed' = changed
  BY DEF storeVars
<1>2. StoreOK' /\ Dated
  BY <1>1 DEF StoreOK, TablesTyped, TablesConsistent, AgentExists, Clash, IsRow, Dated
<1> QED
  BY <1>1, <1>2 DEF StoreOK, TablesTyped

\* The whole of a table is a copy of it.
LEMMA WholeTable ==
    ASSUME TablesTyped, NEW t \in Tables
    PROVE  DOMAIN rows[t] \subseteq 1..MaxId /\ \A i \in DOMAIN rows[t] : IsRow(t, rows[t][i])
<1>1. MaxId \in Nat /\ nextId[t] \in 1..MaxId + 1 /\ DOMAIN rows[t] \subseteq 1..nextId[t] - 1
  BY StoreAssumption DEF TablesTyped
<1>2. 1..nextId[t] - 1 \subseteq 1..MaxId
  BY <1>1
<1> QED
  BY <1>1, <1>2 DEF TablesTyped

\* The handlers that read.
LEMMA ReadersServe ==
    ASSUME StoreOK, CallsOK, NEW n \in Slots
    PROVE  /\ \A t \in Tables : HandleList(n, t) \/ HandleGet(n, t) => Serves(n)
           /\ SelectAgents(n) \/ AskGateway(n) => Serves(n)
<1>1. ASSUME NEW t \in Tables, HandleList(n, t)
      PROVE  Serves(n)
  <2>1. /\ calls[n] # Free /\ calls[n].pc = "sent" /\ calls[n].op = "list" /\ calls[n].table = t
        /\ UNCHANGED storeVars /\ Reply(n, 200, rows[t])
    BY <1>1 DEF HandleList, Asked
  <2>2. /\ StoreOK' /\ Dated /\ rows' = rows /\ clock' = clock /\ clock \in Nat
    BY <2>1, TablesKept
  <2>3. DOMAIN rows[t] \subseteq 1..MaxId /\ \A i \in DOMAIN rows[t] : IsRow(t, rows[t][i])
    BY WholeTable DEF StoreOK
  <2>4. Answers(n)
    <3>1. PICK data : data = rows[t]
      OBVIOUS
    <3>2. /\ DOMAIN data \subseteq 1..MaxId
          /\ \A i \in DOMAIN data : /\ IsRow(calls[n].table, data[i])
                                    /\ i \in DOMAIN rows'[calls[n].table] =>
                                           rows'[calls[n].table][i] = data[i]
      BY <2>1, <2>2, <2>3, <3>1
    <3> QED
      BY <2>1, <2>2, <3>1, <3>2, Replies
  <2> QED
    BY <2>1, <2>2, <2>4, NoUpdate
<1>2. ASSUME NEW t \in Tables, HandleGet(n, t)
      PROVE  Serves(n)
  <2>1. calls[n] # Free /\ calls[n].pc = "sent" /\ calls[n].op = "get"
    BY <1>2 DEF HandleGet, Asked
  <2>2. CASE Refuse(n, 404)
    BY <2>1, <2>2, Refusals, NoUpdate
  <2>3. CASE /\ UNCHANGED storeVars
             /\ Reply(n, 200, With(NoRow, calls[n].id, rows[t][calls[n].id]))
    <3>1. StoreOK' /\ Dated /\ clock' = clock /\ clock \in Nat
      BY <2>3, TablesKept
    <3>2. Answers(n)
      BY <2>1, <2>3, <3>1, Replies
    <3> QED
      BY <2>1, <3>1, <3>2, NoUpdate
  <2> QED
    BY <1>2, <2>2, <2>3 DEF HandleGet
<1>3. ASSUME SelectAgents(n)
      PROVE  Serves(n)
  <2>1. /\ calls[n] # Free /\ calls[n].pc = "sent" /\ calls[n].table = "agents"
        /\ calls[n].op \in {"list", "get"}
    BY <1>3 DEF SelectAgents, Asked
  <2>2. CASE Refuse(n, 404)
    BY <2>1, <2>2, Refusals, NoUpdate
  <2>3. ASSUME NEW data, UNCHANGED storeVars,
               calls[n].op = "list" => data = rows["agents"],
               calls' = [calls EXCEPT ![n].pc = "asking", ![n].ver = clock, ![n].data = data]
        PROVE  Serves(n)
    <3>1. /\ StoreOK' /\ Dated /\ rows' = rows /\ clock' = clock /\ clock \in Nat
      BY <2>3, TablesKept
    <3>2. DOMAIN calls = Slots /\ CallOK(calls[n])
      BY <2>1 DEF CallsOK
    <3>3. /\ \A m \in Slots \ {n} : calls'[m] = calls[m]
          /\ DOMAIN calls' = Slots
          /\ calls'[n] = [calls[n] EXCEPT !.pc = "asking", !.ver = clock, !.data = data]
      BY <2>3, <3>2
    <3>4. /\ calls'[n].from = calls[n].from /\ calls'[n].op = calls[n].op
          /\ calls'[n].table = calls[n].table /\ calls'[n].status = calls[n].status
      BY <3>3
    <3>5. /\ calls'[n].pc = "asking" /\ calls'[n].ver = clock /\ calls'[n].data = data
          /\ DOMAIN calls'[n] = CallFields
      <4>1. DOMAIN calls[n] = CallFields
        BY <3>2 DEF CallOK
      <4> QED
        BY <3>3, <4>1 DEF CallFields
    <3>6. calls'[n].status \in {0, 200, 201, 400, 404, 409, 500}
      BY <3>2, <3>4 DEF CallOK
    <3>7. (calls[n].op = "list" => CopyOf(calls[n].table, calls[n].data, calls[n].ver))'
      <4>1. "agents" \in Tables
        BY DEF Tables
      <4>2. /\ DOMAIN rows["agents"] \subseteq 1..MaxId
            /\ \A i \in DOMAIN rows["agents"] : IsRow("agents", rows["agents"][i])
        BY <4>1, WholeTable DEF StoreOK
      <4>3. ASSUME calls[n].op = "list"
            PROVE  CopyOf(calls[n].table, calls[n].data, calls[n].ver)'
        <5>1. data = rows["agents"] /\ rows' = rows
          BY <2>3, <3>1, <4>3
        <5>2. calls'[n].data = rows["agents"] /\ calls'[n].table = "agents"
          BY <2>1, <3>4, <3>5, <5>1
        <5> QED
          BY <4>2, <5>1, <5>2 DEF CopyOf, Fresh, IsRow
      <4> QED
        BY <3>4, <4>3
    <3>8. calls'[n] # Free /\ calls'[n].ver \in 0..clock' /\ calls'[n].ver >= clock
      BY <3>1, <3>5, NotFree
    <3>9. Answers(n)
      BY <3>3, <3>4, <3>5, <3>6, <3>7, <3>8 DEF Answers
    <3> QED
      BY <2>1, <3>1, <3>9, NoUpdate
  <2> QED
    BY <1>3, <2>1, <2>2, <2>3 DEF SelectAgents, Asked
<1>4. ASSUME AskGateway(n)
      PROVE  Serves(n)
  <2>1. calls[n] # Free /\ calls[n].pc = "asking" /\ UNCHANGED storeVars
    BY <1>4 DEF AskGateway
  <2>2. /\ StoreOK' /\ Dated /\ rows' = rows /\ changed' = changed /\ clock' = clock
        /\ clock \in Nat
    BY <2>1, TablesKept
  <2>3. DOMAIN calls = Slots /\ CallOK(calls[n])
    BY <2>1 DEF CallsOK
  <2>4. /\ \A m \in Slots \ {n} : calls'[m] = calls[m]
        /\ DOMAIN calls' = Slots
        /\ calls'[n] = IF calls[n].from = Api THEN Free
                       ELSE Answer(calls[n], 200, calls[n].data, calls[n].ver)
    BY <1>4, <2>3 DEF AskGateway
  <2>5. CASE calls[n].from = Api
    <3>1. Answers(n)
      BY <2>4, <2>5 DEF Answers
    <3> QED
      BY <2>1, <2>2, <3>1, NoUpdate
  <2>6. CASE calls[n].from # Api
    <3>1. calls'[n] = Answer(calls[n], 200, calls[n].data, calls[n].ver)
      BY <2>4, <2>6
    <3>2. /\ calls'[n].from = calls[n].from /\ calls'[n].op = calls[n].op
          /\ calls'[n].table = calls[n].table /\ calls'[n].pc = "answered"
          /\ calls'[n].status = 200 /\ calls'[n].ver = calls[n].ver
          /\ calls'[n].data = calls[n].data /\ DOMAIN calls'[n] = CallFields
      BY <3>1 DEF Answer, NewCall, CallFields
    <3>3. calls'[n].from \in Consoles
      BY <2>3, <2>6, <3>2, ConsoleAssumption DEF CallOK
    <3>4. calls[n].ver \in 0..clock
      BY <2>3 DEF CallOK
    <3>5. (calls[n].op = "list" => CopyOf(calls[n].table, calls[n].data, calls[n].ver))'
      BY <2>2, <2>3, <3>2 DEF CallOK, CopyOf, Fresh, IsRow
    <3>6. Answers(n)
      BY <2>1, <2>2, <2>4, <3>2, <3>3, <3>4, <3>5, NotFree DEF Answers
    <3> QED
      BY <2>1, <2>2, <3>6, NoUpdate
  <2> QED
    BY <2>5, <2>6
<1> QED
  BY <1>1, <1>2, <1>3, <1>4

\* A handler that creates a row.
LEMMA CreateDone ==
    ASSUME StoreOK, CallsOK, NEW n \in Slots, NEW t \in Tables, Asked(n, "create", t),
           ~Clash(t, 0, calls[n].body),
           t = "databases" => AgentExists(calls[n].body.agent_id),
           nextId[t] <= MaxId, Insert(t, calls[n].body), Reply(n, 201, NoRow)
    PROVE  Serves(n)
<1>1. calls[n] # Free /\ calls[n].pc = "sent" /\ calls[n].op = "create" /\ calls[n].table = t
  BY DEF Asked
<1>2. IsRow(t, calls[n].body)
  <2>1. CallOK(calls[n])
    BY <1>1 DEF CallsOK
  <2> QED
    BY <1>1, <2>1 DEF CallOK
<1>3. PICK row : row = calls[n].body
  OBVIOUS
<1>4. StoreOK' /\ Dated
  BY <1>2, <1>3, InsertOK
<1>5. clock \in Nat /\ clock' \in {clock, clock + 1}
  BY <1>4 DEF StoreOK, TablesTyped, Dated
<1>6. Answers(n)
  BY <1>1, <1>5, Replies
<1> QED
  BY <1>1, <1>4, <1>6, NoUpdate

\* The handlers that create.
LEMMA CreatorsServe ==
    ASSUME StoreOK, CallsOK, NEW n \in Slots,
           HandleCreateUser(n) \/ HandleCreateAgent(n) \/ HandleCreateDatabase(n)
    PROVE  Serves(n)
<1>0. "users" \in Tables /\ "agents" \in Tables /\ "databases" \in Tables
  BY DEF Tables
<1>1. ASSUME NEW t \in Tables, Asked(n, "create", t),
             NEW status \in {400, 409, 500}, Refuse(n, status)
      PROVE  Serves(n)
  <2>1. calls[n] # Free /\ calls[n].pc = "sent" /\ calls[n].op = "create"
    BY <1>1 DEF Asked
  <2> QED
    BY <1>1, <2>1, Refusals, NoUpdate
<1>2. CASE HandleCreateUser(n)
  <2>1. Asked(n, "create", "users")
    BY <1>2 DEF HandleCreateUser
  <2>2. CASE Refuse(n, 400)
    BY <1>0, <1>1, <2>1, <2>2
  <2>3. CASE /\ ~Clash("users", 0, calls[n].body) /\ nextId["users"] <= MaxId
             /\ Insert("users", calls[n].body) /\ Reply(n, 201, NoRow)
    BY <1>0, <2>1, <2>3, CreateDone
  <2> QED
    BY <1>2, <2>2, <2>3 DEF HandleCreateUser
<1>3. CASE HandleCreateAgent(n)
  <2>1. Asked(n, "create", "agents")
    BY <1>3 DEF HandleCreateAgent
  <2>2. CASE Refuse(n, 400)
    BY <1>0, <1>1, <2>1, <2>2
  <2>3. CASE /\ ~Clash("agents", 0, calls[n].body) /\ nextId["agents"] <= MaxId
             /\ Insert("agents", calls[n].body) /\ Reply(n, 201, NoRow)
    BY <1>0, <2>1, <2>3, CreateDone
  <2> QED
    BY <1>3, <2>2, <2>3 DEF HandleCreateAgent
<1>4. CASE HandleCreateDatabase(n)
  <2>1. Asked(n, "create", "databases")
    BY <1>4 DEF HandleCreateDatabase
  <2>2. CASE Refuse(n, 400) \/ Refuse(n, 409) \/ Refuse(n, 500)
    BY <1>0, <1>1, <2>1, <2>2
  <2>3. CASE /\ ~Clash("databases", 0, calls[n].body) /\ AgentExists(calls[n].body.agent_id)
             /\ nextId["databases"] <= MaxId
             /\ Insert("databases", calls[n].body) /\ Reply(n, 201, NoRow)
    BY <1>0, <2>1, <2>3, CreateDone
  <2> QED
    BY <1>4, <2>2, <2>3 DEF HandleCreateDatabase
<1> QED
  BY <1>2, <1>3, <1>4

\* The handlers that update.
LEMMA UpdatersServe ==
    ASSUME StoreOK, CallsOK, NEW n \in Slots,
           HandleUpdateUser(n) \/ HandleUpdateAgent(n) \/ HandleUpdateDatabase(n)
    PROVE  Serves(n)
<1> DEFINE i == calls[n].id
           body == calls[n].body
<1>0. "users" \in Tables /\ "agents" \in Tables /\ "databases" \in Tables
  BY DEF Tables
<1>1. ASSUME NEW t \in Tables, Asked(n, "update", t),
             NEW status \in {400, 404, 409, 500}, Refuse(n, status)
      PROVE  Serves(n)
  <2>1. calls[n] # Free /\ calls[n].pc = "sent" /\ status # 200
    BY <1>1 DEF Asked
  <2> QED
    BY <1>1, <2>1, UpdateRefused
<1>2. CASE HandleUpdateUser(n)
  <2> DEFINE row == Patched("users", i, body)
  <2>1. Asked(n, "update", "users")
    BY <1>2 DEF HandleUpdateUser
  <2>2. CASE Refuse(n, 400) \/ Refuse(n, 404)
    BY <1>0, <1>1, <2>1, <2>2
  <2>3. CASE /\ Has("users", i) /\ ~Clash("users", i, row)
             /\ SetRow("users", i, row) /\ Reply(n, 200, NoRow)
    <3>1. UpdatedRow("users", i, body, row)
      BY DEF UpdatedRow, Patched, IsRow
    <3>2. i \in DOMAIN rows["users"]
      BY <2>3 DEF Has
    <3> HIDE DEF row
    <3> QED
      BY <1>0, <2>1, <2>3, <3>1, <3>2, UpdateDone
  <2> QED
    BY <1>2, <2>2, <2>3 DEF HandleUpdateUser
<1>3. CASE HandleUpdateAgent(n)
  <2> DEFINE row == Patched("agents", i, body)
             old == rows["agents"][i].agent_id
  <2>1. Asked(n, "update", "agents")
    BY <1>3 DEF HandleUpdateAgent
  <2>2. CASE Refuse(n, 400) \/ Refuse(n, 404)
    BY <1>0, <1>1, <2>1, <2>2
  <2>3. CASE /\ Has("agents", i) /\ ~Clash("agents", i, row)
             /\ row.agent_id = old \/ UsedBy(old) = {}
             /\ SetRow("agents", i, row) /\ Reply(n, 200, NoRow)
    <3>1. UpdatedRow("agents", i, body, row)
      BY DEF UpdatedRow, Patched, IsRow
    <3>2. i \in DOMAIN rows["agents"]
      BY <2>3 DEF Has
    <3> HIDE DEF row
    <3> QED
      BY <1>0, <2>1, <2>3, <3>1, <3>2, UpdateDone
  <2> QED
    BY <1>3, <2>2, <2>3 DEF HandleUpdateAgent
<1>4. CASE HandleUpdateDatabase(n)
  <2>1. Asked(n, "update", "databases")
    BY <1>4 DEF HandleUpdateDatabase
  <2>2. CASE Refuse(n, 400) \/ Refuse(n, 409) \/ Refuse(n, 500)
    BY <1>0, <1>1, <2>1, <2>2
  <2>3. CASE ~Has("databases", i) /\ Refuse(n, 200)
    <3>1. /\ calls[n] # Free /\ calls[n].pc = "sent" /\ calls[n].table = "databases"
          /\ i \notin DOMAIN rows[calls[n].table]
      BY <2>1, <2>3 DEF Asked, Has
    <3> QED
      BY <2>3, <3>1, UpdateRefused
  <2>4. CASE /\ Has("databases", i) /\ ~Clash("databases", i, body)
             /\ AgentExists(body.agent_id)
             /\ SetRow("databases", i, body) /\ Reply(n, 200, NoRow)
    <3>1. CallOK(calls[n]) /\ calls[n].op = "update" /\ calls[n].pc = "sent"
               /\ calls[n].table = "databases"
      BY <2>1 DEF Asked, CallsOK
    <3>2. UpdatedRow("databases", i, body, body)
      BY <3>1 DEF UpdatedRow, CallOK
    <3>3. i \in DOMAIN rows["databases"]
      BY <2>4 DEF Has
    <3>4. PICK row : row = body
      OBVIOUS
    <3> QED
      BY <1>0, <2>1, <2>4, <3>2, <3>3, <3>4, UpdateDone
  <2> QED
    BY <1>4, <2>2, <2>3, <2>4 DEF HandleUpdateDatabase
<1> QED
  BY <1>2, <1>3, <1>4

\* The handlers that delete.
LEMMA DeletersServe ==
    ASSUME StoreOK, CallsOK, NEW n \in Slots,
           HandleDeleteDatabase(n) \/ \E t \in Tables : HandleDelete(n, t)
    PROVE  Serves(n)
<1>0. "databases" \in Tables
  BY DEF Tables
<1>1. PICK t \in Tables : HandleDelete(n, t) \/ (t = "databases" /\ HandleDeleteDatabase(n))
  BY <1>0
<1>2. calls[n] # Free /\ calls[n].pc = "sent" /\ calls[n].op = "delete" /\ calls[n].table = t
  BY <1>1 DEF HandleDelete, HandleDeleteDatabase, Asked
<1>3. CASE Refuse(n, 404) \/ Refuse(n, 200)
  BY <1>2, <1>3, Refusals, NoUpdate
<1>4. CASE Has(t, calls[n].id) /\ DeleteRow(t, calls[n].id) /\ Reply(n, 200, NoRow)
  <2>1. PICK i : i = calls[n].id
    OBVIOUS
  <2>2. i \in DOMAIN rows[t] /\ DeleteRow(t, i)
    BY <1>4, <2>1 DEF Has
  <2>3. StoreOK' /\ Dated
    BY <2>2, DeleteRowOK
  <2>4. clock \in Nat /\ clock' \in {clock, clock + 1}
    BY <2>3 DEF StoreOK, TablesTyped, Dated
  <2>5. Answers(n)
    BY <1>2, <1>4, <2>4, Replies
  <2> QED
    BY <1>2, <2>3, <2>5, NoUpdate
<1> QED
  BY <1>1, <1>3, <1>4 DEF HandleDelete, HandleDeleteDatabase

\* Every handler keeps the tables consistent, dates what it changes, answers
\* its own call, and does to a row what an update may do.
LEMMA HandlersServe ==
    ASSUME StoreOK, CallsOK, NEW n \in Slots, Handle(n)
    PROVE  calls[n] # Free /\ Serves(n)
<1>1. ASSUME NEW t \in Tables, RejectMalformed(n, t) \/ StatementFails(n, t)
      PROVE  Serves(n)
  <2>1. CASE RejectMalformed(n, t)
    <3>1. calls[n] # Free /\ calls[n].pc = "sent" /\ Refuse(n, 400)
      BY <2>1 DEF RejectMalformed, Asked
    <3> QED
      BY <3>1, UpdateRefused
  <2>2. CASE StatementFails(n, t)
    <3>1. PICK op \in Ops : Asked(n, op, t) /\ Refuse(n, FailStatus(op, t))
      BY <2>2 DEF StatementFails
    <3>2. PICK status : status = FailStatus(op, t)
      OBVIOUS
    <3>3. status \in {400, 404, 500}
      BY <3>2 DEF FailStatus
    <3>4. calls[n] # Free /\ calls[n].pc = "sent" /\ Refuse(n, status) /\ status # 200
      BY <3>1, <3>2, <3>3 DEF Asked
    <3> QED
      BY <3>3, <3>4, UpdateRefused
  <2> QED
    BY <1>1, <2>1, <2>2
<1>2. Serves(n)
  BY <1>1, ReadersServe, CreatorsServe, UpdatersServe, DeletersServe DEF Handle
<1>3. calls[n] # Free
  BY DEF Handle, RejectMalformed, StatementFails, HandleList, HandleGet, HandleDelete,
         SelectAgents, AskGateway, HandleCreateUser, HandleCreateAgent, HandleCreateDatabase,
         HandleUpdateUser, HandleUpdateAgent, HandleUpdateDatabase, HandleDeleteDatabase, Asked
<1> QED
  BY <1>2, <1>3

-----------------------------------------------------------------------------
(* What was read before a step *)

\* What is as new as the table stays so: a row that changes gets a later date.
LEMMA FreshKept ==
    ASSUME StoreOK, StoreOK', Dated, NEW t \in Tables, NEW i, NEW row, NEW ver,
           ver \in 0..clock, Fresh(t, i, row, ver)
    PROVE  Fresh(t, i, row, ver)'
<1>1. clock \in Nat
  BY DEF StoreOK, TablesTyped
<1>2. SUFFICES ASSUME i \in DOMAIN rows'[t], changed'[t][i] <= ver
               PROVE  rows'[t][i] = row
  BY DEF Fresh
<1>3. changed'[t][i] \in Nat
  <2>1. TablesTyped' /\ MaxId \in Nat
    BY StoreAssumption DEF StoreOK
  <2>2. DOMAIN rows'[t] \subseteq 1..MaxId
    BY <2>1 DEF TablesTyped
  <2>3. changed'[t] \in [1..MaxId -> 0..clock'] /\ clock' \in Nat
    BY <2>1 DEF TablesTyped
  <2>4. i \in 1..MaxId
    BY <1>2, <2>2
  <2>5. changed'[t][i] \in 0..clock'
    BY <2>3, <2>4
  <2> QED
    BY <2>3, <2>5
<1>4. changed'[t][i] <= clock
  BY <1>1, <1>2, <1>3
<1>5. i \in DOMAIN rows[t] /\ rows'[t][i] = rows[t][i] /\ changed'[t][i] = changed[t][i]
  BY <1>2, <1>4 DEF Dated
<1> QED
  BY <1>2, <1>5 DEF Fresh

\* So a copy of a table stays one.
LEMMA CopiesKept ==
    ASSUME StoreOK, StoreOK', Dated, NEW t \in Tables, NEW rs, NEW ver, ver \in 0..clock,
           CopyOf(t, rs, ver)
    PROVE  CopyOf(t, rs, ver)' /\ ver \in 0..clock'
<1>1. clock \in Nat /\ clock' \in {clock, clock + 1}
  BY DEF StoreOK, TablesTyped, Dated
<1>2. ASSUME NEW i \in DOMAIN rs
      PROVE  Fresh(t, i, rs[i], ver)'
  <2>1. Fresh(t, i, rs[i], ver)
    BY DEF CopyOf
  <2>2. PICK row : row = rs[i]
    OBVIOUS
  <2>3. Fresh(t, i, row, ver)
    BY <2>1, <2>2
  <2>4. Fresh(t, i, row, ver)'
    BY <2>3, FreshKept
  <2> QED
    BY <2>2, <2>4
<1>3. ver \in 0..clock'
  BY <1>1
<1> QED
  BY <1>2, <1>3 DEF CopyOf, IsRow

\* A call that stays as it is remains correct.
LEMMA CallKept ==
    ASSUME StoreOK, StoreOK', Dated, NEW k, CallOK(k)
    PROVE  CallOK(k)'
<1>1. clock \in Nat /\ clock' \in {clock, clock + 1}
  BY DEF StoreOK, TablesTyped, Dated
<1>2. k.table \in Tables /\ k.ver \in 0..clock /\ k.ver \in 0..clock'
  BY <1>1 DEF CallOK
<1>3. ASSUME k.op = "list"
      PROVE  CopyOf(k.table, k.data, k.ver)'
  <2>1. PICK t, rs, ver : t = k.table /\ rs = k.data /\ ver = k.ver
    OBVIOUS
  <2>2. CopyOf(t, rs, ver) /\ t \in Tables /\ ver \in 0..clock
    BY <1>2, <1>3, <2>1 DEF CallOK
  <2>3. CopyOf(t, rs, ver)'
    BY <2>2, CopiesKept
  <2> QED
    BY <2>1, <2>3
<1>4. ASSUME k.pc = "sent", k.op = "update"
      PROVE  k.read \in 0..clock' /\ FromCopy(k)'
  <2>1. k.read \in 0..clock /\ FromCopy(k)
    BY <1>4 DEF CallOK
  <2>2. k.read \in 0..clock'
    BY <1>1, <2>1
  <2>3. PICK t, i, ver : t = k.table /\ i = k.id /\ ver = k.read
    OBVIOUS
  <2>4. PICK row : row = rows[t][i]
    OBVIOUS
  <2>5. Fresh(t, i, row, ver)
    BY <2>4 DEF Fresh
  <2>6. Fresh(t, i, row, ver)'
    BY <1>2, <2>1, <2>3, <2>5, FreshKept
  <2>7. ASSUME i \in DOMAIN rows'[t], changed'[t][i] <= ver
        PROVE  i \in DOMAIN rows[t] /\ changed[t][i] <= ver /\ rows'[t][i] = rows[t][i]
    <3>1. TablesTyped' /\ MaxId \in Nat /\ t \in Tables
      BY <1>2, <2>3, StoreAssumption DEF StoreOK
    <3>2. DOMAIN rows'[t] \subseteq 1..MaxId
      BY <3>1 DEF TablesTyped
    <3>3. changed'[t] \in [1..MaxId -> 0..clock'] /\ clock' \in Nat
      BY <3>1 DEF TablesTyped
    <3>4. changed'[t][i] \in Nat
      <4>1. i \in 1..MaxId
        BY <2>7, <3>2
      <4>2. changed'[t][i] \in 0..clock'
        BY <3>3, <4>1
      <4> QED
        BY <3>3, <4>2
    <3>5. changed'[t][i] <= clock
      BY <1>1, <2>1, <2>3, <2>7, <3>4
    <3> QED
      BY <2>7, <3>1, <3>5 DEF Dated
  <2>8. FromCopy(k)'
    BY <2>1, <2>3, <2>7 DEF FromCopy
  <2> QED
    BY <2>2, <2>8
<1> QED
  BY <1>2, <1>3, <1>4 DEF CallOK, IsRow

\* So does an open form.
LEMMA FormKept ==
    ASSUME StoreOK, StoreOK', Dated, NEW m, FormOK(m)
    PROVE  FormOK(m)'
<1>1. clock \in Nat /\ clock' \in {clock, clock + 1}
  BY DEF StoreOK, TablesTyped, Dated
<1>2. m.table \in Tables /\ m.read \in 0..clock /\ m.read \in 0..clock'
  BY <1>1 DEF FormOK
<1>3. ASSUME m.id # 0
      PROVE  Fresh(m.table, m.id, m.copy, m.read)'
  <2>1. PICK t, i, row, ver : t = m.table /\ i = m.id /\ row = m.copy /\ ver = m.read
    OBVIOUS
  <2>2. Fresh(t, i, row, ver) /\ t \in Tables /\ ver \in 0..clock
    BY <1>2, <1>3, <2>1 DEF FormOK
  <2>3. Fresh(t, i, row, ver)'
    BY <2>2, FreshKept
  <2> QED
    BY <2>1, <2>3
<1> QED
  BY <1>2, <1>3 DEF FormOK, IsRow

-----------------------------------------------------------------------------
(* The parts of the invariant *)

\* Calls outside N stay, and those in N are correct: so all are.
LEMMA CallsStep ==
    ASSUME StoreOK, StoreOK', Dated, CallsOK, NEW N, DOMAIN calls' = Slots,
           \A m \in Slots \ N : calls'[m] = calls[m],
           \A n \in N : calls'[n] # Free => CallOK(calls[n])'
    PROVE  CallsOK'
<1>1. ASSUME NEW m \in Slots, calls'[m] # Free
      PROVE  CallOK(calls[m])'
  <2>1. CASE m \in N
    BY <1>1, <2>1
  <2>2. CASE m \notin N
    <3>1. PICK k : k = calls[m]
      OBVIOUS
    <3>2. calls'[m] = k
      BY <2>2, <3>1
    <3>3. CallOK(k)
      BY <1>1, <3>1, <3>2 DEF CallsOK
    <3>4. CallOK(k)'
      BY <3>3, CallKept
    <3> QED
      BY <3>2, <3>4
  <2> QED
    BY <2>1, <2>2
<1> QED
  BY <1>1 DEF CallsOK

\* Copies that are not replaced remain copies.
LEMMA ListsKept ==
    ASSUME StoreOK, StoreOK', Dated, ListsOK, list' = list
    PROVE  ListsOK'
<1>1. ASSUME NEW c \in Consoles, NEW t \in Tables
      PROVE  list[c][t].ver \in 0..clock' /\ CopyOf(t, list[c][t].rows, list[c][t].ver)'
  <2>1. PICK rs, ver : rs = list[c][t].rows /\ ver = list[c][t].ver
    OBVIOUS
  <2>2. CopyOf(t, rs, ver) /\ ver \in 0..clock
    BY <2>1 DEF ListsOK
  <2>3. CopyOf(t, rs, ver)' /\ ver \in 0..clock'
    BY <2>2, CopiesKept
  <2> QED
    BY <2>1, <2>3
<1> QED
  BY <1>1 DEF ListsOK

\* Forms that are not changed remain correct.
LEMMA FormsKept ==
    ASSUME StoreOK, StoreOK', Dated, FormsOK, DOMAIN form' = Consoles,
           \A c \in Consoles : form'[c] \in {form[c], NoRow}
    PROVE  FormsOK'
<1>1. ASSUME NEW c \in Consoles, form'[c] # NoRow
      PROVE  FormOK(form[c])'
  <2>1. PICK m : m = form[c]
    OBVIOUS
  <2>2. form'[c] = m
    BY <1>1, <2>1
  <2>3. FormOK(m)
    BY <1>1, <2>1, <2>2 DEF FormsOK
  <2>4. FormOK(m)'
    BY <2>3, FormKept
  <2> QED
    BY <2>2, <2>4
<1> QED
  BY <1>1 DEF FormsOK

\* A fetch that a step does not touch.
LEMMA FetchKept ==
    ASSUME NEW c, NEW t, FetchOK(c, t),
           t \in excused[c] => t \in excused'[c],
           list'[c][t].ver = list[c][t].ver, reported'[c][t] = reported[c][t],
           \A n \in Slots : n \in Fetching(c, t)' <=> n \in Fetching(c, t),
           \A n \in Fetching(c, t) : \/ calls'[n] = calls[n]
                                     \/ calls'[n].ver >= reported[c][t]
    PROVE  FetchOK(c, t)'
<1>1. Fetching(c, t)' = Fetching(c, t)
  BY DEF Fetching
<1> QED
  BY <1>1 DEF FetchOK

\* The calls of slots in N are not fetches of t by c, before and after.
LEMMA FetchElsewhere ==
    ASSUME NEW c, NEW t, FetchOK(c, t), NEW N,
           t \in excused[c] => t \in excused'[c],
           list'[c][t].ver = list[c][t].ver, reported'[c][t] = reported[c][t],
           \A m \in Slots \ N : calls'[m] = calls[m],
           \A n \in N : n \notin Fetching(c, t) /\ n \notin Fetching(c, t)'
    PROVE  FetchOK(c, t)'
<1>1. ASSUME NEW m \in Slots
      PROVE  /\ m \in Fetching(c, t)' <=> m \in Fetching(c, t)
             /\ m \in Fetching(c, t) => calls'[m] = calls[m]
  <2>1. CASE m \in N
    BY <2>1
  <2>2. CASE m \notin N
    <3>1. calls'[m] = calls[m]
      BY <2>2
    <3> QED
      BY <3>1 DEF Fetching
  <2> QED
    BY <2>1, <2>2
<1>2. \A m \in Fetching(c, t) : m \in Slots
  BY DEF Fetching
<1> QED
  BY <1>1, <1>2, FetchKept

\* A handler's step keeps the invariant.
LEMMA HandleKeeps ==
    ASSUME IInv, NEW n \in Slots, Handle(n), UNCHANGED consoleVars
    PROVE  IInv'
<1>0. StoreOK /\ CallsOK /\ ListsOK /\ FormsOK /\ ConsolesOK /\ FetchesOK
  BY DEF IInv
<1>1. calls[n] # Free /\ StoreOK' /\ Dated /\ Answers(n)
  BY <1>0, HandlersServe DEF Serves
<1>2. /\ tab' = tab /\ list' = list /\ form' = form /\ budget' = budget
      /\ reported' = reported /\ excused' = excused
  BY DEF consoleVars
<1>3. CallOK(calls[n])
  BY <1>0, <1>1 DEF CallsOK
<1>4. clock \in Nat /\ clock' \in {clock, clock + 1}
  BY <1>0, <1>1 DEF StoreOK, TablesTyped, Dated
<1>5. CallsOK'
  <2>1. calls'[n] # Free => CallOK(calls[n])'
    BY <1>1, <1>3 DEF Answers, CallOK
  <2>2. DOMAIN calls' = Slots /\ \A m \in Slots \ {n} : calls'[m] = calls[m]
    BY <1>1 DEF Answers
  <2>3. PICK N : N = {n}
    OBVIOUS
  <2>4. /\ \A m \in Slots \ N : calls'[m] = calls[m]
        /\ \A m \in N : calls'[m] # Free => CallOK(calls[m])'
    BY <2>1, <2>2, <2>3
  <2> QED
    BY <1>0, <1>1, <2>2, <2>4, CallsStep
<1>6. ListsOK'
  BY <1>0, <1>1, <1>2, ListsKept
<1>7. FormsOK'
  <2>1. DOMAIN form' = Consoles /\ \A c \in Consoles : form'[c] \in {form[c], NoRow}
    BY <1>0, <1>2 DEF FormsOK
  <2> QED
    BY <1>0, <1>1, <2>1, FormsKept
<1>8. ConsolesOK'
  <2>1. 0..clock \subseteq 0..clock'
    BY <1>4
  <2>2. reported' \in [Consoles -> [Tables -> 0..clock']]
    BY <1>0, <1>2, <2>1 DEF ConsolesOK
  <2> QED
    BY <1>0, <1>2, <2>2 DEF ConsolesOK
<1>9. ASSUME NEW c \in Consoles, NEW t \in Tables
      PROVE  FetchOK(c, t)'
  <2>1. FetchOK(c, t) /\ reported[c][t] \in 0..clock
    BY <1>0 DEF FetchesOK, ConsolesOK
  <2>2. Api # c
    BY ConsoleAssumption
  <2>3. n \in Fetching(c, t)' <=> n \in Fetching(c, t)
    BY <1>1, <2>2 DEF Answers, Fetching
  <2>4. \A m \in Slots : m \in Fetching(c, t)' <=> m \in Fetching(c, t)
    BY <1>1, <2>3 DEF Answers, Fetching
  <2>5. CASE n \notin Fetching(c, t)
    <3>1. \A m \in Fetching(c, t) : calls'[m] = calls[m]
      BY <1>1, <2>5 DEF Answers, Fetching
    <3> QED
      BY <1>2, <2>1, <2>4, <3>1, FetchKept
  <2>6. CASE n \in Fetching(c, t)
    <3>1. CASE t \in excused[c]
      BY <1>2, <3>1 DEF FetchOK
    <3>2. CASE t \notin excused[c]
      <4>1. calls'[n] # Free
        BY <2>3, <2>6 DEF Fetching
      <4>2. calls'[n].ver \in 0..clock'
        BY <1>1, <4>1 DEF Answers
      <4>3. calls'[n].ver >= reported[c][t]
        <5>1. CASE calls'[n].ver >= clock
          BY <1>4, <2>1, <4>2, <5>1
        <5>2. CASE calls[n].pc # "sent" /\ calls'[n].ver = calls[n].ver
          BY <2>1, <2>6, <3>2, <5>2 DEF FetchOK
        <5> QED
          BY <1>1, <4>1, <5>1, <5>2 DEF Answers
      <4>4. \A m \in Fetching(c, t) : m = n
        BY <2>1, <2>6, <3>2 DEF FetchOK
      <4>5. \A m \in Fetching(c, t) : calls'[m].ver >= reported[c][t]
        BY <4>3, <4>4
      <4> QED
        BY <1>2, <2>1, <2>4, <4>5, FetchKept
    <3> QED
      BY <3>1, <3>2
  <2> QED
    BY <2>5, <2>6
<1> QED
  BY <1>1, <1>5, <1>6, <1>7, <1>8, <1>9 DEF IInv, FetchesOK

-----------------------------------------------------------------------------
(* Steps of the user and of the other client *)

\* What a new call holds.
LEMMA NewCallHas ==
    ASSUME NEW c, NEW op, NEW t, NEW i, NEW body, NEW edited, NEW read, NEW k,
           k = NewCall(c, op, t, i, body, edited, read)
    PROVE  /\ k.from = c /\ k.op = op /\ k.table = t /\ k.id = i /\ k.body = body
           /\ k.edited = edited /\ k.read = read /\ k.pc = "sent" /\ k.status = 0
           /\ k.data = NoRow /\ k.ver = 0 /\ k # Free /\ DOMAIN k = CallFields
<1>1. /\ k.from = c /\ k.op = op /\ k.table = t /\ k.id = i /\ k.body = body
      /\ k.edited = edited /\ k.read = read /\ k.pc = "sent" /\ k.status = 0
      /\ k.data = NoRow /\ k.ver = 0 /\ DOMAIN k = CallFields
  BY DEF NewCall, CallFields
<1> QED
  BY <1>1, NotFree

\* A new call is correct if its body is a row and, for an update, what was not
\* typed into comes from a copy.
LEMMA NewCallOK ==
    ASSUME StoreOK, NEW c \in Callers, NEW op \in Ops, NEW t \in Tables, NEW i, NEW body,
           NEW edited, NEW read, NEW k, k = NewCall(c, op, t, i, body, edited, read),
           op \in {"create", "update"} => IsRow(t, body),
           op = "update" => read \in 0..clock /\ FromCopy(k)
    PROVE  CallOK(k) /\ k.op = op /\ k # Free
<1>1. /\ k.from = c /\ k.op = op /\ k.table = t /\ k.id = i /\ k.body = body
      /\ k.edited = edited /\ k.read = read /\ k.pc = "sent" /\ k.status = 0
      /\ k.data = NoRow /\ k.ver = 0 /\ k # Free /\ DOMAIN k = CallFields
  BY NewCallHas
<1>2. 0 \in 0..clock
  BY DEF StoreOK, TablesTyped
<1>3. CopyOf(t, NoRow, 0)
  BY DEF CopyOf, NoRow
<1> QED
  BY <1>1, <1>2, <1>3 DEF CallOK

\* A call that is not a fetch is sent.
LEMMA SendKeeps ==
    ASSUME IInv, NEW n \in Slots, NEW k, CallOK(k), k.op # "list",
           calls[n] = Free, calls' = [calls EXCEPT ![n] = k],
           budget > 0, budget' = budget - 1,
           UNCHANGED <<storeVars, tab, list, form, reported, excused>>
    PROVE  IInv'
<1>0. StoreOK /\ CallsOK /\ ListsOK /\ FormsOK /\ ConsolesOK /\ FetchesOK
  BY DEF IInv
<1>1. StoreOK' /\ Dated /\ clock' = clock
  BY <1>0, TablesKept
<1>2. /\ DOMAIN calls' = Slots /\ calls'[n] = k
      /\ \A m \in Slots \ {n} : calls'[m] = calls[m]
  BY <1>0 DEF CallsOK
<1>3. PICK N : N = {n}
  OBVIOUS
<1>4. CallsOK'
  <2>1. CallOK(k)'
    BY <1>0, <1>1, CallKept
  <2>2. \A m \in N : calls'[m] # Free => CallOK(calls[m])'
    BY <1>2, <1>3, <2>1
  <2> QED
    BY <1>0, <1>1, <1>2, <1>3, <2>2, CallsStep
<1>5. ListsOK'
  BY <1>0, <1>1, ListsKept
<1>6. FormsOK'
  <2>1. DOMAIN form' = Consoles /\ \A c \in Consoles : form'[c] \in {form[c], NoRow}
    BY <1>0 DEF FormsOK
  <2> QED
    BY <1>0, <1>1, <2>1, FormsKept
<1>7. ConsolesOK'
  <2>1. budget \in 0..MaxClicks /\ MaxClicks \in Nat
    BY <1>0, ConsoleAssumption DEF ConsolesOK
  <2>2. budget' \in 0..MaxClicks
    BY <2>1
  <2> QED
    BY <1>0, <1>1, <2>2 DEF ConsolesOK
<1>8. ASSUME NEW c \in Consoles, NEW t \in Tables
      PROVE  FetchOK(c, t)'
  <2>1. \A m \in N : m \notin Fetching(c, t) /\ m \notin Fetching(c, t)'
    BY <1>2, <1>3 DEF Fetching
  <2>2. FetchOK(c, t)
    BY <1>0 DEF FetchesOK
  <2> QED
    BY <1>2, <1>3, <2>1, <2>2, FetchElsewhere
<1> QED
  BY <1>1, <1>4, <1>5, <1>6, <1>7, <1>8 DEF IInv, FetchesOK

\* An update whose columns, but for the ones typed into, are those of a copy
\* of the row.
LEMMA SentFromCopy ==
    ASSUME NEW k, NEW t, NEW row, Fresh(t, k.id, row, k.read), k.table = t,
           \A f \in Columns[t] \ k.edited :
             \/ k.body[f] = row[f]
             \/ t = "agents" /\ f = "agent_id" /\ k.body[f] = WithPrefix[row[f]]
    PROVE  FromCopy(k)
<1>1. ASSUME k.id \in DOMAIN rows[t], changed[t][k.id] <= k.read
      PROVE  rows[t][k.id] = row
  BY <1>1 DEF Fresh
<1> QED
  BY <1>1 DEF FromCopy

\* What a form sends is a row, and what was not typed into comes from it.
LEMMA SubmitOK ==
    ASSUME StoreOK, NEW c \in Consoles, NEW m, FormOK(m), NEW given, NEW k,
           k = NewCall(c, IF m.id = 0 THEN "create" ELSE "update", m.table, m.id,
                       Submitted(m, Filled(m, given)), DOMAIN given, m.read)
    PROVE  CallOK(k) /\ k.op # "list"
<1> DEFINE t == m.table
           body == Submitted(m, Filled(m, given))
           op == IF m.id = 0 THEN "create" ELSE "update"
<1>1. /\ DOMAIN body = Columns[t]
      /\ m.id # 0 => \A f \in Columns[t] \ DOMAIN given :
           \/ body[f] = m.copy[f]
           \/ t = "agents" /\ f = "agent_id" /\ body[f] = WithPrefix[m.copy[f]]
  <2>1. PICK g : g = Filled(m, given)
    OBVIOUS
  <2>2. DOMAIN g = Columns[t] /\ \A f \in Columns[t] \ DOMAIN given : g[f] = m.copy[f]
    BY <2>1 DEF Filled
  <2>3. CASE t = "agents"
    <3>1. PICK a : a = IF m.id = 0 THEN AddPrefix[g["agent_id"]] ELSE WithPrefix[g["agent_id"]]
      OBVIOUS
    <3>2. body = [g EXCEPT !["agent_id"] = a]
      BY <2>1, <2>3, <3>1 DEF Submitted
    <3>3. DOMAIN body = Columns[t]
      BY <2>2, <3>2
    <3>4. ASSUME m.id # 0, NEW f \in Columns[t] \ DOMAIN given
          PROVE  \/ body[f] = m.copy[f]
                 \/ f = "agent_id" /\ body[f] = WithPrefix[m.copy[f]]
      BY <2>2, <3>1, <3>2, <3>4
    <3> QED
      BY <2>3, <3>3, <3>4
  <2>4. CASE t # "agents"
    BY <2>1, <2>2, <2>4 DEF Submitted
  <2> QED
    BY <2>3, <2>4
<1>2. /\ k.table = t /\ k.id = m.id /\ k.body = body /\ k.edited = DOMAIN given
      /\ k.read = m.read /\ k = NewCall(c, op, t, m.id, body, DOMAIN given, m.read)
  BY NewCallHas
<1>3. op \in {"create", "update"} /\ op \in Ops /\ op # "list" /\ (op = "update" => m.id # 0)
  BY DEF Ops
<1>4. t \in Tables /\ m.read \in 0..clock /\ c \in Callers
  BY ConsoleAssumption DEF FormOK
<1>5. ASSUME op = "update"
      PROVE  FromCopy(k)
  <2>1. Fresh(t, m.id, m.copy, m.read)
    BY <1>3, <1>5 DEF FormOK
  <2>2. m.id # 0
    BY <1>3, <1>5
  <2> HIDE DEF body, op, t
  <2> QED
    BY <1>1, <1>2, <2>1, <2>2, SentFromCopy
<1>6. IsRow(t, body)
  BY <1>1 DEF IsRow
<1> HIDE DEF body, op, t
<1> QED
  BY <1>2, <1>3, <1>4, <1>5, <1>6, NewCallOK

\* Submit.
LEMMA SubmitKeeps ==
    ASSUME IInv, NEW c \in Consoles, NEW n \in Slots, Submit(c, n)
    PROVE  IInv'
<1>1. PICK m : m = form[c]
  OBVIOUS
<1>2. /\ m # NoRow /\ calls[n] = Free /\ budget > 0 /\ budget' = budget - 1
      /\ UNCHANGED <<storeVars, tab, list, form, reported, excused>>
  BY <1>1 DEF Submit
<1>3. PICK given : calls' = [calls EXCEPT ![n] =
          NewCall(c, IF m.id = 0 THEN "create" ELSE "update", m.table, m.id,
                  Submitted(m, Filled(m, given)), DOMAIN given, m.read)]
  BY <1>1 DEF Submit
<1>4. StoreOK /\ FormOK(m)
  BY <1>1, <1>2 DEF IInv, FormsOK
<1>5. PICK k : k = NewCall(c, IF m.id = 0 THEN "create" ELSE "update", m.table, m.id,
                           Submitted(m, Filled(m, given)), DOMAIN given, m.read)
  OBVIOUS
<1>6. CallOK(k) /\ k.op # "list"
  BY <1>4, <1>5, SubmitOK
<1>7. calls' = [calls EXCEPT ![n] = k]
  BY <1>3, <1>5
<1> QED
  BY <1>2, <1>6, <1>7, SendKeeps

\* Delete.
LEMMA DeleteKeeps ==
    ASSUME IInv, NEW c \in Consoles, NEW n \in Slots, Delete(c, n)
    PROVE  IInv'
<1>1. PICK i : calls' = [calls EXCEPT ![n] = NewCall(c, "delete", tab[c], i, NoRow, {}, 0)]
  BY DEF Delete
<1>2. /\ calls[n] = Free /\ budget > 0 /\ budget' = budget - 1
      /\ UNCHANGED <<storeVars, tab, list, form, reported, excused>>
  BY DEF Delete
<1>3. tab[c] \in Tables /\ c \in Callers /\ StoreOK /\ "delete" \in Ops
  BY ConsoleAssumption DEF Delete, IInv, ConsolesOK, Ops
<1>4. PICK k : k = NewCall(c, "delete", tab[c], i, NoRow, {}, 0)
  OBVIOUS
<1>5. PICK t : t = tab[c]
  OBVIOUS
<1>6. CallOK(k) /\ k.op # "list"
  BY <1>3, <1>4, <1>5, NewCallOK
<1>7. calls' = [calls EXCEPT ![n] = k]
  BY <1>1, <1>4
<1> QED
  BY <1>2, <1>6, <1>7, SendKeeps

\* ApiSends.
LEMMA ApiSendsKeeps ==
    ASSUME IInv, NEW n \in Slots, ApiSends(n)
    PROVE  IInv'
<1>0. StoreOK /\ Api \in Callers /\ clock \in Nat
  BY ConsoleAssumption DEF IInv, StoreOK, TablesTyped
<1>1. /\ calls[n] = Free /\ budget > 0 /\ budget' = budget - 1
      /\ UNCHANGED <<storeVars, tab, list, form, reported, excused>>
  BY DEF ApiSends
<1>2. PICK t \in Tables : \E k :
          /\ calls' = [calls EXCEPT ![n] = k]
          /\ \/ k = NewCall(Api, "malformed", t, 0, NoRow, {}, 0)
             \/ \E op \in {"get", "delete"}, i \in ApiIds : k = NewCall(Api, op, t, i, NoRow, {}, 0)
             \/ \E b \in ApiBodies[t] : k = NewCall(Api, "create", t, 0, b, Columns[t], 0)
             \/ \E i \in ApiIds, b \in ApiBodies[t] : k = NewCall(Api, "update", t, i, b, Columns[t], 0)
  <2>1. PICK t \in Tables :
          \/ calls' = [calls EXCEPT ![n] = NewCall(Api, "malformed", t, 0, NoRow, {}, 0)]
          \/ \E op \in {"get", "delete"}, i \in ApiIds :
               calls' = [calls EXCEPT ![n] = NewCall(Api, op, t, i, NoRow, {}, 0)]
          \/ \E b \in ApiBodies[t] :
               calls' = [calls EXCEPT ![n] = NewCall(Api, "create", t, 0, b, Columns[t], 0)]
          \/ \E i \in ApiIds, b \in ApiBodies[t] :
               calls' = [calls EXCEPT ![n] = NewCall(Api, "update", t, i, b, Columns[t], 0)]
    BY DEF ApiSends
  <2> QED
    BY <2>1
<1>3. PICK k :
          /\ calls' = [calls EXCEPT ![n] = k]
          /\ \/ k = NewCall(Api, "malformed", t, 0, NoRow, {}, 0)
             \/ \E op \in {"get", "delete"}, i \in ApiIds : k = NewCall(Api, op, t, i, NoRow, {}, 0)
             \/ \E b \in ApiBodies[t] : k = NewCall(Api, "create", t, 0, b, Columns[t], 0)
             \/ \E i \in ApiIds, b \in ApiBodies[t] : k = NewCall(Api, "update", t, i, b, Columns[t], 0)
  BY <1>2
<1>4. \A b \in ApiBodies[t] : IsRow(t, b)
  BY ConsoleAssumption
<1>5. CallOK(k) /\ k.op # "list"
  <2>1. CASE k = NewCall(Api, "malformed", t, 0, NoRow, {}, 0)
    <3>1. "malformed" \in Ops
      BY DEF Ops
    <3> QED
      BY <1>0, <2>1, <3>1, NewCallOK
  <2>2. ASSUME NEW op \in {"get", "delete"}, NEW i \in ApiIds,
               k = NewCall(Api, op, t, i, NoRow, {}, 0)
        PROVE  CallOK(k) /\ k.op # "list"
    <3>1. op \in Ops /\ op \notin {"create", "update", "list"}
      BY DEF Ops
    <3> QED
      BY <1>0, <2>2, <3>1, NewCallOK
  <2>3. ASSUME NEW b \in ApiBodies[t], k = NewCall(Api, "create", t, 0, b, Columns[t], 0)
        PROVE  CallOK(k) /\ k.op # "list"
    <3>1. "create" \in Ops /\ IsRow(t, b)
      BY <1>4 DEF Ops
    <3> QED
      BY <1>0, <2>3, <3>1, NewCallOK
  <2>4. ASSUME NEW i \in ApiIds, NEW b \in ApiBodies[t],
               k = NewCall(Api, "update", t, i, b, Columns[t], 0)
        PROVE  CallOK(k) /\ k.op # "list"
    <3>1. "update" \in Ops /\ IsRow(t, b) /\ 0 \in 0..clock
      BY <1>0, <1>4 DEF Ops
    <3>2. k.table = t /\ k.edited = Columns[t]
      BY <2>4, NewCallHas
    <3>3. FromCopy(k)
      BY <3>2 DEF FromCopy
    <3> QED
      BY <1>0, <2>4, <3>1, <3>3, NewCallOK
  <2> QED
    BY <1>3, <2>1, <2>2, <2>3, <2>4
<1> QED
  BY <1>1, <1>3, <1>5, SendKeeps

\* OpenModal, CloseModal and ChangeTabFails.
LEMMA UserAtOnceKeeps ==
    ASSUME IInv, NEW c \in Consoles, UserAtOnce(c)
    PROVE  IInv'
<1>0. StoreOK /\ CallsOK /\ ListsOK /\ FormsOK /\ ConsolesOK /\ FetchesOK
  BY DEF IInv
<1>1. UNCHANGED <<serverVars, list, reported, excused>>
  BY DEF UserAtOnce, OpenModal, CloseModal, ChangeTabFails
<1>2. UNCHANGED storeVars /\ calls' = calls
  BY <1>1 DEF serverVars, storeVars
<1>3. StoreOK' /\ Dated /\ clock' = clock /\ rows' = rows /\ changed' = changed
  BY <1>0, <1>2, TablesKept
<1>4. CallsOK'
  <2>1. PICK N : N = {}
    OBVIOUS
  <2>2. DOMAIN calls' = Slots /\ \A m \in Slots \ N : calls'[m] = calls[m]
    BY <1>0, <1>2 DEF CallsOK
  <2>3. \A m \in N : calls'[m] # Free => CallOK(calls[m])'
    BY <2>1
  <2> QED
    BY <1>0, <1>3, <2>2, <2>3, CallsStep
<1>5. ListsOK'
  BY <1>0, <1>1, <1>3, ListsKept
<1>6. ASSUME NEW d \in Consoles, NEW t \in Tables
      PROVE  FetchOK(d, t)'
  BY <1>0, <1>1, <1>2 DEF FetchesOK, FetchOK, Fetching
<1>7. budget \in 0..MaxClicks /\ MaxClicks \in Nat
  BY <1>0, ConsoleAssumption DEF ConsolesOK
<1>8. CASE OpenModal(c)
  <2> DEFINE t == tab[c]
  <2>1. t \in Tables /\ t # Blank /\ form[c] = NoRow /\ budget' = budget
    BY <1>0, <1>8, ConsoleAssumption DEF OpenModal, ConsolesOK
  <2>2. ConsolesOK'
    <3>1. tab' \in [Consoles -> Tabs \cup {Blank}]
      BY <1>0, <1>8 DEF OpenModal, ConsolesOK
    <3> QED
      BY <1>0, <1>1, <1>3, <2>1, <3>1 DEF ConsolesOK
  <2>3. ASSUME NEW m, FormOK(m), form' = [form EXCEPT ![c] = m]
        PROVE  FormsOK'
    <3>1. DOMAIN form' = Consoles /\ form'[c] = m /\ \A d \in Consoles \ {c} : form'[d] = form[d]
      BY <1>0, <2>3 DEF FormsOK
    <3>2. ASSUME NEW d \in Consoles, form'[d] # NoRow
          PROVE  FormOK(form[d])'
      <4>1. PICK k : k = form'[d]
        OBVIOUS
      <4>2. FormOK(k)
        BY <1>0, <2>3, <3>1, <3>2, <4>1 DEF FormsOK
      <4>3. FormOK(k)'
        BY <1>0, <1>3, <4>2, FormKept
      <4> QED
        BY <4>1, <4>3
    <3> QED
      BY <3>1, <3>2 DEF FormsOK
  <2>4. CASE form' = [form EXCEPT ![c] = [table |-> t, id |-> 0, copy |-> EmptyRow(t), read |-> 0]]
    <3>1. PICK m : m = [table |-> t, id |-> 0, copy |-> EmptyRow(t), read |-> 0]
      OBVIOUS
    <3>2. m.table = t /\ m.id = 0 /\ m.copy = EmptyRow(t) /\ m.read = 0
      BY <3>1
    <3>3. 0 \in 0..MaxId /\ 0 \in 0..clock
      BY <1>0, StoreAssumption DEF StoreOK, TablesTyped
    <3>4. IsRow(t, EmptyRow(t))
      BY DEF IsRow, EmptyRow
    <3>5. FormOK(m)
      BY <2>1, <3>2, <3>3, <3>4 DEF FormOK
    <3>6. FormsOK'
      BY <2>3, <2>4, <3>1, <3>5
    <3> QED
      BY <1>3, <1>4, <1>5, <1>6, <2>2, <3>6 DEF IInv, FetchesOK
  <2>5. ASSUME NEW i \in DOMAIN list[c][t].rows,
               form' = [form EXCEPT ![c] = [table |-> t, id |-> i, copy |-> list[c][t].rows[i],
                                            read |-> list[c][t].ver]]
        PROVE  IInv'
    <3>1. PICK m : m = [table |-> t, id |-> i, copy |-> list[c][t].rows[i],
                        read |-> list[c][t].ver]
      OBVIOUS
    <3>2. m.table = t /\ m.id = i /\ m.copy = list[c][t].rows[i] /\ m.read = list[c][t].ver
      BY <3>1
    <3>3. list[c][t].ver \in 0..clock /\ CopyOf(t, list[c][t].rows, list[c][t].ver)
      BY <1>0, <2>1 DEF ListsOK
    <3>4. /\ i \in 1..MaxId /\ IsRow(t, list[c][t].rows[i])
          /\ Fresh(t, i, list[c][t].rows[i], list[c][t].ver)
      BY <2>5, <3>3 DEF CopyOf
    <3>5. i \in 0..MaxId
      BY <3>4, StoreAssumption
    <3>6. FormOK(m)
      BY <2>1, <3>2, <3>3, <3>4, <3>5 DEF FormOK
    <3>7. FormsOK'
      BY <2>3, <2>5, <3>1, <3>6
    <3> QED
      BY <1>3, <1>4, <1>5, <1>6, <2>2, <3>7 DEF IInv, FetchesOK
  <2> QED
    BY <1>8, <2>4, <2>5 DEF OpenModal
<1>9. CASE CloseModal(c) \/ \E t \in Tabs : ChangeTabFails(c, t)
  <2>1. /\ tab' \in [Consoles -> Tabs \cup {Blank}]
        /\ form' \in {form, [form EXCEPT ![c] = NoRow]}
    BY <1>0, <1>9 DEF CloseModal, ChangeTabFails, ConsolesOK
  <2>2. budget' \in 0..MaxClicks
    BY <1>7, <1>9 DEF CloseModal, ChangeTabFails
  <2>3. ConsolesOK'
    BY <1>0, <1>1, <1>3, <2>1, <2>2 DEF ConsolesOK
  <2>4. DOMAIN form' = Consoles /\ \A d \in Consoles : form'[d] \in {form[d], NoRow}
    BY <1>0, <2>1 DEF FormsOK
  <2>5. FormsOK'
    BY <1>0, <1>3, <2>4, FormsKept
  <2> QED
    BY <1>3, <1>4, <1>5, <1>6, <2>3, <2>5 DEF IInv, FetchesOK
<1> QED
  BY <1>8, <1>9 DEF UserAtOnce

\* A fetch that starts is the only one, or its table is excused.
LEMMA FetchStarted ==
    ASSUME NEW c \in Consoles, NEW t \in Tables, NEW n \in Slots,
           calls'[n] = FetchCall(c, t),
           \A m \in Slots \ {n} : m \in Fetching(c, t)' <=> m \in Fetching(c, t),
           Fetching(c, t) \ {n} # {} => t \in excused'[c]
    PROVE  FetchOK(c, t)'
<1>1. PICK k : k = FetchCall(c, t)
  OBVIOUS
<1>2. k.pc = "sent" /\ k # Free /\ k.from = c /\ k.op = "list" /\ k.table = t
  BY <1>1, NewCallHas DEF FetchCall
<1>3. n \in Fetching(c, t)'
  BY <1>1, <1>2 DEF Fetching
<1>4. CASE Fetching(c, t) \ {n} # {}
  BY <1>4 DEF FetchOK
<1>5. CASE Fetching(c, t) \ {n} = {}
  <2>1. \A m \in Fetching(c, t)' : m = n
    <3>1. \A m \in Fetching(c, t)' : m \in Slots
      BY DEF Fetching
    <3> QED
      BY <1>5, <3>1
  <2> QED
    BY <1>1, <1>2, <1>3, <2>1 DEF FetchOK
<1> QED
  BY <1>4, <1>5

\* A new fetch is a correct call.
LEMMA FetchCallOK ==
    ASSUME StoreOK, StoreOK', Dated, NEW c \in Consoles, NEW t \in Tables, NEW n,
           calls'[n] = FetchCall(c, t)
    PROVE  /\ CallOK(calls[n])' /\ calls'[n] # Free /\ calls'[n].from = c
           /\ calls'[n].op = "list" /\ calls'[n].table = t
<1>1. PICK k : k = FetchCall(c, t)
  OBVIOUS
<1>2. c \in Callers /\ "list" \in Ops /\ k = NewCall(c, "list", t, 0, NoRow, {}, 0)
  BY <1>1, ConsoleAssumption DEF FetchCall, Ops
<1>3. CallOK(k)
  BY <1>2, NewCallOK
<1>4. CallOK(k)'
  BY <1>3, CallKept
<1>5. k # Free /\ k.from = c /\ k.op = "list" /\ k.table = t
  BY <1>2, NewCallHas
<1>6. calls'[n] = k
  BY <1>1
<1> QED
  BY <1>4, <1>5, <1>6

\* ChangeTab.
LEMMA ChangeTabKeeps ==
    ASSUME IInv, NEW c \in Consoles, NEW n \in Slots, NEW t \in Tabs, ChangeTab(c, n, t)
    PROVE  IInv'
<1>0. StoreOK /\ CallsOK /\ ListsOK /\ FormsOK /\ ConsolesOK /\ FetchesOK
  BY DEF IInv
<1>1. /\ UNCHANGED storeVars /\ list' = list /\ form' = form /\ reported' = reported
      /\ calls[n] = Free /\ budget > 0 /\ budget' = budget - 1
      /\ tab' = [tab EXCEPT ![c] = t]
  BY DEF ChangeTab
<1>2. StoreOK' /\ Dated /\ clock' = clock
  BY <1>0, <1>1, TablesKept
<1>3. ListsOK'
  BY <1>0, <1>1, <1>2, ListsKept
<1>4. FormsOK'
  <2>1. DOMAIN form' = Consoles /\ \A d \in Consoles : form'[d] \in {form[d], NoRow}
    BY <1>0, <1>1 DEF FormsOK
  <2> QED
    BY <1>0, <1>2, <2>1, FormsKept
<1>5. t \in Tables /\ "agents" \in Tables
  BY ConsoleAssumption DEF Tables
<1>6. ASSUME excused' \in [Consoles -> SUBSET Tables]
      PROVE  ConsolesOK'
  <2>1. budget \in 0..MaxClicks /\ MaxClicks \in Nat
    BY <1>0, ConsoleAssumption DEF ConsolesOK
  <2>2. budget' \in 0..MaxClicks
    BY <1>1, <2>1
  <2>3. tab' \in [Consoles -> Tabs \cup {Blank}]
    BY <1>0, <1>1 DEF ConsolesOK
  <2> QED
    BY <1>0, <1>1, <1>2, <1>6, <2>2, <2>3 DEF ConsolesOK
<1>7. excused \in [Consoles -> SUBSET Tables]
  BY <1>0 DEF ConsolesOK
<1>8. \A d \in Consoles, u \in Tables : FetchOK(d, u)
  BY <1>0 DEF FetchesOK
<1>9. CASE t # "databases" /\ Fetch(n, c, t)
  <2>1. /\ DOMAIN calls' = Slots /\ calls'[n] = FetchCall(c, t)
        /\ \A m \in Slots \ {n} : calls'[m] = calls[m]
    BY <1>0, <1>9 DEF Fetch, CallsOK
  <2>2. /\ \A d \in Consoles \ {c} : excused'[d] = excused[d]
        /\ excused'[c] = Overlaps(c, n, t)
        /\ excused' \in [Consoles -> SUBSET Tables]
    BY <1>5, <1>7, <1>9 DEF Fetch, Overlaps
  <2>3. /\ CallOK(calls[n])' /\ calls'[n].from = c /\ calls'[n].table = t
    BY <1>0, <1>2, <1>5, <2>1, FetchCallOK
  <2>4. PICK N : N = {n}
    OBVIOUS
  <2>5. CallsOK'
    BY <1>0, <1>2, <2>1, <2>3, <2>4, CallsStep
  <2>6. ASSUME NEW d \in Consoles, NEW u \in Tables
        PROVE  FetchOK(d, u)'
    <3>1. CASE d = c /\ u = t
      <4>1. \A m \in Slots \ {n} : m \in Fetching(c, t)' <=> m \in Fetching(c, t)
        BY <2>1 DEF Fetching
      <4>2. Fetching(c, t) \ {n} # {} => t \in excused'[c]
        BY <2>2 DEF Overlaps
      <4> QED
        BY <1>5, <2>1, <3>1, <4>1, <4>2, FetchStarted
    <3>2. CASE ~(d = c /\ u = t)
      <4>1. n \notin Fetching(d, u) /\ n \notin Fetching(d, u)'
        BY <1>1, <2>3, <3>2 DEF Fetching
      <4>2. u \in excused[d] => u \in excused'[d]
        BY <2>2, <3>2 DEF Overlaps
      <4>3. \A m \in N : m \notin Fetching(d, u) /\ m \notin Fetching(d, u)'
        BY <2>4, <4>1
      <4>4. \A m \in Slots \ N : calls'[m] = calls[m]
        BY <2>1, <2>4
      <4>5. list'[d][u].ver = list[d][u].ver /\ reported'[d][u] = reported[d][u]
        BY <1>1
      <4> QED
        BY <1>8, <4>2, <4>3, <4>4, <4>5, FetchElsewhere
    <3> QED
      BY <3>1, <3>2
  <2> QED
    BY <1>2, <1>3, <1>4, <1>6, <2>2, <2>5, <2>6 DEF IInv, FetchesOK
<1>10. CASE /\ t = "databases"
            /\ \E m \in Slots \ {n} :
                 /\ calls[m] = Free
                 /\ calls' = [calls EXCEPT ![n] = FetchCall(c, t), ![m] = FetchCall(c, "agents")]
            /\ excused' = [excused EXCEPT ![c] =
                             (Overlaps(c, n, t) \ {"agents"})
                                \cup (Overlaps(c, n, "agents") \cap {"agents"})]
  <2>0. PICK m \in Slots \ {n} :
            /\ calls[m] = Free
            /\ calls' = [calls EXCEPT ![n] = FetchCall(c, t), ![m] = FetchCall(c, "agents")]
    BY <1>10
  <2>1. /\ DOMAIN calls' = Slots /\ calls'[n] = FetchCall(c, t)
        /\ calls'[m] = FetchCall(c, "agents")
        /\ \A x \in Slots \ {n, m} : calls'[x] = calls[x]
    BY <1>0, <2>0 DEF CallsOK
  <2>2. /\ \A d \in Consoles \ {c} : excused'[d] = excused[d]
        /\ excused'[c] = (Overlaps(c, n, t) \ {"agents"})
                            \cup (Overlaps(c, n, "agents") \cap {"agents"})
    BY <1>7, <1>10
  <2>3. Overlaps(c, n, t) \in SUBSET Tables
    BY <1>5, <1>7 DEF Overlaps
  <2>4. excused' \in [Consoles -> SUBSET Tables]
    BY <1>5, <1>7, <1>10, <2>3
  <2>5. /\ CallOK(calls[n])' /\ calls'[n].from = c /\ calls'[n].table = t
    BY <1>0, <1>2, <1>5, <2>1, FetchCallOK
  <2>6. /\ CallOK(calls[m])' /\ calls'[m].from = c /\ calls'[m].table = "agents"
    BY <1>0, <1>2, <1>5, <2>1, FetchCallOK
  <2>7. PICK N : N = {n, m}
    OBVIOUS
  <2>8. CallsOK'
    BY <1>0, <1>2, <2>1, <2>5, <2>6, <2>7, CallsStep
  <2>9. ASSUME NEW d \in Consoles, NEW u \in Tables
        PROVE  FetchOK(d, u)'
    <3>1. CASE d = c /\ u = t
      <4>1. \A x \in Slots \ {n} : x \in Fetching(c, t)' <=> x \in Fetching(c, t)
        BY <1>10, <2>0, <2>1, <2>6 DEF Fetching
      <4>2. Fetching(c, t) \ {n} # {} => t \in excused'[c]
        BY <1>10, <2>2 DEF Overlaps
      <4> QED
        BY <1>5, <2>1, <3>1, <4>1, <4>2, FetchStarted
    <3>2. CASE d = c /\ u = "agents"
      <4>1. \A x \in Slots \ {m} : x \in Fetching(c, u)' <=> x \in Fetching(c, u)
        BY <1>1, <1>10, <2>1, <2>5, <3>2 DEF Fetching
      <4>2. n \notin Fetching(c, u)
        BY <1>1 DEF Fetching
      <4>3. Fetching(c, u) \ {m} # {} => Fetching(c, u) \ {n} # {}
        BY <4>2
      <4>4. Fetching(c, u) \ {m} # {} => u \in excused'[c]
        BY <2>2, <3>2, <4>3 DEF Overlaps
      <4> QED
        BY <2>0, <2>1, <3>2, <4>1, <4>4, FetchStarted
    <3>3. CASE ~(d = c /\ u \in {t, "agents"})
      <4>1. \A x \in N : x \notin Fetching(d, u) /\ x \notin Fetching(d, u)'
        BY <1>1, <2>0, <2>5, <2>6, <2>7, <3>3 DEF Fetching
      <4>2. u \in excused[d] => u \in excused'[d]
        BY <2>2, <3>3 DEF Overlaps
      <4>3. \A x \in Slots \ N : calls'[x] = calls[x]
        BY <2>1, <2>7
      <4>4. list'[d][u].ver = list[d][u].ver /\ reported'[d][u] = reported[d][u]
        BY <1>1
      <4> QED
        BY <1>8, <4>1, <4>2, <4>3, <4>4, FetchElsewhere
    <3> QED
      BY <3>1, <3>2, <3>3
  <2> QED
    BY <1>2, <1>3, <1>4, <1>6, <2>4, <2>8, <2>9 DEF IInv, FetchesOK
<1> QED
  BY <1>9, <1>10 DEF ChangeTab

-----------------------------------------------------------------------------
(* Answers *)

\* The call in slot n is over, or it is for nobody any more; a copy may have
\* been replaced by what the call has read.
LEMMA EndKeeps ==
    ASSUME IInv, NEW n \in Slots, calls[n] # Free, calls[n].from \in Consoles,
           UNCHANGED storeVars, UNCHANGED <<form, budget, reported>>,
           tab' \in [Consoles -> Tabs \cup {Blank}],
           NEW k, calls' = [calls EXCEPT ![n] = k],
           k # Free => CallOK(k) /\ k.op # "list",
           ListsOK',
           \A d \in Consoles, u \in Tables :
               ~(d = calls[n].from /\ u = calls[n].table) => list'[d][u] = list[d][u],
           excused' \in [Consoles -> SUBSET Tables],
           \A d \in Consoles : excused[d] \subseteq excused'[d],
           \/ calls[n].op # "list" /\ list' = list
           \/ calls[n].table \in excused'[calls[n].from]
           \/ /\ calls[n].op = "list" /\ calls[n].pc # "sent" /\ k = Free
              /\ list'[calls[n].from][calls[n].table].ver = calls[n].ver
    PROVE  IInv'
<1>0. StoreOK /\ CallsOK /\ ListsOK /\ FormsOK /\ ConsolesOK /\ FetchesOK
  BY DEF IInv
<1>1. StoreOK' /\ Dated /\ clock' = clock
  BY <1>0, TablesKept
<1>2. /\ DOMAIN calls' = Slots /\ calls'[n] = k
      /\ \A m \in Slots \ {n} : calls'[m] = calls[m]
  BY <1>0 DEF CallsOK
<1>3. PICK N : N = {n}
  OBVIOUS
<1>4. CallsOK'
  <2>1. k # Free => CallOK(k)'
    BY <1>0, <1>1, CallKept
  <2>2. \A m \in N : calls'[m] # Free => CallOK(calls[m])'
    BY <1>2, <1>3, <2>1
  <2> QED
    BY <1>0, <1>1, <1>2, <1>3, <2>2, CallsStep
<1>5. FormsOK'
  <2>1. DOMAIN form' = Consoles /\ \A c \in Consoles : form'[c] \in {form[c], NoRow}
    BY <1>0 DEF FormsOK
  <2> QED
    BY <1>0, <1>1, <2>1, FormsKept
<1>6. ConsolesOK'
  BY <1>0, <1>1 DEF ConsolesOK
<1>7. ASSUME NEW d \in Consoles, NEW u \in Tables
      PROVE  FetchOK(d, u)'
  <2>1. FetchOK(d, u) /\ reported' = reported
    BY <1>0 DEF FetchesOK
  <2>2. n \notin Fetching(d, u)'
    BY <1>2 DEF Fetching
  <2>3. u \in excused[d] => u \in excused'[d]
    OBVIOUS
  <2>4. CASE n \notin Fetching(d, u) /\ list'[d][u] = list[d][u]
    <3>1. \A m \in N : m \notin Fetching(d, u) /\ m \notin Fetching(d, u)'
      BY <1>3, <2>2, <2>4
    <3>2. list'[d][u].ver = list[d][u].ver /\ reported'[d][u] = reported[d][u]
      BY <2>1, <2>4
    <3> QED
      BY <1>2, <1>3, <2>1, <2>3, <3>1, <3>2, FetchElsewhere
  <2>5. CASE n \in Fetching(d, u) \/ list'[d][u] # list[d][u]
    <3>1. d = calls[n].from /\ u = calls[n].table
      BY <2>5 DEF Fetching
    <3>2. CASE u \in excused'[d]
      BY <3>2 DEF FetchOK
    <3>3. CASE u \notin excused'[d]
      <4>1. /\ u \notin excused[d] /\ calls[n].op = "list" /\ calls[n].pc # "sent"
            /\ list'[d][u].ver = calls[n].ver
        <5>1. ~(calls[n].op # "list" /\ list' = list)
          BY <2>5 DEF Fetching
        <5>2. /\ calls[n].op = "list" /\ calls[n].pc # "sent"
              /\ list'[calls[n].from][calls[n].table].ver = calls[n].ver
          BY <3>1, <3>3, <5>1
        <5> QED
          BY <2>3, <3>1, <3>3, <5>2
      <4>2. n \in Fetching(d, u)
        BY <3>1, <4>1 DEF Fetching
      <4>3. calls[n].ver >= reported[d][u] /\ \A m \in Fetching(d, u) : m = n
        BY <2>1, <4>1, <4>2 DEF FetchOK
      <4>4. Fetching(d, u)' = {}
        BY <1>2, <2>2, <4>3 DEF Fetching
      <4> QED
        BY <2>1, <4>1, <4>3, <4>4 DEF FetchOK
    <3> QED
      BY <3>2, <3>3
  <2> QED
    BY <2>4, <2>5
<1> QED
  BY <1>1, <1>4, <1>5, <1>6, <1>7 DEF IInv, FetchesOK

\* The console's copy is replaced by what a fetch has read, or by an error.
Replaces(c, t, copy) ==
    /\ copy.ver \in 0..clock /\ CopyOf(t, copy.rows, copy.ver)
    /\ list' = [list EXCEPT ![c][t] = copy]

\* The copies after such a step.
LEMMA ListReplaced ==
    ASSUME StoreOK, StoreOK', Dated, ListsOK, NEW c \in Consoles, NEW t \in Tables,
           NEW copy, Replaces(c, t, copy)
    PROVE  /\ ListsOK' /\ list'[c][t] = copy
           /\ \A d \in Consoles, u \in Tables : ~(d = c /\ u = t) => list'[d][u] = list[d][u]
<1>1. /\ DOMAIN list' = Consoles /\ list'[c] = [list[c] EXCEPT ![t] = copy]
      /\ \A d \in Consoles \ {c} : list'[d] = list[d]
  BY DEF ListsOK, Replaces
<1>2. /\ \A d \in Consoles : DOMAIN list'[d] = Tables
      /\ list'[c][t] = copy
      /\ \A d \in Consoles, u \in Tables : ~(d = c /\ u = t) => list'[d][u] = list[d][u]
  BY <1>1 DEF ListsOK
<1>3. ASSUME NEW d \in Consoles, NEW u \in Tables
      PROVE  list'[d][u].ver \in 0..clock' /\ CopyOf(u, list[d][u].rows, list[d][u].ver)'
  <2>1. PICK x, v : x = list'[d][u].rows /\ v = list'[d][u].ver
    OBVIOUS
  <2>2. CopyOf(u, x, v) /\ v \in 0..clock
    BY <1>2, <2>1 DEF ListsOK, Replaces
  <2>3. CopyOf(u, x, v)' /\ v \in 0..clock'
    BY <2>2, CopiesKept
  <2> QED
    BY <2>1, <2>3
<1> QED
  BY <1>1, <1>2, <1>3 DEF ListsOK

\* ReceiveList, ReceiveError, ReceiveErrorAsList and CallFails.
LEMMA EndingsKeep ==
    ASSUME IInv, NEW n \in Slots,
           ReceiveList(n) \/ ReceiveError(n) \/ ReceiveErrorAsList(n) \/ CallFails(n)
    PROVE  IInv'
<1>0. StoreOK /\ CallsOK /\ ListsOK /\ FormsOK /\ ConsolesOK /\ FetchesOK
  BY DEF IInv
<1>1. /\ calls[n] # Free /\ UNCHANGED storeVars /\ UNCHANGED <<form, budget, reported>>
  BY DEF ReceiveList, ReceiveError, ReceiveErrorAsList, CallFails, Answered
<1>2. CallOK(calls[n])
  BY <1>0, <1>1 DEF CallsOK
<1>3. calls[n].from \in Consoles
  BY <1>2, ConsoleAssumption
     DEF CallOK, ReceiveList, ReceiveError, ReceiveErrorAsList, CallFails, Answered
<1>4. StoreOK' /\ Dated
  BY <1>0, <1>1, TablesKept
<1>5. calls[n].table \in Tables /\ calls[n].ver \in 0..clock
  BY <1>2 DEF CallOK
<1>6. /\ tab \in [Consoles -> Tabs \cup {Blank}] /\ excused \in [Consoles -> SUBSET Tables]
  BY <1>0 DEF ConsolesOK
<1>7. list' = list => ListsOK'
  BY <1>0, <1>4, ListsKept
<1>8. PICK c, t, ver, k0 : /\ c = calls[n].from /\ t = calls[n].table /\ ver = calls[n].ver
                           /\ k0 = Free
  OBVIOUS
<1>9. CASE ReceiveList(n)
  <2>1. /\ calls[n].op = "list" /\ calls[n].pc = "answered" /\ tab' = tab /\ excused' = excused
        /\ calls' = [calls EXCEPT ![n] = k0]
        /\ list' = [list EXCEPT ![c][t] = Copy(calls[n].data, ver)]
    BY <1>8, <1>9 DEF ReceiveList, Answered
  <2>2. PICK rs, copy : rs = calls[n].data /\ copy = Copy(rs, ver)
    OBVIOUS
  <2>3. copy.rows = rs /\ copy.ver = ver
    BY <2>2 DEF Copy
  <2>4. CopyOf(t, rs, ver)
    BY <1>2, <1>8, <2>1, <2>2 DEF CallOK
  <2>5. /\ ListsOK' /\ list'[c][t] = copy
        /\ \A d \in Consoles, u \in Tables : ~(d = c /\ u = t) => list'[d][u] = list[d][u]
    <3>1. /\ c \in Consoles /\ t \in Tables /\ ver \in 0..clock
          /\ list' = [list EXCEPT ![c][t] = copy]
      BY <1>3, <1>5, <1>8, <2>1, <2>2
    <3>2. Replaces(c, t, copy)
      BY <2>3, <2>4, <3>1 DEF Replaces
    <3> QED
      BY <1>0, <1>4, <3>1, <3>2, ListReplaced
  <2> QED
    BY <1>1, <1>3, <1>6, <1>8, <2>1, <2>3, <2>5, EndKeeps
<1>10. CASE ReceiveError(n)
  <2>1. /\ list' = list /\ tab' = tab /\ calls' = [calls EXCEPT ![n] = k0]
        /\ calls[n].op # "list" \/ t = "databases"
        /\ excused' = IF calls[n].op = "list"
                      THEN [excused EXCEPT ![c] = @ \cup {"databases"}] ELSE excused
    BY <1>8, <1>10 DEF ReceiveError
  <2>2. /\ excused' \in [Consoles -> SUBSET Tables]
        /\ \A d \in Consoles : excused[d] \subseteq excused'[d]
        /\ calls[n].op = "list" => t \in excused'[c]
    BY <1>3, <1>5, <1>6, <1>8, <2>1
  <2> QED
    BY <1>1, <1>3, <1>6, <1>7, <1>8, <2>1, <2>2, EndKeeps
<1>11. CASE ReceiveErrorAsList(n)
  <2>1. /\ calls[n].op = "list" /\ calls' = [calls EXCEPT ![n] = k0]
        /\ tab' \in {tab, [tab EXCEPT ![c] = Blank]}
        /\ list' = [list EXCEPT ![c][t] = ErrorBody]
        /\ excused' = [excused EXCEPT ![c] = @ \cup {t}]
    BY <1>8, <1>11 DEF ReceiveErrorAsList
  <2>2. tab' \in [Consoles -> Tabs \cup {Blank}]
    BY <1>6, <2>1
  <2>3. /\ excused' \in [Consoles -> SUBSET Tables]
        /\ \A d \in Consoles : excused[d] \subseteq excused'[d]
        /\ t \in excused'[c]
    BY <1>3, <1>5, <1>6, <1>8, <2>1
  <2>4. PICK copy : copy = ErrorBody
    OBVIOUS
  <2>5. copy.rows = NoRow /\ copy.ver = 0
    BY <2>4 DEF ErrorBody, NoCopy, Copy
  <2>6. CopyOf(t, NoRow, 0) /\ 0 \in 0..clock
    BY <1>0 DEF CopyOf, NoRow, StoreOK, TablesTyped
  <2>7. /\ ListsOK' /\ list'[c][t] = copy
        /\ \A d \in Consoles, u \in Tables : ~(d = c /\ u = t) => list'[d][u] = list[d][u]
    <3>1. /\ c \in Consoles /\ t \in Tables
          /\ list' = [list EXCEPT ![c][t] = copy]
      BY <1>3, <1>5, <1>8, <2>1, <2>4
    <3>2. Replaces(c, t, copy)
      BY <2>5, <2>6, <3>1 DEF Replaces
    <3> QED
      BY <1>0, <1>4, <3>1, <3>2, ListReplaced
  <2>8. /\ calls[n].table \in excused'[calls[n].from]
        /\ \A d \in Consoles, u \in Tables :
             ~(d = calls[n].from /\ u = calls[n].table) => list'[d][u] = list[d][u]
    BY <1>8, <2>3, <2>7
  <2>9. k0 # Free => CallOK(k0) /\ k0.op # "list"
    BY <1>8
  <2> QED
    BY <1>1, <1>3, <2>1, <2>2, <2>3, <2>7, <2>8, <2>9, EndKeeps
<1>12. CASE CallFails(n)
  <2>1. /\ list' = list /\ tab' = tab
        /\ excused' = IF calls[n].op = "list"
                      THEN [excused EXCEPT ![c] = @ \cup {t}] ELSE excused
    BY <1>8, <1>12 DEF CallFails
  <2>2. /\ excused' \in [Consoles -> SUBSET Tables]
        /\ \A d \in Consoles : excused[d] \subseteq excused'[d]
        /\ calls[n].op = "list" => t \in excused'[c]
    BY <1>3, <1>5, <1>6, <1>8, <2>1
  <2>3. CASE calls' = [calls EXCEPT ![n] = Free]
    BY <1>1, <1>3, <1>6, <1>7, <1>8, <2>1, <2>2, <2>3, EndKeeps
  <2>4. CASE /\ calls[n].pc = "sent" /\ calls[n].op # "list"
             /\ calls' = [calls EXCEPT ![n].from = Api]
    <3>1. PICK k : k = [calls[n] EXCEPT !.from = Api]
      OBVIOUS
    <3>2. calls' = [calls EXCEPT ![n] = k]
      BY <2>4, <3>1
    <3>3. /\ k.op = calls[n].op /\ k.table = calls[n].table /\ k.pc = calls[n].pc
          /\ k.status = calls[n].status /\ k.ver = calls[n].ver /\ k.body = calls[n].body
          /\ k.read = calls[n].read /\ k.edited = calls[n].edited /\ k.id = calls[n].id
      BY <3>1
    <3>4. k.from \in Callers /\ DOMAIN k = CallFields
      <4>1. DOMAIN calls[n] = CallFields
        BY <1>2 DEF CallOK
      <4>2. k.from = Api /\ DOMAIN k = CallFields
        BY <3>1, <4>1 DEF CallFields
      <4> QED
        BY <4>2, ConsoleAssumption
    <3>5. calls[n].op = "update" => FromCopy(k)
      <4>1. calls[n].op = "update" => FromCopy(calls[n])
        BY <1>2, <2>4 DEF CallOK
      <4>2. FromCopy(calls[n]) => FromCopy(k)
        BY <3>3 DEF FromCopy
      <4> QED
        BY <4>1, <4>2
    <3>6. CallOK(k) /\ k.op # "list"
      BY <1>2, <2>4, <3>3, <3>4, <3>5 DEF CallOK
    <3> QED
      BY <1>1, <1>3, <1>6, <1>7, <1>8, <2>1, <2>2, <2>4, <3>2, <3>6, EndKeeps
  <2> QED
    BY <1>12, <2>3, <2>4 DEF CallFails
<1> QED
  BY <1>9, <1>10, <1>11, <1>12

\* ReceiveSuccess.
LEMMA SuccessKeeps ==
    ASSUME IInv, NEW n \in Slots, ReceiveSuccess(n)
    PROVE  IInv'
<1>0. StoreOK /\ CallsOK /\ ListsOK /\ FormsOK /\ ConsolesOK /\ FetchesOK
  BY DEF IInv
<1>1. PICK c, t, ver : c = calls[n].from /\ t = calls[n].table /\ ver = calls[n].ver
  OBVIOUS
<1>2. /\ calls[n] # Free /\ calls[n].pc = "answered" /\ calls[n].op # "list"
      /\ UNCHANGED storeVars /\ tab' = tab /\ list' = list /\ budget' = budget
      /\ reported' = [reported EXCEPT ![c][t] = IF ver > @ THEN ver ELSE @]
      /\ form' \in {form, [form EXCEPT ![c] = NoRow]}
      /\ calls' = [calls EXCEPT ![n] = FetchCall(c, t)]
      /\ excused' = [excused EXCEPT ![c] = Overlaps(c, n, t)]
  BY <1>1 DEF ReceiveSuccess, Closed, Answered, Told, Fetch
<1>3. c \in Consoles /\ t \in Tables /\ ver \in 0..clock
  <2>1. CallOK(calls[n])
    BY <1>0, <1>2 DEF CallsOK
  <2> QED
    BY <1>1, <1>2, <2>1 DEF CallOK
<1>4. StoreOK' /\ Dated /\ clock' = clock
  BY <1>0, <1>2, TablesKept
<1>5. ListsOK'
  BY <1>0, <1>2, <1>4, ListsKept
<1>6. FormsOK'
  <2>1. DOMAIN form' = Consoles /\ \A d \in Consoles : form'[d] \in {form[d], NoRow}
    BY <1>0, <1>2 DEF FormsOK
  <2> QED
    BY <1>0, <1>4, <2>1, FormsKept
<1>7. /\ DOMAIN calls' = Slots /\ calls'[n] = FetchCall(c, t)
      /\ \A m \in Slots \ {n} : calls'[m] = calls[m]
  BY <1>0, <1>2 DEF CallsOK
<1>8. CallOK(calls[n])' /\ calls'[n].from = c /\ calls'[n].table = t
  BY <1>0, <1>3, <1>4, <1>7, FetchCallOK
<1>9. PICK N : N = {n}
  OBVIOUS
<1>10. CallsOK'
  BY <1>0, <1>4, <1>7, <1>8, <1>9, CallsStep
<1>11. /\ excused \in [Consoles -> SUBSET Tables]
       /\ reported \in [Consoles -> [Tables -> 0..clock]]
  BY <1>0 DEF ConsolesOK
<1>12. /\ \A d \in Consoles \ {c} : excused'[d] = excused[d]
       /\ excused'[c] = Overlaps(c, n, t)
       /\ excused' \in [Consoles -> SUBSET Tables]
  BY <1>2, <1>3, <1>11 DEF Overlaps
<1>13. /\ reported' \in [Consoles -> [Tables -> 0..clock]]
       /\ \A d \in Consoles, u \in Tables :
            ~(d = c /\ u = t) => reported'[d][u] = reported[d][u]
  BY <1>2, <1>3, <1>11
<1>14. ConsolesOK'
  BY <1>0, <1>2, <1>4, <1>12, <1>13 DEF ConsolesOK
<1>15. ASSUME NEW d \in Consoles, NEW u \in Tables
       PROVE  FetchOK(d, u)'
  <2>0. FetchOK(d, u)
    BY <1>0 DEF FetchesOK
  <2>1. CASE d = c /\ u = t
    <3>1. \A m \in Slots \ {n} : m \in Fetching(c, t)' <=> m \in Fetching(c, t)
      BY <1>7 DEF Fetching
    <3>2. Fetching(c, t) \ {n} # {} => t \in excused'[c]
      BY <1>12 DEF Overlaps
    <3> QED
      BY <1>3, <1>7, <2>1, <3>1, <3>2, FetchStarted
  <2>2. CASE ~(d = c /\ u = t)
    <3>1. n \notin Fetching(d, u) /\ n \notin Fetching(d, u)'
      BY <1>2, <1>8, <2>2 DEF Fetching
    <3>2. u \in excused[d] => u \in excused'[d]
      BY <1>12, <2>2 DEF Overlaps
    <3>3. \A m \in N : m \notin Fetching(d, u) /\ m \notin Fetching(d, u)'
      BY <1>9, <3>1
    <3>4. \A m \in Slots \ N : calls'[m] = calls[m]
      BY <1>7, <1>9
    <3>5. list'[d][u].ver = list[d][u].ver /\ reported'[d][u] = reported[d][u]
      BY <1>2, <1>13, <2>2
    <3> QED
      BY <2>0, <3>2, <3>3, <3>4, <3>5, FetchElsewhere
  <2> QED
    BY <2>1, <2>2
<1> QED
  BY <1>4, <1>5, <1>6, <1>10, <1>14, <1>15 DEF IInv, FetchesOK

-----------------------------------------------------------------------------
(* The theorems *)

\* The tables at first are consistent and the copies come from them.
LEMMA InitHolds == Init => IInv
<1> SUFFICES ASSUME Init
             PROVE  IInv
  OBVIOUS
<1>1. /\ rows = FirstRows /\ clock = 0 /\ calls = [n \in Slots |-> Free]
      /\ nextId = [t \in Tables |-> Cardinality(DOMAIN FirstRows[t]) + 1]
      /\ changed = [t \in Tables |-> [i \in 1..MaxId |-> 0]]
  BY DEF Init, StoreInit
<1>2. MaxId \in Nat /\ DOMAIN FirstRows = Tables
  BY StoreAssumption
<1>3. ASSUME NEW t \in Tables
      PROVE  \E k \in 0..MaxId : DOMAIN FirstRows[t] = 1..k /\ nextId[t] = k + 1
  <2>1. PICK k \in 0..MaxId : DOMAIN FirstRows[t] = 1..k
    BY StoreAssumption
  <2>2. Cardinality(1..k) = k
    BY <1>2, <2>1, FS_Interval
  <2> QED
    BY <1>1, <2>1, <2>2
<1>4. TablesTyped
  <2>1. ASSUME NEW t \in Tables
        PROVE  /\ nextId[t] \in 1..MaxId + 1 /\ DOMAIN rows[t] \subseteq 1..nextId[t] - 1
               /\ \A i \in DOMAIN rows[t] : IsRow(t, rows[t][i])
               /\ changed[t] \in [1..MaxId -> 0..clock]
    <3>1. PICK k \in 0..MaxId : DOMAIN FirstRows[t] = 1..k /\ nextId[t] = k + 1
      BY <1>3
    <3>2. nextId[t] \in 1..MaxId + 1 /\ DOMAIN rows[t] = 1..nextId[t] - 1
      BY <1>1, <1>2, <3>1
    <3>3. \A i \in DOMAIN rows[t] : IsRow(t, rows[t][i])
      BY <1>1, StoreAssumption
    <3>4. changed[t] \in [1..MaxId -> 0..clock]
      BY <1>1
    <3> QED
      BY <3>2, <3>3, <3>4
  <2> QED
    BY <1>1, <1>2, <2>1 DEF TablesTyped
<1>5. TablesConsistent
  <2>1. \A i \in DOMAIN FirstRows["databases"] : \E j \in DOMAIN FirstRows["agents"] :
            FirstRows["agents"][j].agent_id = FirstRows["databases"][i].agent_id
    BY StoreAssumption
  <2>2. \A t \in Tables : \A i, j \in DOMAIN FirstRows[t] : \A f \in UniqueColumns[t] :
            i # j => FirstRows[t][i][f] # FirstRows[t][j][f]
    BY StoreAssumption
  <2> QED
    BY <1>1, <2>1, <2>2 DEF TablesConsistent, AgentExists, Clash
<1>6. CallsOK
  BY <1>1 DEF CallsOK
<1>7. ASSUME NEW c \in Consoles, NEW t \in Tables
      PROVE  list[c][t].ver = 0 /\ CopyOf(t, list[c][t].rows, 0)
  <2>1. list[c][t] = IF t = tab[c] THEN Copy(FirstRows[t], 0) ELSE NoCopy
    BY DEF Init
  <2>2. CASE t = tab[c]
    <3>1. list[c][t].ver = 0 /\ list[c][t].rows = rows[t]
      BY <1>1, <2>1, <2>2 DEF Copy
    <3>2. DOMAIN rows[t] \subseteq 1..MaxId /\ \A i \in DOMAIN rows[t] : IsRow(t, rows[t][i])
      BY <1>4, WholeTable
    <3> QED
      BY <3>1, <3>2 DEF CopyOf, Fresh
  <2>3. CASE t # tab[c]
    <3>1. list[c][t].ver = 0 /\ list[c][t].rows = NoRow
      BY <2>1, <2>3 DEF NoCopy, Copy
    <3> QED
      BY <3>1 DEF CopyOf, NoRow
  <2> QED
    BY <2>2, <2>3
<1>8. ListsOK
  <2>1. DOMAIN list = Consoles /\ \A c \in Consoles : DOMAIN list[c] = Tables
    BY DEF Init
  <2> QED
    BY <1>1, <1>7, <2>1 DEF ListsOK
<1>9. FormsOK
  BY DEF Init, FormsOK
<1>10. ConsolesOK
  <2>1. /\ tab \in [Consoles -> Tabs \cup {Blank}] /\ excused \in [Consoles -> SUBSET Tables]
        /\ reported \in [Consoles -> [Tables -> 0..clock]]
    BY <1>1 DEF Init
  <2>2. budget = MaxClicks /\ MaxClicks \in Nat
    BY ConsoleAssumption DEF Init
  <2>3. budget \in 0..MaxClicks
    BY <2>2
  <2> QED
    BY <2>1, <2>3 DEF ConsolesOK
<1>11. FetchesOK
  <2>1. ASSUME NEW c \in Consoles, NEW t \in Tables
        PROVE  FetchOK(c, t)
    <3>1. Fetching(c, t) = {}
      BY <1>1 DEF Fetching
    <3>2. list[c][t].ver = 0 /\ reported[c][t] = 0
      BY <1>7 DEF Init
    <3> QED
      BY <3>1, <3>2 DEF FetchOK
  <2> QED
    BY <2>1 DEF FetchesOK
<1> QED
  BY <1>4, <1>5, <1>6, <1>8, <1>9, <1>10, <1>11 DEF IInv, StoreOK

\* Every step keeps the invariant.
LEMMA NextKeeps ==
    ASSUME IInv, [Next]_vars
    PROVE  IInv'
<1>1. CASE UNCHANGED vars
  <2>1. /\ UNCHANGED storeVars
        /\ UNCHANGED <<calls, tab, list, form, reported, excused, budget>>
    BY <1>1 DEF vars, serverVars, consoleVars, storeVars
  <2>2. StoreOK'
    BY <2>1 DEF storeVars, IInv, StoreOK, TablesTyped, TablesConsistent, AgentExists, Clash, IsRow
  <2>3. CallsOK'
    <3>1. ASSUME NEW n \in Slots, calls[n] # Free
          PROVE  CallOK(calls[n])'
      <4>1. CallOK(calls[n]) /\ calls'[n] = calls[n]
        BY <2>1, <3>1 DEF IInv, CallsOK
      <4>2. (FromCopy(calls[n])' <=> FromCopy(calls[n]))
        BY <2>1 DEF storeVars, FromCopy
      <4> QED
        BY <2>1, <4>1, <4>2 DEF storeVars, CallOK, CopyOf, Fresh, IsRow
    <3> QED
      BY <2>1, <3>1 DEF IInv, CallsOK
  <2>4. ListsOK' /\ FormsOK'
    BY <2>1 DEF storeVars, IInv, ListsOK, FormsOK, FormOK, CopyOf, Fresh, IsRow
  <2>5. ConsolesOK' /\ FetchesOK'
    BY <2>1 DEF storeVars, IInv, ConsolesOK, FetchesOK, FetchOK, Fetching
  <2> QED
    BY <2>2, <2>3, <2>4, <2>5 DEF IInv
<1>2. ASSUME NEW c \in Consoles, UserAtOnce(c)
      PROVE  IInv'
  BY <1>2, UserAtOnceKeeps
<1>3. ASSUME NEW c \in Consoles, NEW n \in Slots, User(c, n)
      PROVE  IInv'
  BY <1>3, SubmitKeeps, DeleteKeeps, ChangeTabKeeps DEF User
<1>4. ASSUME NEW n \in Slots, ApiSends(n)
      PROVE  IInv'
  BY <1>4, ApiSendsKeeps
<1>5. ASSUME NEW n \in Slots, Receive(n)
      PROVE  IInv'
  BY <1>5, EndingsKeep, SuccessKeeps DEF Receive
<1>6. ASSUME NEW n \in Slots, Handle(n), UNCHANGED consoleVars
      PROVE  IInv'
  BY <1>6, HandleKeeps
<1> QED
  BY <1>1, <1>2, <1>3, <1>4, <1>5, <1>6 DEF Next

\* The inductive invariant holds in every state.
LEMMA Invariance == Spec => []IInv
<1>1. IInv /\ [Next]_vars => IInv'
  BY NextKeeps
<1> QED
  BY <1>1, InitHolds, PTL DEF Spec

\* The store, the calls and the consoles are type correct.
THEOREM Typing == Spec => []TypeOK
<1>1. IInv => TypeOK
  <2> SUFFICES ASSUME IInv
               PROVE  TypeOK
    OBVIOUS
  <2>0. StoreOK /\ CallsOK /\ ListsOK /\ FormsOK /\ ConsolesOK
    BY DEF IInv
  <2>1. StoreTypeOK
    BY <2>0 DEF StoreTypeOK, StoreOK, TablesTyped, CallsOK, CallOK
  <2>2. \A c \in Consoles, t \in Tables :
            /\ list[c][t].ver \in 0..clock
            /\ \A i \in DOMAIN list[c][t].rows : IsRow(t, list[c][t].rows[i])
    BY <2>0 DEF ListsOK, CopyOf
  <2>3. \A c \in Consoles : form[c] # NoRow =>
            form[c].id \in 0..MaxId /\ IsRow(form[c].table, form[c].copy)
    BY <2>0 DEF FormsOK, FormOK
  <2> QED
    BY <2>0, <2>1, <2>2, <2>3 DEF TypeOK, ConsolesOK
<1> QED
  BY <1>1, Invariance, PTL

\* The tables stay consistent: every database names an agent that exists and
\* unique columns are unique, however calls that create, rename and delete
\* are interleaved.
THEOREM Consistency == Spec => []TablesConsistent
<1>1. IInv => TablesConsistent
  BY DEF IInv, StoreOK
<1> QED
  BY <1>1, Invariance, PTL

\* A console that waits for nothing shows the changes it was told of, unless
\* its last fetch failed or overlapped another.
THEOREM OwnChanges == Spec => []OwnChangesShown
<1>1. IInv => OwnChangesShown
  BY DEF IInv, FetchesOK, FetchOK, OwnChangesShown
<1> QED
  BY <1>1, Invariance, PTL

\* The only step that answers an update is that of its handler.
LEMMA UpdateHandledBy ==
    ASSUME IInv, [Next]_vars, NEW n \in Slots, UpdateHandled(n)
    PROVE  KeptBy(n)
<1>0. StoreOK /\ CallsOK /\ DOMAIN calls = Slots
  BY DEF IInv, CallsOK
<1>1. /\ calls[n] # Free /\ calls[n].pc = "sent"
      /\ calls'[n] # Free /\ calls'[n].pc = "answered"
  BY DEF UpdateHandled
<1>2. calls'[n] # calls[n]
  BY <1>1
<1>3. CASE UNCHANGED vars
  BY <1>2, <1>3 DEF vars, serverVars
<1>4. ASSUME NEW c \in Consoles, UserAtOnce(c)
      PROVE  FALSE
  BY <1>2, <1>4 DEF UserAtOnce, OpenModal, CloseModal, ChangeTabFails, serverVars
<1>5. ASSUME NEW m \in Slots, NEW k, calls[m] = Free, calls' = [calls EXCEPT ![m] = k]
      PROVE  FALSE
  BY <1>0, <1>1, <1>2, <1>5
<1>6. ASSUME NEW c \in Consoles, NEW m \in Slots, User(c, m)
      PROVE  FALSE
  <2>1. CASE Submit(c, m) \/ Delete(c, m)
    BY <1>5, <2>1 DEF Submit, Delete
  <2>2. ASSUME NEW t \in Tabs, ChangeTab(c, m, t)
        PROVE  FALSE
    <3>1. CASE Fetch(m, c, t)
      BY <1>5, <2>2, <3>1 DEF ChangeTab, Fetch
    <3>2. ASSUME NEW x \in Slots \ {m}, calls[x] = Free,
                 calls' = [calls EXCEPT ![m] = FetchCall(c, t), ![x] = FetchCall(c, "agents")]
          PROVE  FALSE
      <4>1. calls[m] = Free
        BY <2>2 DEF ChangeTab
      <4> QED
        BY <1>0, <1>1, <1>2, <3>2, <4>1
    <3> QED
      BY <2>2, <3>1, <3>2 DEF ChangeTab
  <2> QED
    BY <1>6, <2>1, <2>2 DEF User
<1>7. ASSUME NEW m \in Slots, ApiSends(m)
      PROVE  FALSE
  <2>1. \E k : calls' = [calls EXCEPT ![m] = k]
    BY <1>7 DEF ApiSends
  <2>2. calls[m] = Free
    BY <1>7 DEF ApiSends
  <2> QED
    BY <1>5, <2>1, <2>2
<1>8. ASSUME NEW m \in Slots, Receive(m)
      PROVE  FALSE
  <2>1. ASSUME NEW k, calls[m].pc = "answered", calls' = [calls EXCEPT ![m] = k]
        PROVE  FALSE
    BY <1>0, <1>1, <1>2, <2>1
  <2>2. CASE ReceiveList(m) \/ ReceiveError(m) \/ ReceiveErrorAsList(m)
    BY <2>1, <2>2 DEF ReceiveList, ReceiveError, ReceiveErrorAsList, Answered
  <2>3. CASE ReceiveSuccess(m)
    BY <2>1, <2>3 DEF ReceiveSuccess, Fetch, Answered
  <2>4. CASE calls' = [calls EXCEPT ![m] = Free]
    BY <1>0, <1>1, <1>2, <2>4
  <2>5. CASE calls' = [calls EXCEPT ![m].from = Api]
    <3>1. calls'[n].pc = calls[n].pc
      BY <1>0, <2>5
    <3> QED
      BY <1>1, <3>1
  <2> QED
    BY <1>8, <2>2, <2>3, <2>4, <2>5 DEF Receive, CallFails
<1>9. ASSUME NEW m \in Slots, Handle(m)
      PROVE  KeptBy(n)
  <2>1. Answers(m) /\ KeptBy(m)
    BY <1>0, <1>9, HandlersServe DEF Serves
  <2>2. m = n
    BY <1>2, <2>1 DEF Answers
  <2> QED
    BY <2>1, <2>2
<1> QED
  BY <1>3, <1>4, <1>6, <1>7, <1>8, <1>9 DEF Next

\* An update changes only the columns its sender typed into, unless the row
\* has changed since it was read, or the prefix of an agent's id was missing.
THEOREM UneditedKept == Spec => UneditedColumnsKept
<1>1. IInv /\ [Next]_vars =>
          [\A n \in Slots : UpdateHandled(n) =>
             LET t == calls[n].table  i == calls[n].id IN
             i \in DOMAIN rows[t] => \A f \in Columns[t] :
                \/ rows'[t][i][f] = rows[t][i][f]
                \/ f \in calls[n].edited
                \/ changed[t][i] > calls[n].read
                \/ Prefixed(t, i, f)]_vars
  BY UpdateHandledBy DEF KeptBy
<1> QED
  BY <1>1, Invariance, PTL DEF Spec, UneditedColumnsKept

=============================================================================
