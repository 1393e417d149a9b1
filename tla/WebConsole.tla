----------------------------- MODULE WebConsole -----------------------------
(***************************************************************************)
(* Administrators' browsers (the users, agents and databases tabs of       *)
(* frontend/src/App.jsx) and other HTTP clients at the API server.         *)
(*                                                                         *)
(* A console keeps a copy of each table, fetched when its tab is opened    *)
(* and after every change that succeeded.  Forms are filled in from that   *)
(* copy and sent back as a whole.  Nothing is disabled while a call is in  *)
(* flight, so a console may have several, and answers are applied in the   *)
(* order in which they arrive.                                             *)
(***************************************************************************)
EXTENDS ApiStore, FiniteSetsExt

CONSTANTS
    Consoles,    \* browsers
    Tabs,        \* the tabs that are opened in them
    Values,      \* Values[f]: what is typed into column f
    ApiIds,      \* ids in the calls of the other client
    ApiBodies,   \* ApiBodies[t]: bodies of the other client
    AddPrefix,   \* AddPrefix[a]: "agent-" \o a
    WithPrefix,  \* WithPrefix[a]: "agent-" \o a, or a if it starts with it
    MaxTyped,    \* columns typed into when a row is edited
    MaxClicks    \* bound on what users and the other client start

ASSUME ConsoleAssumption ==
    /\ Callers = Consoles \cup {Api} /\ Api \notin Consoles
    /\ Tabs \subseteq Tables
    /\ AddPrefix \in [Values["agent_id"] -> AgentIds]
    /\ WithPrefix \in [AgentIds \cup {""} -> AgentIds \cup {""}]
    /\ \A t \in Tables : \A b \in ApiBodies[t] : IsRow(t, b)
    /\ MaxClicks \in Nat /\ MaxTyped \in Nat

VARIABLES
    tab,       \* tab[c]: the tab that is shown, or Blank once the page has failed
    list,      \* list[c][t]: the copy of t, when it was read, whether it is a list
    form,      \* form[c]: the open form, or NoRow
    budget,    \* what users and the other client may still start
    reported,  \* reported[c][t]: clock of the last change of t that c was told succeeded
    excused    \* excused[c]: tables whose last fetch failed or overlapped another

consoleVars == <<tab, list, form, budget, reported, excused>>
vars == <<serverVars, consoleVars>>

Blank == "blank"
Copy(rs, ver) == [rows |-> rs, ver |-> ver, isList |-> TRUE]
NoCopy == Copy(NoRow, 0)
ErrorBody == [NoCopy EXCEPT !.isList = FALSE]
EmptyRow(t) == [f \in Columns[t] |-> ""]

TypeOK ==
    /\ StoreTypeOK
    /\ tab \in [Consoles -> Tabs \cup {Blank}]
    /\ \A c \in Consoles, t \in Tables :
         /\ list[c][t].ver \in 0..clock
         /\ \A i \in DOMAIN list[c][t].rows : IsRow(t, list[c][t].rows[i])
    /\ \A c \in Consoles : form[c] # NoRow =>
         /\ form[c].id \in 0..MaxId
         /\ IsRow(form[c].table, form[c].copy)
    /\ budget \in 0..MaxClicks
    /\ reported \in [Consoles -> [Tables -> 0..clock]]
    /\ excused \in [Consoles -> SUBSET Tables]

Fetching(c, t) ==
    {n \in Slots : /\ calls[n] # Free
                   /\ calls[n].from = c /\ calls[n].op = "list" /\ calls[n].table = t}

\* The page was opened on a tab whose fetch is already answered.
Init ==
    /\ StoreInit
    /\ tab \in [Consoles -> Tabs \ {"databases"}]
    /\ list = [c \in Consoles |-> [t \in Tables |->
                 IF t = tab[c] THEN Copy(FirstRows[t], 0) ELSE NoCopy]]
    /\ form = [c \in Consoles |-> NoRow]
    /\ budget = MaxClicks
    /\ reported = [c \in Consoles |-> [t \in Tables |-> 0]]
    /\ excused = [c \in Consoles |-> {}]

-----------------------------------------------------------------------------
(* The user *)

\* A fetch of t starts in slot n; the others of t are still under way.
Overlaps(c, n, t) ==
    IF Fetching(c, t) \ {n} = {} THEN excused[c] \ {t} ELSE excused[c] \cup {t}

FetchCall(c, t) == NewCall(c, "list", t, 0, NoRow, {}, 0)

\* fetchUsers, fetchAgents and fetchDatabases.
Fetch(n, c, t) ==
    /\ calls' = [calls EXCEPT ![n] = FetchCall(c, t)]
    /\ excused' = [excused EXCEPT ![c] = Overlaps(c, n, t)]

\* The page maps over the list of its tab, and over the agents in the form of
\* a database; what is not a list makes it fail, and nothing catches that.
Rendered(tb, m) ==
    {tb} \cup IF m # NoRow /\ m.table = "databases" THEN {"agents"} ELSE {}

\* changeTab or a hashchange, which may come while a form is open and leaves
\* it open, and the effect that fetches what the tab shows: the databases tab
\* needs the agents as well.
ChangeTab(c, n, t) ==
    /\ calls[n] = Free
    /\ tab[c] \notin {t, Blank} /\ budget > 0
    /\ budget' = budget - 1
    /\ list[c][t].isList \/ Fetching(c, t) # {}
    /\ tab' = [tab EXCEPT ![c] = t]
    /\ \/ t # "databases" /\ Fetch(n, c, t)
       \/ /\ t = "databases"
          /\ \E m \in Slots \ {n} :
               /\ calls[m] = Free
               /\ calls' = [calls EXCEPT ![n] = FetchCall(c, t), ![m] = FetchCall(c, "agents")]
          /\ excused' = [excused EXCEPT ![c] =
                           (Overlaps(c, n, t) \ {"agents"})
                              \cup (Overlaps(c, n, "agents") \cap {"agents"})]
    /\ UNCHANGED <<storeVars, list, form, reported>>

\* The tab shows an error body: the page fails before the effect runs, unless
\* the copy is hidden by the sign that t is being loaded.
ChangeTabFails(c, t) ==
    /\ tab[c] \notin {t, Blank} /\ budget > 0
    /\ ~list[c][t].isList /\ Fetching(c, t) = {}
    /\ budget' = budget - 1
    /\ tab' = [tab EXCEPT ![c] = Blank]
    /\ UNCHANGED <<serverVars, list, form, reported, excused>>

\* openUserModal, openAgentModal, openDatabaseModal: for a new row (id 0) or
\* for one of the list.
OpenModal(c) ==
    LET t == tab[c] IN
    /\ form[c] = NoRow /\ t # Blank
    /\ \/ form' = [form EXCEPT ![c] = [table |-> t, id |-> 0, copy |-> EmptyRow(t), read |-> 0]]
       \/ \E i \in DOMAIN list[c][t].rows :
            form' = [form EXCEPT ![c] = [table |-> t, id |-> i, copy |-> list[c][t].rows[i],
                                         read |-> list[c][t].ver]]
    /\ tab' = IF \A u \in Rendered(t, form'[c]) : list[c][u].isList
              THEN tab ELSE [tab EXCEPT ![c] = Blank]
    /\ UNCHANGED <<serverVars, list, budget, reported, excused>>

CloseModal(c) ==
    /\ form[c] # NoRow /\ tab[c] # Blank
    /\ form' = [form EXCEPT ![c] = NoRow]
    /\ UNCHANGED <<serverVars, tab, list, budget, reported, excused>>

\* Mutant of Filled: the optional columns of a form that edits a row stay empty.
FilledRequired(m, given) ==
    [f \in Columns[m.table] |->
       IF f \in DOMAIN given THEN given[f]
       ELSE IF f \in Required[m.table] THEN m.copy[f] ELSE ""]

\* What is sent: what was typed into the form, and the copy elsewhere.
Filled(m, given) ==
    [f \in Columns[m.table] |-> IF f \in DOMAIN given THEN given[f] ELSE m.copy[f]]

\* The columns typed into and what was typed.  A new row is filled in as a
\* whole; an agent's id cannot be typed into when a row is edited.
Inputs(m) ==
    LET open == IF m.table = "agents" /\ m.id # 0 THEN Columns["agents"] \ {"agent_id"}
                ELSE Columns[m.table] IN
    {given \in UNION {[fs -> UNION {Values[f] : f \in fs}] :
                         fs \in IF m.id = 0 THEN {open} ELSE kSubset(MaxTyped, open)} :
        \A f \in DOMAIN given : given[f] \in Values[f]}

\* The form of an agent puts "agent-" before the id in any case.  When a row is
\* edited it shows the id without it, if it starts with it.
Submitted(m, body) ==
    IF m.table = "agents"
    THEN [body EXCEPT !.agent_id = IF m.id = 0 THEN AddPrefix[@] ELSE WithPrefix[@]]
    ELSE body

\* handleUserSubmit, handleAgentSubmit, handleDatabaseSubmit up to the answer.
\* The form stays open, and may be changed and submitted again.
Submit(c, n) ==
    LET m == form[c] IN
    /\ m # NoRow /\ tab[c] # Blank
    /\ calls[n] = Free /\ budget > 0
    /\ budget' = budget - 1
    /\ \E given \in Inputs(m) :
         /\ ~Incomplete(m.table, Filled(m, given))
         /\ calls' = [calls EXCEPT ![n] =
              NewCall(c, IF m.id = 0 THEN "create" ELSE "update", m.table, m.id,
                      Submitted(m, Filled(m, given)), DOMAIN given, m.read)]
    /\ UNCHANGED <<storeVars, tab, list, form, reported, excused>>

\* handleDeleteUser, handleDeleteAgent, handleDeleteDatabase.
Delete(c, n) ==
    /\ form[c] = NoRow /\ tab[c] # Blank
    /\ calls[n] = Free /\ budget > 0
    /\ budget' = budget - 1
    /\ \E i \in DOMAIN list[c][tab[c]].rows :
         calls' = [calls EXCEPT ![n] = NewCall(c, "delete", tab[c], i, NoRow, {}, 0)]
    /\ UNCHANGED <<storeVars, tab, list, form, reported, excused>>

\* Another HTTP client sends what it likes, one call at a time.
ApiSends(n) ==
    LET send(op, t, i, body, edited) ==
          calls' = [calls EXCEPT ![n] = NewCall(Api, op, t, i, body, edited, 0)]
    IN
    /\ calls[n] = Free /\ budget > 0
    /\ \A m \in Slots : calls[m] # Free => calls[m].from # Api
    /\ budget' = budget - 1
    /\ \E t \in Tables :
         \/ send("malformed", t, 0, NoRow, {})
         \/ \E op \in {"get", "delete"}, i \in ApiIds : send(op, t, i, NoRow, {})
         \/ \E b \in ApiBodies[t] : send("create", t, 0, b, Columns[t])
         \/ \E i \in ApiIds, b \in ApiBodies[t] : send("update", t, i, b, Columns[t])
    /\ UNCHANGED <<storeVars, tab, list, form, reported, excused>>

-----------------------------------------------------------------------------
(* Answers *)

Answered(n) == calls[n] # Free /\ calls[n].pc = "answered"
Ok(n) == calls[n].status \in {200, 201}

ReceiveList(n) ==
    LET c == calls[n].from  t == calls[n].table IN
    /\ Answered(n) /\ calls[n].op = "list" /\ Ok(n)
    /\ list' = [list EXCEPT ![c][t] = Copy(calls[n].data, calls[n].ver)]
    /\ calls' = [calls EXCEPT ![n] = Free]
    /\ UNCHANGED <<storeVars, tab, form, budget, reported, excused>>

Told(n) ==
    [reported EXCEPT ![calls[n].from][calls[n].table] =
       IF calls[n].ver > @ THEN calls[n].ver ELSE @]

\* closeUserModal, closeAgentModal, closeDatabaseModal: a change, but not a
\* deletion, that succeeded closes the form of its table, whichever row that
\* shows by then.
Closed(n) ==
    LET c == calls[n].from IN
    IF calls[n].op = "delete" \/ form[c] = NoRow \/ form[c].table # calls[n].table
    THEN form ELSE [form EXCEPT ![c] = NoRow]

\* Mutant of ReceiveSuccess: the list is not fetched again.
ReceiveSuccessOnly(n) ==
    /\ Answered(n) /\ calls[n].op # "list" /\ Ok(n)
    /\ reported' = Told(n)
    /\ form' = Closed(n)
    /\ calls' = [calls EXCEPT ![n] = Free]
    /\ UNCHANGED <<storeVars, tab, list, budget, excused>>

\* The list is fetched again after every change.
ReceiveSuccess(n) ==
    /\ Answered(n) /\ calls[n].op # "list" /\ Ok(n)
    /\ reported' = Told(n)
    /\ form' = Closed(n)
    /\ Fetch(n, calls[n].from, calls[n].table)
    /\ UNCHANGED <<storeVars, tab, list, budget>>

\* The error of a change is shown, and that of a fetch of the databases, whose
\* body is not JSON and does not parse.
ReceiveError(n) ==
    /\ Answered(n) /\ ~Ok(n)
    /\ calls[n].op # "list" \/ calls[n].table = "databases"
    /\ calls' = [calls EXCEPT ![n] = Free]
    /\ excused' = IF calls[n].op = "list"
                  THEN [excused EXCEPT ![calls[n].from] = @ \cup {"databases"}] ELSE excused
    /\ UNCHANGED <<storeVars, tab, list, form, budget, reported>>

\* The fetches of users and agents do not look at the status: the body of the
\* error takes the place of the list.
ReceiveErrorAsList(n) ==
    LET c == calls[n].from  t == calls[n].table IN
    /\ Answered(n) /\ ~Ok(n)
    /\ calls[n].op = "list" /\ t # "databases"
    /\ list' = [list EXCEPT ![c][t] = ErrorBody]
    /\ tab' = IF t \in Rendered(tab[c], form[c]) THEN [tab EXCEPT ![c] = Blank] ELSE tab
    /\ calls' = [calls EXCEPT ![n] = Free]
    /\ excused' = [excused EXCEPT ![c] = @ \cup {t}]
    /\ UNCHANGED <<storeVars, form, budget, reported>>

\* The connection fails: the call is lost, or handled though nobody waits for
\* it, or its answer is lost.
CallFails(n) ==
    /\ calls[n] # Free /\ calls[n].from # Api
    /\ \/ calls' = [calls EXCEPT ![n] = Free]
       \/ /\ calls[n].pc = "sent" /\ calls[n].op # "list"
          /\ calls' = [calls EXCEPT ![n].from = Api]
    /\ excused' = IF calls[n].op = "list"
                  THEN [excused EXCEPT ![calls[n].from] = @ \cup {calls[n].table}] ELSE excused
    /\ UNCHANGED <<storeVars, tab, list, form, budget, reported>>

-----------------------------------------------------------------------------
User(c, n) == Submit(c, n) \/ Delete(c, n) \/ \E t \in Tabs : ChangeTab(c, n, t)

UserAtOnce(c) == OpenModal(c) \/ CloseModal(c) \/ \E t \in Tabs : ChangeTabFails(c, t)

Receive(n) ==
    \/ ReceiveList(n) \/ ReceiveSuccess(n) \/ ReceiveError(n)
    \/ ReceiveErrorAsList(n)
    \/ CallFails(n)

Next ==
    \/ \E c \in Consoles : UserAtOnce(c) \/ \E n \in Slots : User(c, n)
    \/ \E n \in Slots : \/ ApiSends(n) \/ Receive(n)
                        \/ Handle(n) /\ UNCHANGED consoleVars

Spec == Init /\ [][Next]_vars

-----------------------------------------------------------------------------
(* Properties *)

\* Every database names an agent that exists and no two rows share a unique
\* column, whatever is created, renamed and deleted at the same time: queries
\* are sent to the agent that the row names (api-server/main.go:86), so a row
\* without one could never be used.
TablesConsistent ==
    /\ \A i \in DOMAIN rows["databases"] : AgentExists(rows["databases"][i].agent_id)
    /\ \A t \in Tables : \A i \in DOMAIN rows[t] : ~Clash(t, i, rows[t][i])

\* The step answers call n, an update.
UpdateHandled(n) ==
    /\ calls[n] # Free /\ calls[n].pc = "sent" /\ calls[n].op = "update"
    /\ calls'[n] # Free /\ calls'[n].pc = "answered"

\* The form of an agent adds the prefix to an id that lacks it.
Prefixed(t, i, f) ==
    /\ t = "agents" /\ f = "agent_id"
    /\ rows'[t][i][f] = WithPrefix[rows[t][i][f]]

\* A form is sent back as a whole and handleUpdateDatabase replaces the whole
\* row (databases.go:164), so the columns the administrator did not touch
\* rely on the copy.  They keep their values, unless the row has changed
\* since the copy was read: then the other change is lost.
UneditedColumnsKept ==
    [][\A n \in Slots : UpdateHandled(n) =>
         LET t == calls[n].table  i == calls[n].id IN
         i \in DOMAIN rows[t] => \A f \in Columns[t] :
            \/ rows'[t][i][f] = rows[t][i][f]
            \/ f \in calls[n].edited
            \/ changed[t][i] > calls[n].read
            \/ Prefixed(t, i, f)]_vars

\* "Database updated successfully" (databases.go:181, shown by App.jsx:515):
\* there is such a row, and it is what was sent.  The handler does not look at
\* the number of rows its UPDATE has changed, and says so of a database that
\* was deleted after the form had been opened.
DatabaseUpdatedSuccessfully ==
    [][\A n \in Slots : UpdateHandled(n) /\ calls[n].table = "databases"
                         /\ calls'[n].status = 200 =>
         /\ calls[n].id \in DOMAIN rows'["databases"]
         /\ rows'["databases"][calls[n].id] = calls[n].body]_vars

\* A console that waits for nothing shows every change it has told its user
\* was made, in a copy read after the change, except when its last fetch
\* failed or overlapped another one (App.jsx applies answers as they arrive).
OwnChangesShown ==
    \A c \in Consoles, t \in Tables :
        Fetching(c, t) = {} /\ t \notin excused[c] => list[c][t].ver >= reported[c][t]

=============================================================================
