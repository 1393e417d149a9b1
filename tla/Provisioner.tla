---------------------------- MODULE Provisioner -----------------------------
(***************************************************************************)
(* The agent's database role provisioner and its runbook hook              *)
(* (agent/controller/system), next to the sessions that use the passwords  *)
(* they store in Vault.                                                    *)
(*                                                                         *)
(* Every request packet gets a goroutine.  Goroutines share the lock store *)
(* (memoryStore), the databases and Vault; each access to one of them is a *)
(* step.  The process may die between any two steps.                       *)
(***************************************************************************)
EXTENDS SecretsManager

CONSTANTS
    Requests,    \* request packets the agent may receive
    Resources,   \* database instances
    HostOf,      \* HostOf[x]: the host of instance x
    RoleNames,   \* the roles, in the order they are provisioned
    MaxCrashes   \* bound on deaths of the process

Roles == {RoleNames[k] : k \in DOMAIN RoleNames}

Postgres == {"postgres", "aurora-postgresql"}
MySQL == {"mysql", "aurora-mysql"}
MSSQL == {"sqlserver-ee", "sqlserver-se", "sqlserver-ex", "sqlserver-web"}
Engines == Postgres \cup MySQL \cup MSSQL

ASSUME ProvisionerAssumption ==
    /\ \A l \in Loads, r \in Requests :
         /\ l.req[r].kind \in {"provision", "hook", "malformed", "none"}
         /\ l.req[r].kind = "provision" => /\ l.req[r].resource \in Resources
                                           /\ l.req[r].vault \in BOOLEAN
    /\ RoleNames \in Seq(Roles) /\ RoleNames # << >>
    /\ \A j, k \in DOMAIN RoleNames : RoleNames[j] = RoleNames[k] => j = k
    \* The secrets of the roles are Vault's, and no password is made up twice.
    /\ \A x \in Resources, o \in Roles :
         <<HostOf[x], o>> \in SecretIds /\ MountOf[<<HostOf[x], o>>] = "kv2"
    /\ \A i \in SecretIds : Written[i] \notin Requests \X Roles
    /\ None \notin Requests /\ None \notin Requests \X Roles
    /\ None \notin {"completed", "failed", "hook1", "hook-2"}
    /\ MaxCrashes \in Nat

VARIABLES
    lock,     \* resources memoryStore has an entry for
    db,       \* db[x][o]: the password instance x takes for role o, or None
    prov,     \* prov[r]: the goroutine of request r
    raced,    \* resources whose last lock holders did not exclude each other
    latest,   \* latest[x]: the request that was last to get to work on x
    storer,   \* storer[i]: the resource secret i was last written for
    crashes

provisionVars == <<lock, db, prov, raced, latest, storer, crashes>>
vars == <<secretVars, provisionVars>>

\* ReqOf[r]: what request r asks for.
ReqOf == load.req

\* The password that request r makes up for role o.
Password(r, o) == <<r, o>>

\* The credentials in Vault are at a path made of the user and the host.
SecretId(x, o) == <<HostOf[x], o>>

\* The goroutine of a request: where it is; the role it is at; whether a role
\* failed; the passwords the response holds; the status of the response.
Idle == [pc |-> "idle", k |-> 1, roleFailed |-> FALSE, sent |-> {}, status |-> None]

Working == {"set", "init", "role", "vault", "answer", "unlock"}

TypeOK ==
    /\ lock \subseteq Resources /\ raced \subseteq Resources
    /\ \A x \in Resources, o \in Roles : db[x][o] \in {None} \cup (Requests \X Roles)
    /\ \A r \in Requests :
         /\ prov[r].pc \in {"idle", "done", "dead"} \cup Working
         /\ prov[r].k \in DOMAIN RoleNames
         /\ prov[r].roleFailed \in BOOLEAN
         /\ prov[r].sent \subseteq {Password(r, o) : o \in Roles}
         /\ prov[r].status \in {"completed", "failed", "hook1", "hook-2"}
              \cup (IF prov[r].pc \in {"answer", "unlock", "done"} THEN {} ELSE {None})
    /\ \A s \in Sessions :
         /\ dec[s].pc \in {"idle", "decoding", "decoded", "failed"}
         /\ dec[s].todo \subseteq DOMAIN EnvOf[s] /\ DOMAIN dec[s].out \subseteq DOMAIN EnvOf[s]

Init ==
    /\ SecretsInit
    /\ lock = {}
    /\ db = [x \in Resources |-> [o \in Roles |-> None]]
    /\ prov = [r \in Requests |-> Idle]
    /\ raced = {}
    /\ latest = [x \in Resources |-> None]
    /\ storer = [i \in SecretIds |-> None]
    /\ crashes = 0

-----------------------------------------------------------------------------
At(r, pc) == prov[r].pc = pc
Goto(r, pc) == prov' = [prov EXCEPT ![r].pc = pc]
Resource(r) == ReqOf[r].resource

WorkingOn(x) ==
    {r \in Requests : /\ ReqOf[r].kind = "provision" /\ ReqOf[r].resource = x
                      /\ prov[r].pc \in Working}

\* sendResponse with an error: no result.
AnswerError(r, next) ==
    prov' = [prov EXCEPT ![r].pc = next, ![r].status = "failed"]

\* processRequest of the runbook hook: the library's stub reports exit code 1
\* at once, and a payload that does not parse is answered with -2.
RunbookHook(r) ==
    /\ At(r, "idle") /\ ReqOf[r].kind = "hook"
    /\ \E code \in {"hook1", "hook-2"} :
         prov' = [prov EXCEPT ![r].pc = "done", ![r].status = code]
    /\ UNCHANGED <<secretVars, lock, db, raced, latest, storer, crashes>>

\* A provisioning request whose payload does not parse.
Malformed(r) ==
    /\ At(r, "idle") /\ ReqOf[r].kind = "malformed"
    /\ AnswerError(r, "done")
    /\ UNCHANGED <<secretVars, lock, db, raced, latest, storer, crashes>>

\* The payload parses, then memoryStore.Has.  If another request has passed it
\* and not done its Set yet, the two do not exclude each other, nor does either
\* exclude a third once the other one has deleted the entry.
CheckLock(r) ==
    /\ At(r, "idle") /\ ReqOf[r].kind = "provision"
    /\ \/ Resource(r) \in lock /\ AnswerError(r, "done") /\ UNCHANGED raced
       \/ /\ Resource(r) \notin lock /\ Goto(r, "set")
          /\ raced' = IF \E q \in WorkingOn(Resource(r)) : At(q, "set")
                      THEN raced \cup {Resource(r)} ELSE raced
    /\ UNCHANGED <<secretVars, lock, db, latest, storer, crashes>>

\* memoryStore.Set.  A request that is alone then excludes all others.
SetLock(r) ==
    /\ At(r, "set")
    /\ lock' = lock \cup {Resource(r)}
    /\ latest' = [latest EXCEPT ![Resource(r)] = r]
    /\ raced' = IF WorkingOn(Resource(r)) = {r} THEN raced \ {Resource(r)} ELSE raced
    /\ Goto(r, "init")
    /\ UNCHANGED <<secretVars, db, storer, crashes>>

\* NewVaultProvider and the switch on the database type; sql.Open, the ping
\* and, for PostgreSQL, the list of databases.
Connect(r) ==
    /\ At(r, "init")
    /\ IF (ReqOf[r].vault /\ ~VaultConfigured) \/ ReqOf[r].engine \notin Engines
       THEN AnswerError(r, "unlock")
       ELSE Goto(r, "role") \/ AnswerError(r, "answer")
    /\ UNCHANGED <<secretVars, lock, db, raced, latest, storer, crashes>>

\* What provisioning a role may come to: the password the role then takes, and
\* whether an error is returned, in which case what was sent to the instance
\* took effect or not.
Outcomes(r, o, others) ==
    {[ok |-> TRUE, password |-> Password(r, o)]}
      \cup [ok : {FALSE}, password : {db[Resource(r)][o], Password(r, o)} \cup others]

\* The statement is sent to each database of the instance in turn, up to the
\* first error, and the role is one for all of them.
ProvisionPostgresRole(r, o) == Outcomes(r, o, {})

\* DDL is not subject to the transaction around it: after DROP USER the
\* instance may be left without the user.
ProvisionMySQLRole(r, o) == Outcomes(r, o, {None})

\* One transaction.
ProvisionMSSQLRole(r, o) == Outcomes(r, o, {})

\* Mutant of RoleDone: a status that the engine left open stays open.
RoleDoneNoStatus(r, ok) ==
    LET last   == prov[r].k = Len(RoleNames)
        failed == prov[r].roleFailed \/ ~ok IN
    prov' = [prov EXCEPT
      ![r].roleFailed = failed,
      ![r].k = IF last THEN 1 ELSE @ + 1,
      ![r].sent = IF ok THEN @ \cup {Password(r, RoleNames[prov[r].k])} ELSE @,
      ![r].status = IF last /\ failed THEN "failed" ELSE @,
      ![r].pc = IF ~last THEN "role"
                ELSE IF ReqOf[r].vault /\ ~failed THEN "vault" ELSE "answer"]

\* A role is done; after the last one, one that failed makes the status
\* "failed", and Vault is left out.
RoleDone(r, ok) ==
    LET last   == prov[r].k = Len(RoleNames)
        failed == prov[r].roleFailed \/ ~ok IN
    prov' = [prov EXCEPT
      ![r].roleFailed = failed,
      ![r].k = IF last THEN 1 ELSE @ + 1,
      ![r].sent = IF ok THEN @ \cup {Password(r, RoleNames[prov[r].k])} ELSE @,
      ![r].status = IF ~last THEN @ ELSE IF failed THEN "failed" ELSE "completed",
      ![r].pc = IF ~last THEN "role"
                ELSE IF ReqOf[r].vault /\ ~failed THEN "vault" ELSE "answer"]

\* The next role in the loop of provisionPostgresRoles, provisionMySQLRoles or
\* provisionMSSQLRoles: a failure does not keep the ones that follow from
\* being provisioned.
ProvisionRole(r) ==
    LET o == RoleNames[prov[r].k] IN
    /\ At(r, "role")
    /\ \E out \in CASE ReqOf[r].engine \in Postgres -> ProvisionPostgresRole(r, o)
                    [] ReqOf[r].engine \in MySQL    -> ProvisionMySQLRole(r, o)
                    [] ReqOf[r].engine \in MSSQL    -> ProvisionMSSQLRole(r, o) :
         /\ db' = [db EXCEPT ![Resource(r)][o] = out.password]
         /\ RoleDone(r, out.ok)
    /\ UNCHANGED <<secretVars, lock, raced, latest, storer, crashes>>

\* Mutant of Stored: an error is noted for the role only.
StoredQuietly(r, ok) ==
    LET last == prov[r].k = Len(RoleNames) IN
    prov' = [prov EXCEPT
      ![r].sent = @ \ {Password(r, RoleNames[prov[r].k])},
      ![r].k = IF last THEN 1 ELSE @ + 1,
      ![r].pc = IF last THEN "answer" ELSE "vault"]

\* The password is taken out of the response whether it was stored or not.
Stored(r, ok) ==
    LET last == prov[r].k = Len(RoleNames) IN
    prov' = [prov EXCEPT
      ![r].sent = @ \ {Password(r, RoleNames[prov[r].k])},
      ![r].status = IF ok THEN @ ELSE "failed",
      ![r].k = IF last THEN 1 ELSE @ + 1,
      ![r].pc = IF last THEN "answer" ELSE "vault"]

\* vault.SetValue for one role.
StoreInVault(r) ==
    LET o == RoleNames[prov[r].k]  i == SecretId(Resource(r), o) IN
    /\ At(r, "vault")
    /\ \/ SetValueSucceeds(i, Password(r, o)) /\ Stored(r, TRUE)
       \/ SetValueFails(i, Password(r, o)) /\ Stored(r, FALSE)
    /\ storer' = IF secrets' # secrets THEN [storer EXCEPT ![i] = Resource(r)] ELSE storer
    /\ UNCHANGED <<load, dec, lock, db, raced, latest, crashes>>

\* The exec hook, if there is one, then sendResponse.  The hook is run after
\* a failure too; the library's stub reports exit code 1 at once and closes
\* the pipes, which ends both readers, and the status is left as it is.
SendResponse(r) ==
    /\ At(r, "answer")
    /\ Goto(r, "unlock")
    /\ UNCHANGED <<secretVars, lock, db, raced, latest, storer, crashes>>

\* Mutant of Unlock: a failed request keeps the lock.
UnlockOnSuccess(r) ==
    /\ At(r, "unlock")
    /\ lock' = IF prov[r].status = "completed" THEN lock \ {Resource(r)} ELSE lock
    /\ Goto(r, "done")
    /\ UNCHANGED <<secretVars, db, raced, latest, storer, crashes>>

\* The deferred Del.
Unlock(r) ==
    /\ At(r, "unlock")
    /\ lock' = lock \ {Resource(r)}
    /\ Goto(r, "done")
    /\ UNCHANGED <<secretVars, db, raced, latest, storer, crashes>>

\* The process dies and is started again.
Crash ==
    /\ crashes < MaxCrashes
    /\ crashes' = crashes + 1
    /\ lock' = {}
    /\ prov' = [r \in Requests |-> IF prov[r].pc \in {"idle", "done"} THEN prov[r]
                                   ELSE [Idle EXCEPT !.pc = "dead"]]
    /\ dec' = [s \in Sessions |-> IF dec[s].pc = "decoding"
                 THEN [NotDecoded EXCEPT !.pc = "failed"] ELSE dec[s]]
    /\ UNCHANGED <<load, secrets, db, raced, latest, storer>>

-----------------------------------------------------------------------------
Goroutine(r) ==
    \/ RunbookHook(r) \/ Malformed(r) \/ CheckLock(r) \/ SetLock(r) \/ Connect(r)
    \/ ProvisionRole(r) \/ StoreInVault(r) \/ SendResponse(r) \/ Unlock(r)

Next ==
    \/ \E r \in Requests : Goroutine(r)
    \/ \E s \in Sessions : DecodeStep(s) /\ UNCHANGED provisionVars
    \/ Crash

Spec == Init /\ [][Next]_vars

-----------------------------------------------------------------------------
(* Properties *)

\* The requests for x that got past the lock.
PastLock(x) == {r \in WorkingOn(x) : ~At(r, "set")}

\* "use a lock mechanism to avoid initializing multiple process to the same
\* instance" (dbprovisioner.go:37).  Has and Set are two calls, so two requests
\* may both find the instance free.
OneProcessPerInstance == \A x \in Resources : Cardinality(PastLock(x)) <= 1

\* The last request for x has been answered: all roles are provisioned.
Settled(x) ==
    /\ latest[x] # None /\ WorkingOn(x) = {} /\ x \notin raced
    /\ prov[latest[x]].status = "completed"

\* The secrets of x are the ones last written for x, not for another
\* instance on the same host: the path in Vault has no port in it.
InVault(x) ==
    /\ Settled(x) /\ ReqOf[latest[x]].vault
    /\ \A o \in Roles : storer[SecretId(x, o)] = x

VaultPath(x, o) == UrlPath("kv2", SecretId(x, o))

\* "All user roles have been successfully provisioned" (MessageCompleted,
\* common/proto/system/dbprovisioner.go:17): the instance takes the passwords
\* of that request, whatever failed or died before it, and with Vault those
\* are the ones that Vault holds.
CredentialsWork ==
    \A x \in Resources, o \in Roles :
        /\ Settled(x) => db[x][o] = Password(latest[x], o)
        /\ InVault(x) => secrets[VaultPath(x, o)] = Password(latest[x], o)

\* "avoid password from being sent by the network when Vault is set"
\* (dbprovisioner.go:100).  That is only done where the passwords are stored,
\* which is left out when a role has failed: the passwords of the others are
\* sent then.
NoPasswordSentWithVault ==
    \A r \in Requests :
        /\ ReqOf[r].kind = "provision" /\ ReqOf[r].vault
        /\ prov[r].pc \in {"unlock", "done"}
        => prov[r].sent = {}

\* A session gets all of its env vars or none (secretsmanager.go:91), and the
\* user and the password of one secret belong together, even if the secret is
\* written while Decode is under way.
DecodedTogether ==
    \A s \in Sessions : dec[s].pc = "decoded" =>
        /\ DOMAIN dec[s].out = DOMAIN EnvOf[s]
        /\ \A e, f \in DOMAIN EnvOf[s] :
             /\ EnvOf[s][e].kind = "ref" /\ EnvOf[s][f].kind = "ref"
             /\ Slot(s, e) = Slot(s, f)
             => dec[s].out[e] = dec[s].out[f]

\* A session that was opened after the passwords of x were stored gets the
\* ones the instance takes.  One that is opened between the change of a role
\* and its SetValue does not.
SessionPasswordWorks ==
    \A s \in Sessions : dec[s].pc = "decoded" =>
        \A e \in DOMAIN EnvOf[s], x \in Resources, o \in Roles :
            /\ EnvOf[s][e].kind = "ref" /\ EnvOf[s][e].provider = "kv2"
            /\ EnvOf[s][e].id = SecretId(x, o)
            /\ InVault(x) /\ dec[s].since[VaultPath(x, o)] = secrets[VaultPath(x, o)]
            => dec[s].out[e] = db[x][o]

\* "process already being executed" (dbprovisioner.go:40) is only said while
\* it is: no request, however it ends, leaves its lock behind.
LockHasHolder == \A x \in lock : WorkingOn(x) # {}

=============================================================================
