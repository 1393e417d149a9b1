-------------------------- MODULE ProvisionerProofs --------------------------
(***************************************************************************)
(* Proofs about the role provisioner and the sessions that use its         *)
(* passwords, for any requests, instances, roles, secrets and crashes.     *)
(***************************************************************************)
EXTENDS Provisioner, FiniteSetTheorems, TLAPS

-----------------------------------------------------------------------------
(* The inductive invariant *)

\* The goroutines, with the fields of Idle.
Statuses == {"completed", "failed", "hook1", "hook-2"}
Pcs == {"idle", "done", "dead"} \cup Working
Prov ==
    [pc : Pcs, k : DOMAIN RoleNames, roleFailed : BOOLEAN,
     sent : SUBSET (Requests \X Roles), status : Statuses \cup {None}]

\* Shapes of the state, as far as provisioning needs them.
Shapes ==
    /\ load \in Loads
    /\ lock \subseteq Resources /\ raced \subseteq Resources
    /\ db \in [Resources -> [Roles -> {None} \cup (Requests \X Roles)]]
    /\ prov \in [Requests -> Prov]
    /\ latest \in [Resources -> Requests \cup {None}]
    /\ storer \in [SecretIds -> Resources \cup {None}]
    /\ DOMAIN secrets = Paths /\ secrets = [p \in Paths |-> secrets[p]]

\* The record a request is received with.
AsReceived(c) == c.k = 1 /\ c.roleFailed = FALSE /\ c.sent = {} /\ c.status = None

\* A request works only if it is for an instance; until it has connected it
\* is as it was received; and it has a status once its roles are done.
Progress ==
    \A r \in Requests :
        /\ prov[r].pc \in Working => ReqOf[r].kind = "provision"
        /\ prov[r].pc \in {"idle", "set", "init", "dead"} => AsReceived(prov[r])
        /\ prov[r].pc \in {"vault", "answer", "unlock", "done"} => prov[r].status # None
        /\ prov[r].pc = "role" => prov[r].status = None /\ ReqOf[r].engine \in Engines
        /\ prov[r].sent \subseteq {Password(r, o) : o \in Roles}
        /\ prov[r].pc = "vault" => ReqOf[r].vault

\* Where no race was met, one request works at a time, under the lock.
Locking ==
    \A x \in Resources \ raced : \A r \in WorkingOn(x) :
        /\ \A q \in WorkingOn(x) : q = r
        /\ prov[r].pc # "set" => x \in lock /\ latest[x] = r

\* The roles that request r has provisioned, and those it has stored.
RolesBefore(k) == {RoleNames[j] : j \in 1..k - 1}
Provisioned(r) ==
    IF prov[r].status = "completed" THEN Roles
    ELSE IF prov[r].pc = "role" /\ ~prov[r].roleFailed THEN RolesBefore(prov[r].k)
    ELSE {}
Saved(r) ==
    IF prov[r].status # "completed" THEN {}
    ELSE IF prov[r].pc = "vault" THEN RolesBefore(prov[r].k)
    ELSE Roles

\* What the last request for x has done is still there.
Effects ==
    \A x \in Resources \ raced, r \in Requests : latest[x] = r =>
        /\ ReqOf[r].kind = "provision" /\ ReqOf[r].resource = x
        /\ \A o \in Provisioned(r) : db[x][o] = Password(r, o)
        /\ ReqOf[r].vault =>
             \A o \in Saved(r) : storer[SecretId(x, o)] = x =>
                 secrets[VaultPath(x, o)] = Password(r, o)

\* Passwords that are still in the response of a request with Vault.
SentInv ==
    \A r \in Requests : ReqOf[r].kind = "provision" /\ ReqOf[r].vault =>
        /\ prov[r].pc = "vault" =>
             prov[r].sent \subseteq {Password(r, RoleNames[j]) : j \in prov[r].k..Len(RoleNames)}
        /\ prov[r].pc \in {"answer", "unlock", "done"} /\ prov[r].sent # {} => prov[r].roleFailed

-----------------------------------------------------------------------------
(* What the steps of a goroutine do to its record *)

\* Only the goroutine of r moves.
Others(r) ==
    /\ prov' \in [Requests -> Prov]
    /\ \A q \in Requests : q # r => prov'[q] = prov[q]

\* The list of roles.
LEMMA RoleList ==
    /\ DOMAIN RoleNames = 1..Len(RoleNames) /\ Len(RoleNames) \in Nat \ {0}
    /\ 1 \in DOMAIN RoleNames
    /\ \A k \in DOMAIN RoleNames : RoleNames[k] \in Roles
    /\ \A o \in Roles : \E k \in DOMAIN RoleNames : RoleNames[k] = o
<1>1. RoleNames \in Seq(Roles) /\ RoleNames # << >>
  BY ProvisionerAssumption
<1>2. DOMAIN RoleNames = 1..Len(RoleNames) /\ Len(RoleNames) \in Nat \ {0}
  BY <1>1
<1> QED
  BY <1>1, <1>2 DEF Roles

\* None is no status.
LEMMA NotAStatus == None \notin Statuses
  BY ProvisionerAssumption DEF Statuses

\* A request that works is for an instance.
LEMMA WorkingRequest ==
    ASSUME Shapes, NEW r \in Requests, ReqOf[r].kind = "provision"
    PROVE  Resource(r) \in Resources /\ ReqOf[r].vault \in BOOLEAN
  BY ProvisionerAssumption DEF Shapes, ReqOf, Resource

\* A new record for r keeps the shape.
LEMMA ProvReplace ==
    ASSUME Shapes, NEW r \in Requests, NEW c \in Prov, prov' = [prov EXCEPT ![r] = c]
    PROVE  Others(r) /\ prov'[r] = c
  BY DEF Others, Shapes

\* Goto only moves.
LEMMA GotoParts ==
    ASSUME Shapes, NEW r \in Requests, NEW pc \in Pcs, Goto(r, pc)
    PROVE  /\ Others(r)
           /\ prov'[r].pc = pc /\ prov'[r].k = prov[r].k /\ prov'[r].status = prov[r].status
           /\ prov'[r].sent = prov[r].sent /\ prov'[r].roleFailed = prov[r].roleFailed
           /\ prov'[r] = [prov[r] EXCEPT !.pc = pc]
<1> DEFINE c == [prov[r] EXCEPT !.pc = pc]
<1>1. prov[r] \in Prov
  BY DEF Shapes
<1>2. /\ c \in Prov /\ c.pc = pc /\ c.k = prov[r].k /\ c.status = prov[r].status
      /\ c.sent = prov[r].sent /\ c.roleFailed = prov[r].roleFailed
  BY <1>1 DEF Prov
<1>3. prov' = [prov EXCEPT ![r] = c]
  BY DEF Goto
<1> HIDE DEF c
<1>4. Others(r) /\ prov'[r] = c
  BY <1>2, <1>3, ProvReplace
<1> QED
  BY <1>2, <1>4 DEF c

\* An error is a status.
LEMMA AnswerParts ==
    ASSUME Shapes, NEW r \in Requests, NEW pc \in Pcs, AnswerError(r, pc)
    PROVE  /\ Others(r)
           /\ prov'[r].pc = pc /\ prov'[r].k = prov[r].k /\ prov'[r].status = "failed"
           /\ prov'[r].sent = prov[r].sent /\ prov'[r].roleFailed = prov[r].roleFailed
<1> DEFINE c == [prov[r] EXCEPT !.pc = pc, !.status = "failed"]
<1>1. prov[r] \in Prov
  BY DEF Shapes
<1>2. /\ c \in Prov /\ c.pc = pc /\ c.k = prov[r].k /\ c.status = "failed"
      /\ c.sent = prov[r].sent /\ c.roleFailed = prov[r].roleFailed
  BY <1>1 DEF Prov, Statuses
<1>3. prov' = [prov EXCEPT ![r] = c]
  BY DEF AnswerError
<1> HIDE DEF c
<1> QED
  BY <1>2, <1>3, ProvReplace

\* A role is done.
LEMMA RoleParts ==
    ASSUME Shapes, NEW r \in Requests, NEW ok \in BOOLEAN, RoleDone(r, ok)
    PROVE  LET last   == prov[r].k = Len(RoleNames)
               failed == prov[r].roleFailed \/ ~ok IN
           /\ Others(r)
           /\ prov'[r].roleFailed = failed
           /\ prov'[r].k = IF last THEN 1 ELSE prov[r].k + 1
           /\ prov'[r].sent = IF ok THEN prov[r].sent \cup {Password(r, RoleNames[prov[r].k])}
                              ELSE prov[r].sent
           /\ prov'[r].status = IF ~last THEN prov[r].status
                                ELSE IF failed THEN "failed" ELSE "completed"
           /\ prov'[r].pc = IF ~last THEN "role"
                            ELSE IF ReqOf[r].vault /\ ~failed THEN "vault" ELSE "answer"
<1> DEFINE last   == prov[r].k = Len(RoleNames)
           failed == prov[r].roleFailed \/ ~ok
           P == Password(r, RoleNames[prov[r].k])
           k == IF last THEN 1 ELSE prov[r].k + 1
           sent == IF ok THEN prov[r].sent \cup {P} ELSE prov[r].sent
           status == IF ~last THEN prov[r].status ELSE IF failed THEN "failed" ELSE "completed"
           next == IF ~last THEN "role" ELSE IF ReqOf[r].vault /\ ~failed THEN "vault" ELSE "answer"
           c == [prov[r] EXCEPT !.roleFailed = failed, !.k = k, !.sent = sent,
                                !.status = status, !.pc = next]
<1>1. prov[r] \in Prov
  BY DEF Shapes
<1>2. prov[r].k \in DOMAIN RoleNames /\ prov[r].roleFailed \in BOOLEAN
  BY <1>1 DEF Prov
<1>3. k \in DOMAIN RoleNames
  BY <1>2, RoleList
<1>4. P \in Requests \X Roles
  BY <1>2, RoleList DEF Password
<1>5. sent \in SUBSET (Requests \X Roles)
  BY <1>1, <1>4 DEF Prov
<1>6. status \in Statuses \cup {None}
  BY <1>1 DEF Prov, Statuses
<1>7. next \in Pcs /\ failed \in BOOLEAN
  BY <1>2 DEF Pcs, Working
<1>8. prov' = [prov EXCEPT ![r] = c]
  BY DEF RoleDone
<1> HIDE DEF last, failed, P, k, sent, status, next
<1>9. /\ c \in Prov /\ c.roleFailed = failed /\ c.k = k /\ c.sent = sent
      /\ c.status = status /\ c.pc = next
  BY <1>1, <1>3, <1>5, <1>6, <1>7 DEF Prov
<1> HIDE DEF c
<1>10. Others(r) /\ prov'[r] = c
  BY <1>8, <1>9, ProvReplace
<1> QED
  BY <1>9, <1>10 DEF last, failed, P, k, sent, status, next

\* A secret is stored, or not.
LEMMA StoredParts ==
    ASSUME Shapes, NEW r \in Requests, NEW ok \in BOOLEAN, Stored(r, ok)
    PROVE  LET last == prov[r].k = Len(RoleNames) IN
           /\ Others(r)
           /\ prov'[r].roleFailed = prov[r].roleFailed
           /\ prov'[r].k = IF last THEN 1 ELSE prov[r].k + 1
           /\ prov'[r].sent = prov[r].sent \ {Password(r, RoleNames[prov[r].k])}
           /\ prov'[r].status = IF ok THEN prov[r].status ELSE "failed"
           /\ prov'[r].pc = IF last THEN "answer" ELSE "vault"
<1> DEFINE last == prov[r].k = Len(RoleNames)
           P == Password(r, RoleNames[prov[r].k])
           k == IF last THEN 1 ELSE prov[r].k + 1
           sent == prov[r].sent \ {P}
           status == IF ok THEN prov[r].status ELSE "failed"
           next == IF last THEN "answer" ELSE "vault"
           c == [prov[r] EXCEPT !.sent = sent, !.status = status, !.k = k, !.pc = next]
<1>1. prov[r] \in Prov
  BY DEF Shapes
<1>2. prov[r].k \in DOMAIN RoleNames
  BY <1>1 DEF Prov
<1>3. k \in DOMAIN RoleNames
  BY <1>2, RoleList
<1>4. sent \in SUBSET (Requests \X Roles) /\ status \in Statuses \cup {None} /\ next \in Pcs
  BY <1>1 DEF Prov, Statuses, Pcs, Working
<1>5. prov' = [prov EXCEPT ![r] = c]
  BY DEF Stored
<1> HIDE DEF last, P, k, sent, status, next
<1>6. /\ c \in Prov /\ c.roleFailed = prov[r].roleFailed /\ c.k = k /\ c.sent = sent
      /\ c.status = status /\ c.pc = next
  BY <1>1, <1>3, <1>4 DEF Prov
<1> HIDE DEF c
<1>7. Others(r) /\ prov'[r] = c
  BY <1>5, <1>6, ProvReplace
<1> QED
  BY <1>6, <1>7 DEF last, P, k, sent, status, next

\* A hook is answered at once.
LEMMA HookParts ==
    ASSUME Shapes, NEW r \in Requests, RunbookHook(r)
    PROVE  /\ Others(r) /\ prov'[r].pc = "done" /\ prov'[r].status \in {"hook1", "hook-2"}
           /\ prov'[r].sent = prov[r].sent /\ prov'[r].roleFailed = prov[r].roleFailed
<1>1. PICK code \in {"hook1", "hook-2"} : prov' = [prov EXCEPT ![r].pc = "done", ![r].status = code]
  BY DEF RunbookHook
<1> DEFINE c == [prov[r] EXCEPT !.pc = "done", !.status = code]
<1>2. prov[r] \in Prov
  BY DEF Shapes
<1>3. /\ c \in Prov /\ c.pc = "done" /\ c.status = code
      /\ c.sent = prov[r].sent /\ c.roleFailed = prov[r].roleFailed
  BY <1>2 DEF Prov, Statuses, Pcs
<1>4. prov' = [prov EXCEPT ![r] = c]
  BY <1>1
<1> HIDE DEF c
<1> QED
  BY <1>3, <1>4, ProvReplace

\* Wherever it is put, that record keeps its shape.
LEMMA IdleParts ==
    /\ Idle \in Prov /\ Idle.pc = "idle" /\ AsReceived(Idle)
    /\ \A pc \in Pcs : LET c == [Idle EXCEPT !.pc = pc] IN
         c \in Prov /\ c.pc = pc /\ AsReceived(c)
<1>1. Idle \in Prov /\ Idle.pc = "idle" /\ AsReceived(Idle)
  BY RoleList DEF Idle, Prov, Pcs, AsReceived
<1>2. ASSUME NEW pc \in Pcs
      PROVE  LET c == [Idle EXCEPT !.pc = pc] IN c \in Prov /\ c.pc = pc /\ AsReceived(c)
  BY <1>1 DEF Prov, AsReceived
<1> QED
  BY <1>1, <1>2

\* What the process is left with after it died.
LEMMA CrashParts ==
    ASSUME Shapes, Crash
    PROVE  /\ prov' \in [Requests -> Prov] /\ lock' = {}
           /\ \A r \in Requests :
                IF prov[r].pc \in {"idle", "done"} THEN prov'[r] = prov[r]
                ELSE prov'[r].pc = "dead" /\ AsReceived(prov'[r])
           /\ UNCHANGED <<load, secrets, db, raced, latest, storer>>
<1> DEFINE c == [Idle EXCEPT !.pc = "dead"]
<1>1. c \in Prov /\ c.pc = "dead" /\ AsReceived(c)
  BY IdleParts DEF Pcs
<1>2. prov' = [r \in Requests |-> IF prov[r].pc \in {"idle", "done"} THEN prov[r]
                                  ELSE c]
  BY DEF Crash
<1>3. \A r \in Requests : prov[r] \in Prov
  BY DEF Shapes
<1> HIDE DEF c
<1> QED
  BY <1>1, <1>2, <1>3 DEF Crash

\* Provisioning a role changes one password of its instance.
LEMMA ProvisionParts ==
    ASSUME Shapes, Progress, NEW r \in Requests, ProvisionRole(r)
    PROVE  LET o == RoleNames[prov[r].k] IN
           /\ prov[r].pc = "role" /\ ReqOf[r].kind = "provision" /\ Resource(r) \in Resources
           /\ o \in Roles
           /\ \E ok \in BOOLEAN : RoleDone(r, ok) /\ (ok => db'[Resource(r)][o] = Password(r, o))
           /\ db' \in [Resources -> [Roles -> {None} \cup (Requests \X Roles)]]
           /\ \A x \in Resources, i \in Roles :
                x # Resource(r) \/ i # o => db'[x][i] = db[x][i]
           /\ UNCHANGED <<secretVars, lock, raced, latest, storer>>
<1> DEFINE o == RoleNames[prov[r].k]
           x == Resource(r)
<1>1. prov[r].pc = "role" /\ ReqOf[r].kind = "provision" /\ ReqOf[r].engine \in Engines
  BY DEF ProvisionRole, At, Progress, Working
<1>2. x \in Resources /\ o \in Roles
  BY <1>1, WorkingRequest, RoleList DEF Shapes, Prov
<1>3. PICK out \in Outcomes(r, o, {}) \cup Outcomes(r, o, {None}) :
         db' = [db EXCEPT ![x][o] = out.password] /\ RoleDone(r, out.ok)
  <2> DEFINE S == CASE ReqOf[r].engine \in Postgres -> ProvisionPostgresRole(r, o)
                    [] ReqOf[r].engine \in MySQL    -> ProvisionMySQLRole(r, o)
                    [] ReqOf[r].engine \in MSSQL    -> ProvisionMSSQLRole(r, o)
  <2>1. \E out \in S : db' = [db EXCEPT ![x][o] = out.password] /\ RoleDone(r, out.ok)
    BY DEF ProvisionRole
  <2>2. ReqOf[r].engine \in Postgres \/ ReqOf[r].engine \in MySQL \/ ReqOf[r].engine \in MSSQL
    BY <1>1 DEF Engines
  <2>3. \/ S = ProvisionPostgresRole(r, o) \/ S = ProvisionMySQLRole(r, o)
        \/ S = ProvisionMSSQLRole(r, o)
    BY <2>2
  <2>4. S = Outcomes(r, o, {}) \/ S = Outcomes(r, o, {None})
    BY <2>3 DEF ProvisionPostgresRole, ProvisionMySQLRole, ProvisionMSSQLRole
  <2> HIDE DEF S, o, x
  <2> QED
    BY <2>1, <2>4
<1>4. Password(r, o) \in Requests \X Roles /\ db[x][o] \in {None} \cup (Requests \X Roles)
  BY <1>2 DEF Password, Shapes
<1>5. /\ out.ok \in BOOLEAN /\ out.password \in {None} \cup (Requests \X Roles)
      /\ out.ok => out.password = Password(r, o)
  <2>1. CASE out = [ok |-> TRUE, password |-> Password(r, o)]
    BY <2>1, <1>4
  <2>2. CASE out \in [ok : {FALSE}, password : {db[x][o], Password(r, o), None}]
    BY <2>2, <1>4
  <2> QED
    BY <1>3, <2>1, <2>2 DEF Outcomes
<1>6. UNCHANGED <<secretVars, lock, raced, latest, storer>>
  BY DEF ProvisionRole
<1> HIDE DEF o, x
<1>7. db \in [Resources -> [Roles -> {None} \cup (Requests \X Roles)]]
  BY DEF Shapes
<1>8. /\ db' \in [Resources -> [Roles -> {None} \cup (Requests \X Roles)]]
      /\ db'[x][o] = out.password
      /\ \A y \in Resources, i \in Roles : y # x \/ i # o => db'[y][i] = db[y][i]
  BY <1>2, <1>3, <1>5, <1>7
<1> QED
  BY <1>1, <1>2, <1>3, <1>5, <1>6, <1>8 DEF o, x

\* Secrets of different names are at different paths.
LEMMA PathParts ==
    ASSUME NEW x \in Resources, NEW o \in Roles
    PROVE  /\ SecretId(x, o) \in SecretIds /\ VaultPath(x, o) \in Paths
           /\ VaultPath(x, o).id = SecretId(x, o) /\ MountOf[SecretId(x, o)] = "kv2"
<1>1. SecretId(x, o) \in SecretIds /\ MountOf[SecretId(x, o)] = "kv2"
  BY ProvisionerAssumption DEF SecretId
<1> QED
  BY <1>1 DEF VaultPath, UrlPath, Paths

\* Storing a secret writes at its path only.
LEMMA VaultParts ==
    ASSUME Shapes, Progress, NEW r \in Requests, StoreInVault(r)
    PROVE  LET o == RoleNames[prov[r].k]
               x == Resource(r)
               p == VaultPath(x, o) IN
           /\ prov[r].pc = "vault" /\ ReqOf[r].kind = "provision" /\ x \in Resources /\ o \in Roles
           /\ \E ok \in BOOLEAN : Stored(r, ok) /\ (ok => secrets'[p] = Password(r, o))
           /\ DOMAIN secrets' = Paths /\ secrets' = [q \in Paths |-> secrets'[q]]
           /\ secrets'[p] \in {secrets[p], Password(r, o)}
           /\ \A q \in Paths : q # p => secrets'[q] = secrets[q]
           /\ storer' = IF secrets' # secrets THEN [storer EXCEPT ![SecretId(x, o)] = x] ELSE storer
           /\ UNCHANGED <<load, dec, lock, db, raced, latest>>
<1> DEFINE o == RoleNames[prov[r].k]
           x == Resource(r)
           i == SecretId(x, o)
           p == VaultPath(x, o)
           w == Password(r, o)
<1>1. prov[r].pc = "vault" /\ ReqOf[r].kind = "provision"
  BY DEF StoreInVault, At, Progress, Working
<1>2. x \in Resources /\ o \in Roles
  BY <1>1, WorkingRequest, RoleList DEF Shapes, Prov
<1>3. p \in Paths /\ p = UrlPath("kv2", i)
  BY <1>2, PathParts DEF VaultPath
<1>4. /\ storer' = IF secrets' # secrets THEN [storer EXCEPT ![i] = x] ELSE storer
      /\ UNCHANGED <<load, dec, lock, db, raced, latest>>
  BY DEF StoreInVault
<1>5. \/ secrets' = [secrets EXCEPT ![p] = w] /\ Stored(r, TRUE)
      \/ (secrets' = secrets \/ secrets' = [secrets EXCEPT ![p] = w]) /\ Stored(r, FALSE)
  BY <1>3 DEF StoreInVault, SetValueSucceeds, SetValueFails
<1> HIDE DEF o, x, i, p, w
<1>6. DOMAIN secrets = Paths /\ secrets = [q \in Paths |-> secrets[q]]
  BY DEF Shapes
<1>7. ASSUME secrets' = [secrets EXCEPT ![p] = w]
      PROVE  /\ DOMAIN secrets' = Paths /\ secrets' = [q \in Paths |-> secrets'[q]]
             /\ secrets'[p] = w /\ \A q \in Paths : q # p => secrets'[q] = secrets[q]
  BY <1>3, <1>6, <1>7
<1>8. /\ DOMAIN secrets' = Paths /\ secrets' = [q \in Paths |-> secrets'[q]]
      /\ secrets'[p] \in {secrets[p], w} /\ \A q \in Paths : q # p => secrets'[q] = secrets[q]
  BY <1>5, <1>6, <1>7
<1>9. \E ok \in BOOLEAN : Stored(r, ok) /\ (ok => secrets'[p] = w)
  BY <1>5, <1>7
<1> QED
  BY <1>1, <1>2, <1>4, <1>8, <1>9 DEF o, x, i, p, w

\* Nothing changes what the agent meets, and Decode changes nothing but dec.
LEMMA StepFrame ==
    ASSUME [Next]_vars
    PROVE  load' = load /\ ReqOf' = ReqOf /\ EnvOf' = EnvOf
<1>1. ASSUME NEW s, NEW e, NEW kind, Todo(s, e, kind)
      PROVE  load' = load
  BY <1>1 DEF Todo
<1>2. ASSUME NEW s, DecodeStep(s)
      PROVE  load' = load
  BY <1>1, <1>2 DEF DecodeStep, StartDecode, FinishDecode, DecodeOther, ProviderFails, GetCached,
                    Fetch, FetchFails
<1>3. ASSUME NEW r, Goroutine(r)
      PROVE  load' = load
  BY <1>3 DEF Goroutine, RunbookHook, Malformed, CheckLock, SetLock, Connect, ProvisionRole,
              StoreInVault, SendResponse, Unlock, secretVars
<1>4. load' = load
  BY <1>2, <1>3 DEF Next, Crash, vars, secretVars
<1> QED
  BY <1>4 DEF ReqOf, EnvOf

\* Decode leaves provisioning and the secrets alone.
LEMMA DecodeFrame ==
    ASSUME NEW s, DecodeStep(s)
    PROVE  UNCHANGED <<load, secrets>>
<1>1. ASSUME NEW e, NEW kind, Todo(s, e, kind)
      PROVE  UNCHANGED <<load, secrets>>
  BY <1>1 DEF Todo
<1> QED
  BY <1>1 DEF DecodeStep, StartDecode, FinishDecode, DecodeOther, ProviderFails, GetCached,
              Fetch, FetchFails

\* The goroutine of a request for an instance that passes Has.
Passes(r) ==
    /\ prov[r].pc = "idle" /\ ReqOf[r].kind = "provision" /\ Resource(r) \notin lock
    /\ Goto(r, "set")
    /\ raced' = IF \E q \in WorkingOn(Resource(r)) : At(q, "set")
                THEN raced \cup {Resource(r)} ELSE raced
    /\ UNCHANGED <<secretVars, lock, db, latest, storer>>

\* A request that ends as soon as it was received.
Ends(r) ==
    /\ prov[r].pc = "idle" /\ Others(r) /\ prov'[r].pc = "done"
    /\ prov'[r].status \in Statuses \ {"completed"}
    /\ prov'[r].sent = prov[r].sent /\ prov'[r].roleFailed = prov[r].roleFailed
    /\ UNCHANGED <<secretVars, lock, db, raced, latest, storer>>

\* A request that got no connection, or got one.
Connects(r) ==
    /\ prov[r].pc = "init" /\ Others(r)
    /\ prov'[r].sent = prov[r].sent /\ prov'[r].roleFailed = prov[r].roleFailed
    /\ prov'[r].k = prov[r].k
    /\ \/ /\ prov'[r].pc = "role" /\ prov'[r].status = prov[r].status
          /\ ReqOf[r].engine \in Engines
       \/ prov'[r].pc \in {"answer", "unlock"} /\ prov'[r].status = "failed"
    /\ UNCHANGED <<secretVars, lock, db, raced, latest, storer>>

\* The kinds of steps.
LEMMA StepKinds ==
    ASSUME Shapes, [Next]_vars
    PROVE  \/ UNCHANGED <<load, secrets, lock, db, prov, raced, latest, storer>>
           \/ \E r \in Requests :
                \/ Ends(r) \/ Passes(r) \/ SetLock(r) \/ Connects(r) \/ ProvisionRole(r)
                \/ StoreInVault(r) \/ SendResponse(r) \/ Unlock(r)
           \/ Crash
<1>1. ASSUME NEW r \in Requests, RunbookHook(r)
      PROVE  Ends(r)
  BY <1>1, HookParts DEF RunbookHook, Ends, At, Statuses
<1>2. ASSUME NEW r \in Requests, Malformed(r)
      PROVE  Ends(r)
  BY <1>2, AnswerParts DEF Malformed, Ends, At, Statuses, Pcs
<1>3. ASSUME NEW r \in Requests, CheckLock(r)
      PROVE  Ends(r) \/ Passes(r)
  <2>1. CASE AnswerError(r, "done") /\ UNCHANGED raced
    BY <1>3, <2>1, AnswerParts DEF CheckLock, Ends, At, Statuses, Pcs
  <2>2. CASE Resource(r) \notin lock /\ Goto(r, "set")
    BY <1>3, <2>2 DEF CheckLock, Passes, At
  <2> QED
    BY <1>3, <2>1, <2>2 DEF CheckLock
<1>4. ASSUME NEW r \in Requests, Connect(r)
      PROVE  Connects(r)
  <2>1. prov[r].pc = "init" /\ UNCHANGED <<secretVars, lock, db, raced, latest, storer>>
    BY <1>4 DEF Connect, At
  <2>2. CASE AnswerError(r, "unlock") \/ AnswerError(r, "answer")
    BY <2>1, <2>2, AnswerParts DEF Connects, Pcs, Working
  <2>3. CASE Goto(r, "role") /\ ReqOf[r].engine \in Engines
    BY <2>1, <2>3, GotoParts DEF Connects, Pcs, Working
  <2> QED
    BY <1>4, <2>2, <2>3 DEF Connect
<1>5. ASSUME NEW s \in Sessions, DecodeStep(s), UNCHANGED provisionVars
      PROVE  UNCHANGED <<load, secrets, lock, db, prov, raced, latest, storer>>
  BY <1>5, DecodeFrame DEF provisionVars
<1>6. CASE UNCHANGED vars
  BY <1>6 DEF vars, secretVars, provisionVars
<1> QED
  BY <1>1, <1>2, <1>3, <1>4, <1>5, <1>6 DEF Next, Goroutine

-----------------------------------------------------------------------------
(* Shapes and progress *)

\* The shapes are kept.
LEMMA StepShapes ==
    ASSUME Shapes, Progress, [Next]_vars
    PROVE  Shapes'
<1>1. load' = load
  BY StepFrame
<1>2. CASE UNCHANGED <<load, secrets, lock, db, prov, raced, latest, storer>>
  BY <1>2 DEF Shapes
<1>3. ASSUME NEW r \in Requests, Ends(r) \/ Connects(r)
      PROVE  Shapes'
  BY <1>1, <1>3 DEF Ends, Connects, Others, Shapes, secretVars
<1>4. ASSUME NEW r \in Requests, Passes(r)
      PROVE  Shapes'
  <2>1. Resource(r) \in Resources /\ prov' \in [Requests -> Prov]
    BY <1>4, WorkingRequest, GotoParts DEF Passes, Others, Pcs, Working
  <2> QED
    BY <1>1, <1>4, <2>1 DEF Passes, Shapes, secretVars
<1>5. ASSUME NEW r \in Requests, SetLock(r)
      PROVE  Shapes'
  <2>1. Resource(r) \in Resources
    BY <1>5, WorkingRequest DEF SetLock, At, Progress, Working
  <2>2. prov' \in [Requests -> Prov]
    BY <1>5, GotoParts DEF SetLock, Others, Pcs, Working
  <2> QED
    BY <1>1, <1>5, <2>1, <2>2 DEF SetLock, Shapes, secretVars
<1>6. ASSUME NEW r \in Requests, ProvisionRole(r)
      PROVE  Shapes'
  <2>1. PICK ok \in BOOLEAN : RoleDone(r, ok)
    BY <1>6, ProvisionParts
  <2>2. prov' \in [Requests -> Prov]
    BY <2>1, RoleParts DEF Others
  <2>3. /\ db' \in [Resources -> [Roles -> {None} \cup (Requests \X Roles)]]
        /\ UNCHANGED <<secretVars, lock, raced, latest, storer>>
    BY <1>6, ProvisionParts
  <2> QED
    BY <1>1, <2>2, <2>3 DEF Shapes, secretVars
<1>7. ASSUME NEW r \in Requests, StoreInVault(r)
      PROVE  Shapes'
  <2>1. PICK ok \in BOOLEAN : Stored(r, ok)
    BY <1>7, VaultParts
  <2>2. prov' \in [Requests -> Prov]
    BY <2>1, StoredParts DEF Others
  <2> DEFINE o == RoleNames[prov[r].k]
             x == Resource(r)
  <2>3. /\ DOMAIN secrets' = Paths /\ secrets' = [q \in Paths |-> secrets'[q]]
        /\ storer' = IF secrets' # secrets THEN [storer EXCEPT ![SecretId(x, o)] = x] ELSE storer
        /\ UNCHANGED <<load, dec, lock, db, raced, latest>> /\ x \in Resources /\ o \in Roles
    BY <1>7, VaultParts
  <2> HIDE DEF o, x
  <2>4. storer' \in [SecretIds -> Resources \cup {None}]
    BY <2>3, PathParts DEF Shapes
  <2> QED
    BY <1>1, <2>2, <2>3, <2>4 DEF Shapes
<1>8. ASSUME NEW r \in Requests, SendResponse(r) \/ Unlock(r)
      PROVE  Shapes'
  <2>1. prov' \in [Requests -> Prov]
    BY <1>8, GotoParts DEF SendResponse, Unlock, Others, Pcs, Working
  <2> QED
    BY <1>1, <1>8, <2>1 DEF SendResponse, Unlock, Shapes, secretVars
<1>9. CASE Crash
  BY <1>1, <1>9, CrashParts DEF Shapes
<1> QED
  BY <1>2, <1>3, <1>4, <1>5, <1>6, <1>7, <1>8, <1>9, StepKinds

\* What Progress says of one request.
ProgressOf(r) ==
    /\ prov[r].pc \in Working => ReqOf[r].kind = "provision"
    /\ prov[r].pc \in {"idle", "set", "init", "dead"} => AsReceived(prov[r])
    /\ prov[r].pc \in {"vault", "answer", "unlock", "done"} => prov[r].status # None
    /\ prov[r].pc = "role" => prov[r].status = None /\ ReqOf[r].engine \in Engines
    /\ prov[r].sent \subseteq {Password(r, o) : o \in Roles}
    /\ prov[r].pc = "vault" => ReqOf[r].vault

\* Progress is kept.
LEMMA StepProgress ==
    ASSUME Shapes, Progress, [Next]_vars
    PROVE  Progress'
<1>1. ReqOf' = ReqOf
  BY StepFrame
<1>2. \A r \in Requests : ProgressOf(r)
  BY DEF Progress, ProgressOf
<1>3. ASSUME NEW r \in Requests, Others(r), ProgressOf(r)'
      PROVE  Progress'
  <2>1. \A q \in Requests : ProgressOf(q)'
    BY <1>1, <1>2, <1>3 DEF Others, ProgressOf
  <2> QED
    BY <2>1 DEF Progress, ProgressOf
<1>4. CASE UNCHANGED <<load, secrets, lock, db, prov, raced, latest, storer>>
  BY <1>1, <1>4 DEF Progress
<1>5. ASSUME NEW r \in Requests, Ends(r)
      PROVE  Progress'
  <2>1. ProgressOf(r)'
    BY <1>1, <1>2, <1>5, NotAStatus DEF Ends, ProgressOf, Working
  <2> QED
    BY <1>3, <1>5, <2>1 DEF Ends
<1>6. ASSUME NEW r \in Requests, Passes(r)
      PROVE  Progress'
  <2>1. /\ Others(r) /\ prov'[r].pc = "set" /\ prov'[r].k = prov[r].k
        /\ prov'[r].status = prov[r].status /\ prov'[r].sent = prov[r].sent
        /\ prov'[r].roleFailed = prov[r].roleFailed
    BY <1>6, GotoParts DEF Passes, Pcs, Working
  <2>2. AsReceived(prov[r]) /\ ReqOf[r].kind = "provision"
    BY <1>2, <1>6 DEF ProgressOf, Passes, Working
  <2>3. AsReceived(prov'[r])
    BY <2>1, <2>2 DEF AsReceived
  <2>4. ProgressOf(r)'
    BY <1>1, <2>1, <2>2, <2>3 DEF ProgressOf, AsReceived
  <2> QED
    BY <1>3, <2>1, <2>4
<1>7. ASSUME NEW r \in Requests, SetLock(r)
      PROVE  Progress'
  <2>1. /\ Others(r) /\ prov'[r].pc = "init" /\ prov'[r].k = prov[r].k
        /\ prov'[r].status = prov[r].status /\ prov'[r].sent = prov[r].sent
        /\ prov'[r].roleFailed = prov[r].roleFailed
    BY <1>7, GotoParts DEF SetLock, Pcs, Working
  <2>2. AsReceived(prov[r]) /\ ReqOf[r].kind = "provision"
    BY <1>2, <1>7 DEF ProgressOf, SetLock, At, Working
  <2>3. AsReceived(prov'[r])
    BY <2>1, <2>2 DEF AsReceived
  <2>4. ProgressOf(r)'
    BY <1>1, <2>1, <2>2, <2>3 DEF ProgressOf, AsReceived
  <2> QED
    BY <1>3, <2>1, <2>4
<1>8. ASSUME NEW r \in Requests, Connects(r)
      PROVE  Progress'
  <2>1. ProgressOf(r)'
    BY <1>1, <1>2, <1>8, NotAStatus DEF Connects, ProgressOf, AsReceived, Working, Statuses
  <2> QED
    BY <1>3, <1>8, <2>1 DEF Connects
<1>9. ASSUME NEW r \in Requests, ProvisionRole(r)
      PROVE  Progress'
  <2>1. PICK ok \in BOOLEAN : RoleDone(r, ok)
    BY <1>9, ProvisionParts
  <2>2. prov[r].pc = "role" /\ ReqOf[r].kind = "provision" /\ RoleNames[prov[r].k] \in Roles
    BY <1>9, ProvisionParts
  <2>3. prov'[r].sent \subseteq {Password(r, o) : o \in Roles}
    <3>1. prov'[r].sent \subseteq prov[r].sent \cup {Password(r, RoleNames[prov[r].k])}
      BY <2>1, RoleParts
    <3> QED
      BY <1>2, <2>2, <3>1 DEF ProgressOf
  <2>4. \/ prov'[r].pc = "role" /\ prov'[r].status = prov[r].status
        \/ prov'[r].pc = "answer" /\ prov'[r].status \in {"failed", "completed"}
        \/ prov'[r].pc = "vault" /\ prov'[r].status \in {"failed", "completed"} /\ ReqOf[r].vault
    BY <2>1, RoleParts
  <2>5. ProgressOf(r)'
    BY <1>1, <1>2, <2>2, <2>3, <2>4, NotAStatus DEF ProgressOf, Statuses
  <2> QED
    BY <1>3, <2>1, <2>5, RoleParts
<1>10. ASSUME NEW r \in Requests, StoreInVault(r)
       PROVE  Progress'
  <2>1. PICK ok \in BOOLEAN : Stored(r, ok)
    BY <1>10, VaultParts
  <2>2. prov[r].pc = "vault" /\ ReqOf[r].kind = "provision"
    BY <1>10, VaultParts
  <2>3. prov'[r].sent \subseteq {Password(r, o) : o \in Roles}
    BY <1>2, <2>1, StoredParts DEF ProgressOf
  <2>4. /\ prov'[r].pc \in {"answer", "vault"} /\ prov'[r].status \in {prov[r].status, "failed"}
    BY <2>1, StoredParts
  <2>5. ProgressOf(r)'
    BY <1>1, <1>2, <2>2, <2>3, <2>4, NotAStatus DEF ProgressOf, Statuses
  <2> QED
    BY <1>3, <2>1, <2>5, StoredParts
<1>11. ASSUME NEW r \in Requests, SendResponse(r) \/ Unlock(r)
       PROVE  Progress'
  <2>1. PICK pc \in {"unlock", "done"} : Goto(r, pc) /\ prov[r].pc \in {"answer", "unlock"}
    BY <1>11 DEF SendResponse, Unlock, At
  <2>2. Others(r) /\ prov'[r].pc = pc /\ prov'[r].status = prov[r].status /\ prov'[r].sent = prov[r].sent
    BY <2>1, GotoParts DEF Pcs, Working
  <2>3. ProgressOf(r)'
    BY <1>1, <1>2, <2>1, <2>2 DEF ProgressOf, Working
  <2> QED
    BY <1>3, <2>2, <2>3
<1>12. CASE Crash
  <2>1. ASSUME NEW r \in Requests
        PROVE  ProgressOf(r)'
    <3>1. CASE prov'[r] = prov[r]
      BY <1>1, <1>2, <3>1 DEF ProgressOf
    <3>2. CASE prov'[r].pc = "dead" /\ AsReceived(prov'[r])
      BY <3>2 DEF ProgressOf, AsReceived, Working
    <3> QED
      BY <1>12, <3>1, <3>2, CrashParts
  <2> QED
    BY <2>1 DEF Progress, ProgressOf
<1> QED
  BY <1>4, <1>5, <1>6, <1>7, <1>8, <1>9, <1>10, <1>11, <1>12, StepKinds

-----------------------------------------------------------------------------
(* The lock *)

\* Who works on an instance after a step of the goroutine of r.
LEMMA WorkingAfter ==
    ASSUME NEW r \in Requests, Others(r), ReqOf' = ReqOf, NEW x
    PROVE  /\ \A q \in Requests : q # r => (q \in WorkingOn(x)' <=> q \in WorkingOn(x))
           /\ WorkingOn(x)' \subseteq Requests /\ WorkingOn(x) \subseteq Requests
           /\ r \in WorkingOn(x) <=> /\ ReqOf[r].kind = "provision" /\ ReqOf[r].resource = x
                                     /\ prov[r].pc \in Working
           /\ r \in WorkingOn(x)' <=> /\ ReqOf[r].kind = "provision" /\ ReqOf[r].resource = x
                                      /\ prov'[r].pc \in Working
  BY DEF Others, WorkingOn

\* A goroutine that goes on under its lock.
GoesOn(r) ==
    /\ Others(r)
    /\ prov[r].pc \in Working \ {"set"} /\ prov'[r].pc \in Working \ {"set"}
    /\ UNCHANGED <<lock, raced, latest>>

\* Four steps are of this kind.
LEMMA GoingOn ==
    ASSUME Shapes, Progress, NEW r \in Requests,
           Connects(r) \/ ProvisionRole(r) \/ StoreInVault(r) \/ SendResponse(r)
    PROVE  GoesOn(r)
<1>1. CASE Connects(r)
  BY <1>1 DEF Connects, GoesOn, Working
<1>2. CASE ProvisionRole(r)
  <2>1. PICK ok \in BOOLEAN : RoleDone(r, ok)
    BY <1>2, ProvisionParts
  <2>2. Others(r) /\ prov'[r].pc \in {"role", "vault", "answer"}
    BY <2>1, RoleParts
  <2>3. prov[r].pc = "role" /\ UNCHANGED <<lock, raced, latest>>
    BY <1>2, ProvisionParts
  <2> QED
    BY <2>2, <2>3 DEF GoesOn, Working
<1>3. CASE StoreInVault(r)
  <2>1. PICK ok \in BOOLEAN : Stored(r, ok)
    BY <1>3, VaultParts
  <2>2. Others(r) /\ prov'[r].pc \in {"vault", "answer"}
    BY <2>1, StoredParts
  <2>3. prov[r].pc = "vault" /\ UNCHANGED <<lock, raced, latest>>
    BY <1>3, VaultParts
  <2> QED
    BY <2>2, <2>3 DEF GoesOn, Working
<1>4. CASE SendResponse(r)
  <2>1. Goto(r, "unlock") /\ prov[r].pc = "answer" /\ UNCHANGED <<lock, raced, latest>>
    BY <1>4 DEF SendResponse, At
  <2>2. Others(r) /\ prov'[r].pc = "unlock"
    BY <2>1, GotoParts DEF Pcs, Working
  <2> QED
    BY <2>1, <2>2 DEF GoesOn, Working
<1> QED
  BY <1>1, <1>2, <1>3, <1>4

\* The lock excludes, except for requests that pass Has before the Set of
\* another, and is not left behind.
LEMMA StepLocking ==
    ASSUME Shapes, Progress, Locking, LockHasHolder, [Next]_vars
    PROVE  Locking' /\ LockHasHolder'
<1>1. ReqOf' = ReqOf
  BY StepFrame
<1>2. CASE UNCHANGED <<load, secrets, lock, db, prov, raced, latest, storer>>
  BY <1>1, <1>2 DEF Locking, LockHasHolder, WorkingOn
<1>3. ASSUME NEW r \in Requests, Ends(r)
      PROVE  Locking' /\ LockHasHolder'
  <2>1. \A x : WorkingOn(x)' = WorkingOn(x)
    BY <1>1, <1>3, WorkingAfter DEF Ends, Working
  <2>2. \A x : \A q \in WorkingOn(x) : prov'[q] = prov[q]
    BY <1>3 DEF Ends, Others, WorkingOn, Working
  <2>3. UNCHANGED <<lock, raced, latest>>
    BY <1>3 DEF Ends
  <2> QED
    BY <2>1, <2>2, <2>3 DEF Locking, LockHasHolder
<1>4. ASSUME NEW r \in Requests, GoesOn(r)
      PROVE  Locking' /\ LockHasHolder'
  <2>1. \A x : WorkingOn(x)' = WorkingOn(x)
    BY <1>1, <1>4, WorkingAfter DEF GoesOn
  <2>2. \A q \in Requests : prov'[q].pc # "set" => prov[q].pc # "set"
    BY <1>4 DEF GoesOn, Others
  <2>3. UNCHANGED <<lock, raced, latest>> /\ \A x : WorkingOn(x) \subseteq Requests
    BY <1>4 DEF GoesOn, WorkingOn
  <2> QED
    BY <2>1, <2>2, <2>3 DEF Locking, LockHasHolder
<1>5. ASSUME NEW r \in Requests, Passes(r)
      PROVE  Locking' /\ LockHasHolder'
  <2>1. /\ Others(r) /\ prov'[r].pc = "set" /\ prov[r].pc = "idle" /\ Resource(r) \notin lock
        /\ UNCHANGED <<lock, latest>>
    BY <1>5, GotoParts DEF Passes, Pcs, Working
  <2>2. \A x : WorkingOn(x) \subseteq WorkingOn(x)'
    BY <1>1, <2>1, WorkingAfter DEF Working
  <2>3. LockHasHolder'
    BY <2>1, <2>2 DEF LockHasHolder
  <2>4. ASSUME NEW x \in Resources \ raced', NEW q \in WorkingOn(x)'
        PROVE  /\ \A t \in WorkingOn(x)' : t = q
               /\ prov'[q].pc # "set" => x \in lock' /\ latest'[x] = q
    <3>1. x \notin raced
      BY <1>5, <2>4 DEF Passes
    <3>2. CASE x # Resource(r)
      <4>1. WorkingOn(x)' = WorkingOn(x) /\ r \notin WorkingOn(x)
        BY <1>1, <2>1, <3>2, WorkingAfter DEF Resource
      <4>2. q \in Requests /\ q # r /\ prov'[q] = prov[q]
        BY <2>1, <2>4, <4>1 DEF Others, WorkingOn
      <4> QED
        BY <2>1, <2>4, <3>1, <4>1, <4>2 DEF Locking
    <3>3. CASE x = Resource(r)
      <4>1. \A t \in WorkingOn(x) : prov[t].pc # "set"
        BY <1>5, <2>4, <3>3 DEF Passes, At
      <4>2. \A t \in WorkingOn(x) : x \in lock
        BY <2>4, <3>1, <4>1 DEF Locking
      <4>3. WorkingOn(x) = {}
        BY <2>1, <3>3, <4>2
      <4>4. WorkingOn(x)' \subseteq {r}
        BY <1>1, <2>1, <4>3, WorkingAfter
      <4> QED
        BY <2>1, <2>4, <4>4
    <3> QED
      BY <3>2, <3>3
  <2>5. Locking'
    BY <2>4 DEF Locking
  <2> QED
    BY <2>3, <2>5
<1>6. ASSUME NEW r \in Requests, SetLock(r)
      PROVE  Locking' /\ LockHasHolder'
  <2> DEFINE x0 == ReqOf[r].resource
  <2>1. /\ Others(r) /\ prov'[r].pc = "init" /\ prov[r].pc = "set"
    BY <1>6, GotoParts DEF SetLock, At, Pcs, Working
  <2>2. /\ lock' = lock \cup {x0} /\ latest' = [latest EXCEPT ![x0] = r]
        /\ raced' = IF WorkingOn(x0) = {r} THEN raced \ {x0} ELSE raced
    BY <1>6 DEF SetLock, Resource
  <2>3. r \in WorkingOn(x0) /\ x0 \in Resources
    BY <2>1, WorkingRequest DEF WorkingOn, Progress, Working, Resource
  <2>4. \A x : WorkingOn(x)' = WorkingOn(x)
    BY <1>1, <2>1, WorkingAfter DEF Working
  <2> HIDE DEF x0
  <2>5. LockHasHolder'
    BY <2>2, <2>3, <2>4 DEF LockHasHolder
  <2>6. ASSUME NEW x \in Resources \ raced', NEW q \in WorkingOn(x)
        PROVE  /\ \A t \in WorkingOn(x) : t = q
               /\ prov'[q].pc # "set" => x \in lock' /\ latest'[x] = q
    <3>1. CASE x # x0
      <4>1. x \notin raced /\ latest'[x] = latest[x] /\ (x \in lock => x \in lock')
        BY <2>2, <2>6, <3>1 DEF Shapes
      <4>2. q # r /\ q \in Requests
        BY <3>1, <2>6 DEF WorkingOn, x0
      <4>3. prov'[q] = prov[q]
        BY <2>1, <4>2 DEF Others
      <4> QED
        BY <2>6, <4>1, <4>3 DEF Locking
    <3>2. CASE x = x0
      <4>1. WorkingOn(x0) = {r}
        BY <2>2, <2>3, <2>6, <3>2 DEF Locking
      <4> QED
        BY <2>2, <2>3, <2>6, <3>2, <4>1 DEF Shapes
    <3> QED
      BY <3>1, <3>2
  <2>7. Locking'
    BY <2>4, <2>6 DEF Locking
  <2> QED
    BY <2>5, <2>7
<1>7. ASSUME NEW r \in Requests, Unlock(r)
      PROVE  Locking' /\ LockHasHolder'
  <2> DEFINE x0 == ReqOf[r].resource
  <2>1. /\ Others(r) /\ prov'[r].pc = "done" /\ prov[r].pc = "unlock"
        /\ lock' = lock \ {x0} /\ UNCHANGED <<raced, latest>>
    BY <1>7, GotoParts DEF Unlock, At, Pcs, Working, Resource
  <2>2. r \in WorkingOn(x0) /\ x0 \in Resources
    BY <2>1, WorkingRequest DEF WorkingOn, Progress, Working, Resource
  <2>3. \A x : WorkingOn(x)' = WorkingOn(x) \ {r}
    BY <1>1, <2>1, WorkingAfter DEF Working
  <2>4. \A x : x # x0 => r \notin WorkingOn(x)
    BY DEF WorkingOn
  <2>5. \A q \in Requests : q # r => prov'[q] = prov[q]
    BY <2>1 DEF Others
  <2> HIDE DEF x0
  <2>6. LockHasHolder'
    BY <2>1, <2>3, <2>4 DEF LockHasHolder
  <2>7. ASSUME NEW x \in Resources \ raced', NEW q \in WorkingOn(x)'
        PROVE  /\ \A t \in WorkingOn(x)' : t = q
               /\ prov'[q].pc # "set" => x \in lock' /\ latest'[x] = q
    <3>1. x \notin raced /\ q \in WorkingOn(x) /\ q # r /\ q \in Requests
      BY <2>1, <2>3, <2>7 DEF WorkingOn
    <3>2. x # x0
      BY <2>2, <2>7, <3>1 DEF Locking
    <3> QED
      BY <2>1, <2>3, <2>5, <2>7, <3>1, <3>2 DEF Locking
  <2>8. Locking'
    BY <2>7 DEF Locking
  <2> QED
    BY <2>6, <2>8
<1>8. CASE Crash
  <2>1. lock' = {} /\ \A r \in Requests : prov'[r].pc \in {"idle", "done", "dead"}
    BY <1>8, CrashParts
  <2>2. \A x : WorkingOn(x)' = {}
    BY <2>1 DEF WorkingOn, Working
  <2> QED
    BY <2>1, <2>2 DEF Locking, LockHasHolder
<1> QED
  BY <1>2, <1>3, <1>4, <1>5, <1>6, <1>7, <1>8, StepKinds, GoingOn

-----------------------------------------------------------------------------
(* Passwords *)

\* The roles up to the one that was done.
LEMMA RolesNext ==
    ASSUME NEW k \in DOMAIN RoleNames
    PROVE  /\ RolesBefore(1) = {}
           /\ k # Len(RoleNames) => RolesBefore(k + 1) = RolesBefore(k) \cup {RoleNames[k]}
           /\ k = Len(RoleNames) => Roles = RolesBefore(k) \cup {RoleNames[k]}
<1>1. k \in 1..Len(RoleNames) /\ Len(RoleNames) \in Nat
  BY RoleList
<1>2. RolesBefore(1) = {}
  BY DEF RolesBefore
<1>3. 1..(k + 1) - 1 = (1..k - 1) \cup {k}
  BY <1>1
<1>4. RolesBefore(k + 1) = RolesBefore(k) \cup {RoleNames[k]}
  BY <1>3 DEF RolesBefore
<1>5. ASSUME k = Len(RoleNames)
      PROVE  DOMAIN RoleNames = (1..k - 1) \cup {k}
  BY <1>1, <1>5, RoleList
<1>6. ASSUME k = Len(RoleNames)
      PROVE  Roles = RolesBefore(k) \cup {RoleNames[k]}
  BY <1>5, <1>6 DEF Roles, RolesBefore
<1> QED
  BY <1>2, <1>4, <1>6

\* What Effects says of one instance.
EffectsOn(x) ==
    \A r \in Requests : latest[x] = r =>
        /\ ReqOf[r].kind = "provision" /\ ReqOf[r].resource = x
        /\ \A o \in Provisioned(r) : db[x][o] = Password(r, o)
        /\ ReqOf[r].vault =>
             \A o \in Saved(r) : storer[SecretId(x, o)] = x =>
                 secrets[VaultPath(x, o)] = Password(r, o)

\* Paths depend on constants only.
LEMMA PathFrame ==
    ASSUME NEW x, NEW o
    PROVE  SecretId(x, o)' = SecretId(x, o) /\ VaultPath(x, o)' = VaultPath(x, o)
  BY DEF SecretId, VaultPath, UrlPath

\* A step that does not touch an instance, its secrets or the goroutine of its
\* last request keeps them.
LEMMA EffectsFrame ==
    ASSUME NEW x, EffectsOn(x), ReqOf' = ReqOf, latest'[x] = latest[x],
           \A o \in Roles : db'[x][o] = db[x][o],
           \A o \in Roles : storer'[SecretId(x, o)] = x =>
               /\ storer[SecretId(x, o)] = x
               /\ secrets'[VaultPath(x, o)] = secrets[VaultPath(x, o)],
           \A r \in Requests : latest[x] = r =>
               Provisioned(r)' \subseteq Provisioned(r) /\ Saved(r)' \subseteq Saved(r)
               /\ Provisioned(r) \subseteq Roles /\ Saved(r) \subseteq Roles
    PROVE  EffectsOn(x)'
  BY PathFrame DEF EffectsOn, Password

\* The roles of a request are roles.
LEMMA SavedRoles ==
    ASSUME Shapes, NEW r \in Requests
    PROVE  Saved(r) \subseteq Roles /\ Provisioned(r) \subseteq Roles
<1>1. prov[r].k \in 1..Len(RoleNames) /\ Len(RoleNames) \in Nat
  BY RoleList DEF Shapes, Prov
<1>2. RolesBefore(prov[r].k) \subseteq Roles
  BY <1>1, RoleList DEF RolesBefore
<1> QED
  BY <1>2 DEF Saved, Provisioned

\* The steps that only move a goroutine.
LEMMA MovesEffects ==
    ASSUME Shapes, Effects, ReqOf' = ReqOf, raced \subseteq raced',
           UNCHANGED <<latest, db, storer, secrets>>,
           \A r \in Requests : Provisioned(r)' \subseteq Provisioned(r) /\ Saved(r)' \subseteq Saved(r)
    PROVE  Effects'
<1>1. ASSUME NEW x \in Resources \ raced'
      PROVE  EffectsOn(x)'
  <2>1. EffectsOn(x)
    BY <1>1 DEF Effects, EffectsOn
  <2> QED
    BY <2>1, EffectsFrame, SavedRoles
<1> QED
  BY <1>1 DEF Effects, EffectsOn

\* Goroutines that did not move have done what they had.
LEMMA OthersRoles ==
    ASSUME NEW q, prov'[q] = prov[q]
    PROVE  Provisioned(q)' = Provisioned(q) /\ Saved(q)' = Saved(q)
  BY DEF Provisioned, Saved, RolesBefore

\* Provisioning a role of an instance.
LEMMA ProvisionEffects ==
    ASSUME Shapes, Progress, Locking, Effects, ReqOf' = ReqOf, NEW r \in Requests, ProvisionRole(r)
    PROVE  Effects'
<1>0. PICK x0 : x0 = Resource(r)
  OBVIOUS
<1> DEFINE o == RoleNames[prov[r].k]
<1>1. PICK ok \in BOOLEAN : RoleDone(r, ok) /\ (ok => db'[x0][o] = Password(r, o))
  BY <1>0, ProvisionParts
<1>2. /\ prov[r].pc = "role" /\ ReqOf[r].kind = "provision" /\ x0 \in Resources /\ o \in Roles
      /\ \A x \in Resources, i \in Roles : x # x0 \/ i # o => db'[x][i] = db[x][i]
      /\ UNCHANGED <<secretVars, lock, raced, latest, storer>>
  BY <1>0, ProvisionParts
<1>3. Others(r)
  BY <1>1, RoleParts
<1>4. ASSUME NEW x \in Resources \ raced', x # x0
      PROVE  EffectsOn(x)'
  <2>1. EffectsOn(x)
    BY <1>2, <1>4 DEF Effects, EffectsOn
  <2>2. \A q \in Requests : latest[x] = q => q # r
    BY <1>0, <1>4, <2>1 DEF EffectsOn, Resource
  <2>3. \A q \in Requests : latest[x] = q =>
          Provisioned(q)' = Provisioned(q) /\ Saved(q)' = Saved(q)
    BY <1>3, <2>2, OthersRoles DEF Others
  <2> HIDE DEF o
  <2> QED
    BY <1>2, <1>4, <2>1, <2>3, EffectsFrame, SavedRoles DEF secretVars
<1>5. ASSUME x0 \in Resources \ raced'
      PROVE  EffectsOn(x0)'
  <2>1. x0 \notin raced /\ r \in WorkingOn(x0)
    BY <1>0, <1>2, <1>5 DEF WorkingOn, Working, Resource
  <2>2. latest[x0] = r /\ latest'[x0] = r
    BY <1>2, <2>1 DEF Locking
  <2>3. \A i \in Provisioned(r) : db[x0][i] = Password(r, i)
    BY <1>2, <2>1, <2>2 DEF Effects
  <2>4. prov[r].status # "completed" /\ prov[r].roleFailed \in BOOLEAN /\ prov[r].k \in DOMAIN RoleNames
    BY <1>2, ProvisionerAssumption DEF Progress, Shapes, Prov
  <2>5. \A i \in Provisioned(r)' : db'[x0][i] = Password(r, i)
    <3>1. ASSUME Provisioned(r)' # {}
          PROVE  ok /\ ~prov[r].roleFailed /\ Provisioned(r)' = RolesBefore(prov[r].k) \cup {o}
      <4>1. CASE prov[r].k # Len(RoleNames)
        <5>1. /\ prov'[r].status = prov[r].status /\ prov'[r].pc = "role"
              /\ prov'[r].k = prov[r].k + 1 /\ prov'[r].roleFailed = (prov[r].roleFailed \/ ~ok)
          BY <1>1, <4>1, RoleParts
        <5>2. Provisioned(r)' = IF prov[r].roleFailed \/ ~ok THEN {} ELSE RolesBefore(prov[r].k + 1)
          BY <2>4, <5>1 DEF Provisioned, RolesBefore
        <5> QED
          BY <2>4, <3>1, <4>1, <5>2, RolesNext
      <4>2. CASE prov[r].k = Len(RoleNames)
        <5>1. /\ prov'[r].status = IF prov[r].roleFailed \/ ~ok THEN "failed" ELSE "completed"
              /\ prov'[r].pc # "role"
          BY <1>1, <4>2, RoleParts
        <5>2. Provisioned(r)' = IF prov[r].roleFailed \/ ~ok THEN {} ELSE Roles
          BY <5>1 DEF Provisioned
        <5> QED
          BY <2>4, <3>1, <4>2, <5>2, RolesNext
      <4> QED
        BY <4>1, <4>2
    <3>2. CASE Provisioned(r)' # {}
      <4>1. Provisioned(r) = RolesBefore(prov[r].k)
        BY <1>2, <2>4, <3>1, <3>2 DEF Provisioned
      <4>2. RolesBefore(prov[r].k) \subseteq Roles
        BY <4>1, SavedRoles
      <4> HIDE DEF o
      <4> QED
        BY <1>1, <1>2, <2>3, <3>1, <3>2, <4>1, <4>2
    <3> QED
      BY <3>2
  <2>6. ReqOf[r].vault => Saved(r)' = {}
    <3>1. CASE prov'[r].status # "completed"
      BY <3>1 DEF Saved
    <3>2. CASE prov'[r].status = "completed" /\ ReqOf[r].vault
      <4>1. prov'[r].pc = "vault" /\ prov'[r].k = 1
        BY <1>1, <2>4, <3>2, RoleParts
      <4>2. Saved(r)' = RolesBefore(1)
        BY <3>2, <4>1 DEF Saved, RolesBefore
      <4> QED
        BY <2>4, <4>2, RolesNext
    <3> QED
      BY <3>1, <3>2
  <2>7. ReqOf[r].resource = x0
    BY <1>0 DEF Resource
  <2> HIDE DEF o
  <2> QED
    BY <1>2, <2>2, <2>5, <2>6, <2>7 DEF EffectsOn, Password
<1>6. \A x \in Resources \ raced' : EffectsOn(x)'
  BY <1>4, <1>5
<1> QED
  BY <1>6 DEF Effects, EffectsOn

\* Storing a secret of an instance.  The secrets of an instance on the same host
\* may be overwritten, which storer then says.
LEMMA VaultEffects ==
    ASSUME Shapes, Progress, Locking, Effects, ReqOf' = ReqOf, NEW r \in Requests, StoreInVault(r)
    PROVE  Effects'
<1>0. PICK x0, o : x0 = Resource(r) /\ o = RoleNames[prov[r].k]
  OBVIOUS
<1>1. PICK ok \in BOOLEAN : Stored(r, ok) /\ (ok => secrets'[VaultPath(x0, o)] = Password(r, o))
  BY <1>0, VaultParts
<1>2. /\ prov[r].pc = "vault" /\ ReqOf[r].kind = "provision" /\ x0 \in Resources /\ o \in Roles
      /\ secrets'[VaultPath(x0, o)] \in {secrets[VaultPath(x0, o)], Password(r, o)}
      /\ \A q \in Paths : q # VaultPath(x0, o) => secrets'[q] = secrets[q]
      /\ storer' = IF secrets' # secrets THEN [storer EXCEPT ![SecretId(x0, o)] = x0] ELSE storer
      /\ UNCHANGED <<load, db, raced, latest>>
  BY <1>0, VaultParts
<1>3. /\ Others(r) /\ prov'[r].status = IF ok THEN prov[r].status ELSE "failed"
      /\ prov'[r].k = IF prov[r].k = Len(RoleNames) THEN 1 ELSE prov[r].k + 1
      /\ prov'[r].pc = IF prov[r].k = Len(RoleNames) THEN "answer" ELSE "vault"
  BY <1>1, StoredParts
<1>4. /\ storer \in [SecretIds -> Resources \cup {None}] /\ SecretId(x0, o) \in SecretIds
      /\ prov[r].k \in DOMAIN RoleNames
  BY <1>2, PathParts DEF Shapes, Prov
<1>5. Saved(r) \subseteq Roles /\ Provisioned(r) \subseteq Roles
  BY SavedRoles
<1>6. Provisioned(r)' \subseteq Provisioned(r)
  BY <1>2, <1>3 DEF Provisioned
<1>7. Saved(r)' # {} => ok /\ Saved(r)' = Saved(r) \cup {o}
  <2>1. CASE prov'[r].status # "completed"
    BY <2>1 DEF Saved
  <2>2. CASE prov'[r].status = "completed"
    <3>1. ok /\ prov[r].status = "completed"
      BY <1>3, <2>2
    <3>2. Saved(r) = RolesBefore(prov[r].k)
      BY <1>2, <3>1 DEF Saved
    <3>3. CASE prov[r].k = Len(RoleNames)
      <4>1. Saved(r)' = Roles
        BY <1>3, <2>2, <3>3 DEF Saved
      <4> QED
        BY <1>0, <1>4, <3>1, <3>2, <3>3, <4>1, RolesNext
    <3>4. CASE prov[r].k # Len(RoleNames)
      <4>1. Saved(r)' = RolesBefore(prov[r].k + 1)
        BY <1>3, <2>2, <3>4 DEF Saved, RolesBefore
      <4> QED
        BY <1>0, <1>4, <3>1, <3>2, <3>4, <4>1, RolesNext
    <3> QED
      BY <3>3, <3>4
  <2> QED
    BY <2>1, <2>2
\* A secret that storer says is still the one of x was not written.
<1>8. ASSUME NEW x \in Resources, NEW i \in Roles, SecretId(x, i) # SecretId(x0, o) \/ x # x0,
             storer'[SecretId(x, i)] = x
      PROVE  /\ storer[SecretId(x, i)] = x
             /\ secrets'[VaultPath(x, i)] = secrets[VaultPath(x, i)]
  <2>1. SecretId(x, i) \in SecretIds /\ VaultPath(x, i) \in Paths /\ VaultPath(x, i).id = SecretId(x, i)
    BY PathParts
  <2>2. VaultPath(x0, o).id = SecretId(x0, o)
    BY <1>2, PathParts
  <2>3. CASE secrets' = secrets
    BY <1>2, <1>8, <2>3
  <2>4. CASE secrets' # secrets
    <3>1. storer' = [storer EXCEPT ![SecretId(x0, o)] = x0]
      BY <1>2, <2>4
    <3>2. SecretId(x, i) # SecretId(x0, o)
      BY <1>4, <1>8, <3>1
    <3> QED
      BY <1>2, <1>4, <1>8, <2>1, <2>2, <3>1, <3>2
  <2> QED
    BY <2>3, <2>4
<1>9. ASSUME NEW x \in Resources \ raced', x # x0
      PROVE  EffectsOn(x)'
  <2>1. EffectsOn(x)
    BY <1>2, <1>9 DEF Effects, EffectsOn
  <2>2. \A q \in Requests : latest[x] = q => q # r
    BY <1>0, <1>9, <2>1 DEF EffectsOn, Resource
  <2>3. \A q \in Requests : latest[x] = q =>
          Provisioned(q)' = Provisioned(q) /\ Saved(q)' = Saved(q)
    BY <1>3, <2>2, OthersRoles DEF Others
  <2> QED
    BY <1>2, <1>8, <1>9, <2>1, <2>3, EffectsFrame, SavedRoles
<1>10. ASSUME x0 \in Resources \ raced'
       PROVE  EffectsOn(x0)'
  <2>1. x0 \notin raced /\ r \in WorkingOn(x0)
    BY <1>0, <1>2, <1>10 DEF WorkingOn, Working, Resource
  <2>2. latest[x0] = r /\ latest'[x0] = r
    BY <1>2, <2>1 DEF Locking
  <2>3. /\ ReqOf[r].resource = x0 /\ \A i \in Provisioned(r) : db[x0][i] = Password(r, i)
        /\ ReqOf[r].vault =>
             \A i \in Saved(r) : storer[SecretId(x0, i)] = x0 => secrets[VaultPath(x0, i)] = Password(r, i)
    BY <1>2, <2>1, <2>2 DEF Effects
  <2>4. ASSUME ReqOf[r].vault, NEW i \in Saved(r)', storer'[SecretId(x0, i)] = x0
        PROVE  secrets'[VaultPath(x0, i)] = Password(r, i)
    <3>1. CASE i = o
      BY <1>1, <1>7, <2>4, <3>1
    <3>2. CASE i # o
      <4>1. i \in Saved(r) /\ i \in Roles
        BY <1>5, <1>7, <2>4, <3>2
      <4>2. SecretId(x0, i) # SecretId(x0, o)
        BY <3>2 DEF SecretId
      <4> QED
        BY <1>2, <1>8, <2>3, <2>4, <4>1, <4>2
    <3> QED
      BY <3>1, <3>2
  <2>5. \A i \in Provisioned(r)' : db'[x0][i] = Password(r, i)
    BY <1>2, <1>6, <2>3
  <2> QED
    BY <1>2, <2>2, <2>3, <2>4, <2>5, PathFrame DEF EffectsOn, Password
<1>11. \A x \in Resources \ raced' : EffectsOn(x)'
  BY <1>9, <1>10
<1> QED
  BY <1>11 DEF Effects, EffectsOn

\* A step that moves the goroutine of r only, which does not claim more then.
LEMMA MovesOne ==
    ASSUME Shapes, Effects, ReqOf' = ReqOf, raced \subseteq raced', NEW r \in Requests, Others(r),
           UNCHANGED <<latest, db, storer, secrets>>,
           Provisioned(r)' \subseteq Provisioned(r), Saved(r)' \subseteq Saved(r)
    PROVE  Effects'
<1>1. \A q \in Requests : Provisioned(q)' \subseteq Provisioned(q) /\ Saved(q)' \subseteq Saved(q)
  BY OthersRoles DEF Others
<1> QED
  BY <1>1, MovesEffects

\* A request that gets to work has done nothing yet.
LEMMA SetEffects ==
    ASSUME Shapes, Progress, Effects, Locking, ReqOf' = ReqOf, NEW r \in Requests, SetLock(r)
    PROVE  Effects'
<1>0. PICK x0 : x0 = Resource(r)
  OBVIOUS
<1>1. /\ prov[r].pc = "set" /\ Goto(r, "init") /\ UNCHANGED <<secrets, db, storer>>
      /\ latest' = [latest EXCEPT ![x0] = r]
      /\ raced' = IF WorkingOn(x0) = {r} THEN raced \ {x0} ELSE raced
  BY <1>0 DEF SetLock, At, secretVars
<1>2. Others(r) /\ prov'[r].pc = "init" /\ prov'[r].status = prov[r].status
  BY <1>1, GotoParts DEF Pcs, Working
<1>3. ReqOf[r].kind = "provision" /\ x0 \in Resources /\ prov[r].status = None
  BY <1>0, <1>1, WorkingRequest DEF Progress, Working, AsReceived
<1>4. Provisioned(r)' = {} /\ Saved(r)' = {}
  BY <1>2, <1>3, ProvisionerAssumption DEF Provisioned, Saved
<1>5. ASSUME NEW x \in Resources \ raced', x # x0
      PROVE  EffectsOn(x)'
  <2>1. EffectsOn(x)
    BY <1>1, <1>5 DEF Effects, EffectsOn
  <2>2. \A q \in Requests : latest[x] = q => q # r
    BY <1>0, <1>5, <2>1 DEF EffectsOn, Resource
  <2>3. \A q \in Requests : latest[x] = q =>
          Provisioned(q)' = Provisioned(q) /\ Saved(q)' = Saved(q)
    BY <1>2, <2>2, OthersRoles DEF Others
  <2>4. latest'[x] = latest[x]
    BY <1>1, <1>5
  <2> QED
    BY <1>1, <2>1, <2>3, <2>4, EffectsFrame, SavedRoles
<1>6. EffectsOn(x0)'
  <2>1. latest'[x0] = r
    BY <1>1, <1>3 DEF Shapes
  <2> QED
    BY <1>0, <1>3, <1>4, <2>1 DEF EffectsOn, Resource
<1>7. \A x \in Resources \ raced' : EffectsOn(x)'
  BY <1>5, <1>6
<1> QED
  BY <1>7 DEF Effects, EffectsOn

\* What the last request has done stays.
LEMMA StepEffects ==
    ASSUME Shapes, Progress, Locking, Effects, [Next]_vars
    PROVE  Effects'
<1>1. ReqOf' = ReqOf
  BY StepFrame
<1>2. CASE UNCHANGED <<load, secrets, lock, db, prov, raced, latest, storer>>
  <2>1. \A r \in Requests : Provisioned(r)' \subseteq Provisioned(r) /\ Saved(r)' \subseteq Saved(r)
    BY <1>2, OthersRoles
  <2> QED
    BY <1>1, <1>2, <2>1, MovesEffects
<1>3. ASSUME NEW r \in Requests, Ends(r)
      PROVE  Effects'
  <2>1. /\ Others(r) /\ raced' = raced /\ UNCHANGED <<latest, db, storer, secrets>>
        /\ prov'[r].status # "completed" /\ prov'[r].pc = "done"
    BY <1>3 DEF Ends, secretVars
  <2>2. Provisioned(r)' = {} /\ Saved(r)' = {}
    BY <2>1 DEF Provisioned, Saved
  <2> QED
    BY <1>1, <2>1, <2>2, MovesOne
<1>4. ASSUME NEW r \in Requests, Passes(r)
      PROVE  Effects'
  <2>1. /\ Goto(r, "set") /\ raced \subseteq raced' /\ UNCHANGED <<latest, db, storer, secrets>>
        /\ prov[r].pc = "idle"
    BY <1>4 DEF Passes, secretVars
  <2>2. Others(r) /\ prov'[r].pc = "set" /\ prov'[r].status = prov[r].status
    BY <2>1, GotoParts DEF Pcs, Working
  <2>3. prov[r].status # "completed"
    BY <2>1, ProvisionerAssumption DEF Progress, AsReceived
  <2>4. Provisioned(r)' = {} /\ Saved(r)' = {}
    BY <2>2, <2>3 DEF Provisioned, Saved
  <2> QED
    BY <1>1, <2>1, <2>2, <2>4, MovesOne
<1>5. ASSUME NEW r \in Requests, Connects(r)
      PROVE  Effects'
  <2>1. /\ Others(r) /\ raced' = raced /\ UNCHANGED <<latest, db, storer, secrets>>
        /\ prov[r].pc = "init" /\ prov'[r].k = prov[r].k
        /\ prov'[r].status \in {"failed", prov[r].status}
    BY <1>5 DEF Connects, secretVars
  <2>2. prov[r].status # "completed" /\ prov[r].k = 1
    BY <2>1, ProvisionerAssumption DEF Progress, AsReceived
  <2>3. Saved(r)' = {} /\ (Provisioned(r)' = {} \/ Provisioned(r)' = RolesBefore(1))
    BY <2>1, <2>2 DEF Provisioned, Saved, RolesBefore
  <2>4. Provisioned(r)' = {}
    BY <2>3, RolesNext, RoleList
  <2> QED
    BY <1>1, <2>1, <2>3, <2>4, MovesOne
<1>6. ASSUME NEW r \in Requests, NEW pc \in {"unlock", "done"}, Goto(r, pc),
             prov[r].pc \in {"answer", "unlock"}, UNCHANGED <<raced, latest, db, storer, secrets>>
      PROVE  Effects'
  <2>1. Others(r) /\ prov'[r].pc = pc /\ prov'[r].status = prov[r].status
    BY <1>6, GotoParts DEF Pcs, Working
  <2>2. Provisioned(r)' = Provisioned(r) /\ Saved(r)' = Saved(r)
    BY <1>6, <2>1 DEF Provisioned, Saved
  <2> QED
    BY <1>1, <1>6, <2>1, <2>2, MovesOne
<1>7. ASSUME NEW r \in Requests, SendResponse(r) \/ Unlock(r)
      PROVE  Effects'
  BY <1>6, <1>7 DEF SendResponse, Unlock, At, secretVars
<1>8. CASE Crash
  <2>1. /\ UNCHANGED <<load, secrets, db, raced, latest, storer>>
        /\ \A r \in Requests :
             \/ prov'[r] = prov[r]
             \/ prov'[r].pc = "dead" /\ prov'[r].status = None
    BY <1>8, CrashParts DEF AsReceived
  <2>2. ASSUME NEW r \in Requests
        PROVE  Provisioned(r)' \subseteq Provisioned(r) /\ Saved(r)' \subseteq Saved(r)
    <3>1. CASE prov'[r] = prov[r]
      BY <3>1, OthersRoles
    <3>2. CASE prov'[r].pc = "dead" /\ prov'[r].status = None
      BY <3>2, ProvisionerAssumption DEF Provisioned, Saved
    <3> QED
      BY <2>1, <3>1, <3>2
  <2> QED
    BY <1>1, <2>1, <2>2, MovesEffects
<1> QED
  BY <1>1, <1>2, <1>3, <1>4, <1>5, <1>7, <1>8, StepKinds, SetEffects, ProvisionEffects, VaultEffects

-----------------------------------------------------------------------------
(* Responses *)

\* What SentInv says of one request.
SentBy(r) ==
    ReqOf[r].kind = "provision" /\ ReqOf[r].vault =>
        /\ prov[r].pc = "vault" =>
             prov[r].sent \subseteq {Password(r, RoleNames[j]) : j \in prov[r].k..Len(RoleNames)}
        /\ prov[r].pc \in {"answer", "unlock", "done"} /\ prov[r].sent # {} => prov[r].roleFailed

\* It is about the goroutine of that request only.
LEMMA SentFrame ==
    ASSUME SentInv, ReqOf' = ReqOf, NEW q \in Requests, prov'[q] = prov[q]
    PROVE  SentBy(q)'
  BY DEF SentInv, SentBy, Password

\* A step of r only has to be looked at for r.
LEMMA SentOne ==
    ASSUME SentInv, ReqOf' = ReqOf, NEW r \in Requests, Others(r), SentBy(r)'
    PROVE  SentInv'
<1>1. \A q \in Requests : SentBy(q)'
  BY SentFrame DEF Others
<1> QED
  BY <1>1 DEF SentInv, SentBy

\* With Vault, passwords stay in a response only if a role failed.
LEMMA StepSent ==
    ASSUME Shapes, Progress, SentInv, [Next]_vars
    PROVE  SentInv'
<1>1. ReqOf' = ReqOf
  BY StepFrame
<1>2. CASE UNCHANGED <<load, secrets, lock, db, prov, raced, latest, storer>>
  <2>1. \A r \in Requests : SentBy(r)'
    BY <1>1, <1>2, SentFrame
  <2> QED
    BY <2>1 DEF SentInv, SentBy
<1>3. ASSUME NEW r \in Requests, Ends(r) \/ Connects(r)
      PROVE  SentInv'
  <2>1. /\ Others(r) /\ prov'[r].sent = prov[r].sent /\ prov'[r].pc # "vault"
        /\ prov[r].pc \in {"idle", "init"}
    BY <1>3 DEF Ends, Connects
  <2>2. prov'[r].sent = {}
    BY <2>1 DEF Progress, AsReceived
  <2>3. SentBy(r)'
    BY <2>1, <2>2 DEF SentBy
  <2> QED
    BY <1>1, <2>1, <2>3, SentOne
<1>4. ASSUME NEW r \in Requests, Passes(r) \/ SetLock(r)
      PROVE  SentInv'
  <2>1. PICK pc \in {"set", "init"} : Goto(r, pc)
    BY <1>4 DEF Passes, SetLock
  <2>2. Others(r) /\ prov'[r].pc = pc
    BY <2>1, GotoParts DEF Pcs, Working
  <2>3. SentBy(r)'
    BY <2>2 DEF SentBy
  <2> QED
    BY <1>1, <2>2, <2>3, SentOne
<1>5. ASSUME NEW r \in Requests, SendResponse(r) \/ Unlock(r)
      PROVE  SentInv'
  <2>1. PICK pc \in {"unlock", "done"} : Goto(r, pc) /\ prov[r].pc \in {"answer", "unlock"}
    BY <1>5 DEF SendResponse, Unlock, At
  <2>2. /\ Others(r) /\ prov'[r].pc = pc /\ prov'[r].sent = prov[r].sent
        /\ prov'[r].roleFailed = prov[r].roleFailed
    BY <2>1, GotoParts DEF Pcs, Working
  <2>3. SentBy(r)'
    BY <1>1, <2>1, <2>2 DEF SentBy, SentInv
  <2> QED
    BY <1>1, <2>2, <2>3, SentOne
<1>6. ASSUME NEW r \in Requests, ProvisionRole(r)
      PROVE  SentInv'
  <2>1. PICK ok \in BOOLEAN : RoleDone(r, ok)
    BY <1>6, ProvisionParts
  <2>2. prov[r].sent \subseteq {Password(r, o) : o \in Roles} /\ prov[r].k \in DOMAIN RoleNames
    BY DEF Progress, Shapes, Prov
  <2>3. /\ Others(r) /\ prov'[r].roleFailed = (prov[r].roleFailed \/ ~ok)
        /\ prov'[r].pc \in {"role", "vault", "answer"}
        /\ prov'[r].pc = "vault" => prov'[r].k = 1
        /\ prov'[r].pc = "answer" => ~ReqOf[r].vault \/ prov'[r].roleFailed
        /\ prov'[r].sent \subseteq prov[r].sent \cup {Password(r, RoleNames[prov[r].k])}
    BY <2>1, RoleParts
  <2>4. {Password(r, o) : o \in Roles} = {Password(r, RoleNames[j]) : j \in 1..Len(RoleNames)}
    BY RoleList
  <2>5. Password(r, RoleNames[prov[r].k]) \in {Password(r, o) : o \in Roles}
    BY <2>2, RoleList
  <2>6. prov'[r].sent \subseteq {Password(r, RoleNames[j]) : j \in 1..Len(RoleNames)}
    BY <2>2, <2>3, <2>4, <2>5
  <2>7. SentBy(r)'
    BY <1>1, <2>3, <2>6 DEF SentBy, Password
  <2> QED
    BY <1>1, <2>3, <2>7, SentOne
<1>7. ASSUME NEW r \in Requests, StoreInVault(r)
      PROVE  SentInv'
  <2>1. PICK ok \in BOOLEAN : Stored(r, ok)
    BY <1>7, VaultParts
  <2>2. prov[r].pc = "vault" /\ ReqOf[r].kind = "provision" /\ ReqOf[r].vault
    BY <1>7, VaultParts DEF Progress
  <2>3. /\ Others(r) /\ prov'[r].sent = prov[r].sent \ {Password(r, RoleNames[prov[r].k])}
        /\ prov'[r].k = IF prov[r].k = Len(RoleNames) THEN 1 ELSE prov[r].k + 1
        /\ prov'[r].pc = IF prov[r].k = Len(RoleNames) THEN "answer" ELSE "vault"
    BY <2>1, StoredParts
  <2>4. prov[r].k \in 1..Len(RoleNames) /\ Len(RoleNames) \in Nat
    BY RoleList DEF Shapes, Prov
  <2>5. prov[r].sent \subseteq {Password(r, RoleNames[j]) : j \in prov[r].k..Len(RoleNames)}
    BY <2>2 DEF SentInv
  <2>6. CASE prov[r].k = Len(RoleNames)
    <3>1. prov'[r].sent = {}
      BY <2>3, <2>4, <2>5, <2>6
    <3>2. SentBy(r)'
      BY <2>3, <2>6, <3>1 DEF SentBy
    <3> QED
      BY <1>1, <2>3, <3>2, SentOne
  <2>7. CASE prov[r].k # Len(RoleNames)
    <3>1. prov'[r].sent \subseteq {Password(r, RoleNames[j]) : j \in prov[r].k + 1..Len(RoleNames)}
      BY <2>3, <2>4, <2>5, <2>7
    <3>2. SentBy(r)'
      BY <2>3, <2>7, <3>1 DEF SentBy, Password
    <3> QED
      BY <1>1, <2>3, <3>2, SentOne
  <2> QED
    BY <2>6, <2>7
<1>8. CASE Crash
  <2>1. ASSUME NEW r \in Requests
        PROVE  SentBy(r)'
    <3>1. CASE prov'[r] = prov[r]
      BY <1>1, <3>1, SentFrame
    <3>2. CASE prov'[r].pc = "dead"
      BY <3>2 DEF SentBy
    <3> QED
      BY <1>8, <3>1, <3>2, CrashParts
  <2> QED
    BY <2>1 DEF SentInv, SentBy
<1> QED
  BY <1>2, <1>3, <1>4, <1>5, <1>6, <1>7, <1>8, StepKinds

-----------------------------------------------------------------------------
(* Decode *)

\* The records of Decode have the fields of NotDecoded.
DecFields == {"pc", "todo", "cache", "out", "failed", "since"}
DecPcs == {"idle", "decoding", "decoded", "failed"}
DecShapes ==
    /\ DOMAIN dec = Sessions
    /\ \A s \in Sessions : DOMAIN dec[s] = DecFields /\ dec[s].pc \in DecPcs

Blank(c) ==
    /\ c.todo = {} /\ DOMAIN c.out = {} /\ DOMAIN c.cache = {} /\ DOMAIN c.since = {}
    /\ c.failed = FALSE

\* The version v, with the goroutines at P, will not be written any more.
SpentAt(P, v) ==
    \A r \in Requests, j \in DOMAIN RoleNames : v = Password(r, RoleNames[j]) =>
        \/ P[r].pc \in {"answer", "unlock", "done", "dead"}
        \/ P[r].pc = "vault" /\ j < P[r].k

\* The versions that secrets have are spent.
Versions == \A p \in Paths : SpentAt(prov, secrets[p])

IsRef(s, e) == e \in DOMAIN EnvOf[s] /\ EnvOf[s][e].kind = "ref"

\* How far Decode has got.
Extent(s) ==
    /\ dec[s].pc \in {"idle", "failed"} => Blank(dec[s])
    /\ dec[s].todo \subseteq DOMAIN EnvOf[s]
    /\ DOMAIN dec[s].out \subseteq DOMAIN EnvOf[s]
    /\ dec[s].pc \in {"decoding", "decoded"} /\ ~dec[s].failed =>
         DOMAIN dec[s].out = DOMAIN EnvOf[s] \ dec[s].todo
    /\ dec[s].pc = "decoded" => ~dec[s].failed /\ dec[s].todo = {}

\* Env vars that are decoded to a secret have the version that was kept; the
\* secrets of the env provider, which keeps none, never change.
Kept(s) ==
    /\ \A e : IsRef(s, e) /\ Cached(s, e) => EnvOf[s][e].provider # "env"
    /\ dec[s].pc = "decoding" => \A e \in DOMAIN dec[s].out : IsRef(s, e) =>
         IF EnvOf[s][e].provider = "env"
         THEN MountOf[EnvOf[s][e].id] = "env" /\ dec[s].out[e] = secrets[Path(s, e)]
         ELSE Cached(s, e) /\ dec[s].out[e] = dec[s].cache[Slot(s, e)]
    /\ dec[s].pc = "decoded" => \A e, f : IsRef(s, e) /\ IsRef(s, f) /\ Slot(s, e) = Slot(s, f) =>
         dec[s].out[e] = dec[s].out[f]

\* A version that is not the one at the start was written after it, and the
\* one at the start does not come back.
Reads(s) ==
    /\ \A p \in DOMAIN dec[s].since : SpentAt(prov, dec[s].since[p])
    /\ \A e : IsRef(s, e) =>
        /\ dec[s].pc \in {"decoding", "decoded"} => Path(s, e) \in DOMAIN dec[s].since
        /\ e \in DOMAIN dec[s].out /\ dec[s].out[e] # dec[s].since[Path(s, e)] =>
             secrets[Path(s, e)] # dec[s].since[Path(s, e)]
        /\ Cached(s, e) /\ dec[s].cache[Slot(s, e)] # dec[s].since[Path(s, e)] =>
             secrets[Path(s, e)] # dec[s].since[Path(s, e)]

DecodeInv == \A s \in Sessions : Extent(s) /\ Kept(s) /\ Reads(s)

\* A path of an env var is a path.
LEMMA RefPath ==
    ASSUME Shapes, NEW s \in Sessions, NEW e, IsRef(s, e)
    PROVE  Path(s, e) \in Paths /\ Path(s, e).id = EnvOf[s][e].id
<1>1. EnvOf[s][e].id \in SecretIds
  BY SecretsAssumption DEF IsRef, EnvOf, Shapes
<1> QED
  BY <1>1 DEF Path, UrlPath, Paths

\* A version that is not written any more is not written later either.
LEMMA StaysSpent ==
    ASSUME Shapes, Progress, [Next]_vars, NEW v, SpentAt(prov, v)
    PROVE  SpentAt(prov', v)
<1>1. SUFFICES ASSUME NEW q \in Requests, NEW j \in DOMAIN RoleNames,
                      \/ prov[q].pc \in {"answer", "unlock", "done", "dead"}
                      \/ prov[q].pc = "vault" /\ j < prov[q].k
               PROVE  \/ prov'[q].pc \in {"answer", "unlock", "done", "dead"}
                      \/ prov'[q].pc = "vault" /\ j < prov'[q].k
  BY DEF SpentAt
<1>2. CASE prov'[q] = prov[q]
  BY <1>1, <1>2
<1>3. ASSUME NEW r \in Requests, Others(r), r # q
      PROVE  prov'[q] = prov[q]
  BY <1>3 DEF Others
<1>4. CASE Ends(q) \/ Connects(q) \/ Passes(q) \/ SetLock(q) \/ ProvisionRole(q)
  BY <1>1, <1>4 DEF Ends, Connects, Passes, SetLock, ProvisionRole, At
<1>5. CASE SendResponse(q) \/ Unlock(q)
  <2>1. PICK pc \in {"unlock", "done"} : Goto(q, pc)
    BY <1>5 DEF SendResponse, Unlock
  <2> QED
    BY <2>1, GotoParts DEF Pcs, Working
<1>6. CASE StoreInVault(q)
  <2>1. PICK ok \in BOOLEAN : Stored(q, ok)
    BY <1>6, VaultParts
  <2>2. /\ prov'[q].k = IF prov[q].k = Len(RoleNames) THEN 1 ELSE prov[q].k + 1
        /\ prov'[q].pc = IF prov[q].k = Len(RoleNames) THEN "answer" ELSE "vault"
    BY <2>1, StoredParts
  <2>3. prov[q].pc = "vault" /\ prov[q].k \in Nat /\ j \in Nat
    BY <1>6, VaultParts, RoleList DEF Shapes, Prov
  <2> QED
    BY <1>1, <2>2, <2>3
<1>7. CASE Crash
  BY <1>1, <1>7, CrashParts
<1>8. ASSUME NEW r \in Requests, Ends(r) \/ Connects(r)
      PROVE  Others(r)
  BY <1>8 DEF Ends, Connects
<1>9. ASSUME NEW r \in Requests, Passes(r) \/ SetLock(r) \/ SendResponse(r) \/ Unlock(r)
      PROVE  Others(r)
  <2>1. PICK pc \in {"set", "init", "unlock", "done"} : Goto(r, pc)
    BY <1>9 DEF Passes, SetLock, SendResponse, Unlock
  <2> QED
    BY <2>1, GotoParts DEF Pcs, Working
<1>10. ASSUME NEW r \in Requests, ProvisionRole(r)
       PROVE  Others(r)
  BY <1>10, ProvisionParts, RoleParts
<1>11. ASSUME NEW r \in Requests, StoreInVault(r)
       PROVE  Others(r)
  BY <1>11, VaultParts, StoredParts
<1> QED
  BY <1>2, <1>3, <1>4, <1>5, <1>6, <1>7, <1>8, <1>9, <1>10, <1>11, StepKinds

\* What a step may do to the secrets: a version that is written is new, and
\* is Vault's.
Writes ==
    \A p \in Paths : \/ secrets'[p] = secrets[p]
                     \/ /\ MountOf[p.id] # "env" /\ ~SpentAt(prov, secrets'[p])
                        /\ SpentAt(prov', secrets'[p])

\* Every step writes the secrets that way.
LEMMA StepWrites ==
    ASSUME Shapes, Progress, [Next]_vars
    PROVE  Writes
<1>1. CASE secrets' = secrets
  BY <1>1 DEF Writes
<1>2. ASSUME NEW r \in Requests, StoreInVault(r)
      PROVE  Writes
  <2>0. PICK x0, k, o : x0 = Resource(r) /\ k = prov[r].k /\ o = RoleNames[k]
    OBVIOUS
  <2>1. PICK ok \in BOOLEAN : Stored(r, ok)
    BY <1>2, VaultParts
  <2>2. /\ prov[r].pc = "vault" /\ x0 \in Resources /\ o \in Roles
        /\ secrets'[VaultPath(x0, o)] \in {secrets[VaultPath(x0, o)], Password(r, o)}
        /\ \A q \in Paths : q # VaultPath(x0, o) => secrets'[q] = secrets[q]
    BY <1>2, <2>0, VaultParts
  <2>3. /\ Others(r)
        /\ prov'[r].k = IF k = Len(RoleNames) THEN 1 ELSE k + 1
        /\ prov'[r].pc = IF k = Len(RoleNames) THEN "answer" ELSE "vault"
    BY <2>0, <2>1, StoredParts
  <2>4. k \in DOMAIN RoleNames /\ k \in Nat
    BY <2>0, RoleList DEF Shapes, Prov
  <2>5. MountOf[VaultPath(x0, o).id] # "env"
    BY <2>2, PathParts
  <2>6. ~SpentAt(prov, Password(r, o))
    BY <2>0, <2>2, <2>4 DEF SpentAt
  <2>7. SpentAt(prov', Password(r, o))
    <3>1. ASSUME NEW q \in Requests, NEW j \in DOMAIN RoleNames,
                 Password(r, o) = Password(q, RoleNames[j])
          PROVE  q = r /\ j = k
      BY <2>0, <2>4, <3>1, ProvisionerAssumption DEF Password
    <3> QED
      BY <2>3, <2>4, <3>1 DEF SpentAt
  <2> QED
    BY <2>2, <2>5, <2>6, <2>7 DEF Writes
<1>3. ASSUME NEW r \in Requests,
             \/ Ends(r) \/ Passes(r) \/ SetLock(r) \/ Connects(r) \/ ProvisionRole(r)
             \/ SendResponse(r) \/ Unlock(r)
      PROVE  secrets' = secrets
  BY <1>3 DEF Ends, Passes, SetLock, Connects, ProvisionRole, SendResponse, Unlock, secretVars
<1> QED
  BY <1>1, <1>2, <1>3, StepKinds, CrashParts

\* Versions are spent once they are written.
LEMMA StepVersions ==
    ASSUME Shapes, Progress, Versions, [Next]_vars
    PROVE  Versions'
  BY StepWrites, StaysSpent DEF Versions, Writes

\* What a session refers to does not change.
LEMMA RefFrame ==
    ASSUME EnvOf' = EnvOf, NEW s, NEW e
    PROVE  /\ Path(s, e)' = Path(s, e) /\ Slot(s, e)' = Slot(s, e)
           /\ IsRef(s, e)' <=> IsRef(s, e)
  BY DEF Path, UrlPath, Slot, IsRef

\* Other actors leave a Decode as it is.
LEMMA DecodeKeeps ==
    ASSUME Shapes, Progress, DecShapes, [Next]_vars, NEW s \in Sessions, dec'[s] = dec[s],
           Extent(s), Kept(s), Reads(s)
    PROVE  Extent(s)' /\ Kept(s)' /\ Reads(s)'
<1>1. EnvOf' = EnvOf /\ Writes /\ \A v : SpentAt(prov, v) => SpentAt(prov', v)
  BY StepFrame, StepWrites, StaysSpent
<1>2. Extent(s)'
  BY <1>1 DEF Extent, Blank
<1>3. \A e : Path(s, e)' = Path(s, e) /\ Slot(s, e)' = Slot(s, e) /\ (IsRef(s, e)' <=> IsRef(s, e))
  BY <1>1, RefFrame
<1>4. \A e : Cached(s, e)' <=> Cached(s, e)
  BY <1>3 DEF Cached
<1>5. ASSUME NEW e, IsRef(s, e)
      PROVE  Path(s, e) \in Paths /\ Path(s, e).id = EnvOf[s][e].id
  BY <1>5, RefPath
<1>6. ASSUME NEW e, IsRef(s, e), MountOf[EnvOf[s][e].id] = "env"
      PROVE  secrets'[Path(s, e)] = secrets[Path(s, e)]
  BY <1>1, <1>5, <1>6 DEF Writes
<1>7. Kept(s)'
  BY <1>1, <1>3, <1>4, <1>6 DEF Kept
<1>8. \A p \in DOMAIN dec'[s].since : SpentAt(prov', dec'[s].since[p])
  BY <1>1 DEF Reads
<1>9. ASSUME NEW e, IsRef(s, e), e \in DOMAIN dec[s].out \/ Cached(s, e)
      PROVE  secrets'[Path(s, e)] = secrets[Path(s, e)]
             \/ secrets'[Path(s, e)] # dec[s].since[Path(s, e)]
  <2>1. Path(s, e) \in DOMAIN dec[s].since
    BY <1>9 DEF DecShapes, DecPcs, Extent, Blank, Cached, Reads
  <2> QED
    BY <1>1, <1>5, <1>9, <2>1 DEF Writes, Reads
<1>10. Reads(s)'
  BY <1>3, <1>4, <1>8, <1>9 DEF Reads
<1> QED
  BY <1>2, <1>7, <1>10

\* A new record for session s.
DecOthers(s) == \A t \in Sessions : t # s => dec'[t] = dec[t]

\* Such a record keeps the shape.
LEMMA DecReplace ==
    ASSUME DecShapes, NEW s \in Sessions, NEW c, DOMAIN c = DecFields, c.pc \in DecPcs,
           dec' = [dec EXCEPT ![s] = c]
    PROVE  DecShapes' /\ DecOthers(s) /\ dec'[s] = c
  BY DEF DecShapes, DecOthers

\* A Decode that ended without a result has no trace left.
NoResult(c) == DOMAIN c = DecFields /\ c.pc = "failed" /\ Blank(c)

\* What ProviderFails, FinishDecode and Crash leave is such a record.
LEMMA NoResultParts == NoResult([NotDecoded EXCEPT !.pc = "failed"])
<1>1. /\ DOMAIN NotDecoded = DecFields /\ Blank(NotDecoded)
  BY DEF NotDecoded, DecFields, Blank
<1> DEFINE c == [NotDecoded EXCEPT !.pc = "failed"]
<1>2. /\ DOMAIN c = DecFields /\ c.pc = "failed" /\ c.todo = NotDecoded.todo
      /\ c.out = NotDecoded.out /\ c.cache = NotDecoded.cache /\ c.since = NotDecoded.since
      /\ c.failed = NotDecoded.failed
  BY <1>1 DEF DecFields
<1> HIDE DEF c
<1>3. NoResult(c)
  BY <1>1, <1>2 DEF NoResult, Blank
<1> QED
  BY <1>3 DEF c

\* Then nothing is claimed of it.
LEMMA NoResultHolds ==
    ASSUME NEW s \in Sessions, NoResult(dec'[s])
    PROVE  Extent(s)' /\ Kept(s)' /\ Reads(s)'
<1>1. Extent(s)'
  BY DEF NoResult, Extent, Blank
<1>2. \A e : ~Cached(s, e)'
  BY DEF NoResult, Blank, Cached
<1>3. Kept(s)' /\ Reads(s)'
  BY <1>2 DEF NoResult, Blank, Kept, Reads
<1> QED
  BY <1>1, <1>3

\* Decode starts with the versions of the moment.
LEMMA StartHolds ==
    ASSUME Shapes, DecShapes, Versions, EnvOf' = EnvOf, prov' = prov, NEW s \in Sessions,
           Extent(s), StartDecode(s)
    PROVE  /\ DecShapes' /\ DecOthers(s)
           /\ Extent(s)' /\ Kept(s)' /\ Reads(s)'
<1> DEFINE S == [p \in {Path(s, e) : e \in Refs(s)} |-> secrets[p]]
           c == [dec[s] EXCEPT !.pc = "decoding", !.todo = DOMAIN EnvOf[s], !.since = S]
<1>1. dec' = [dec EXCEPT ![s] = c] /\ dec[s].pc = "idle" /\ secrets' = secrets
  BY DEF StartDecode, DecShapes
<1>2. /\ DOMAIN c = DecFields /\ c.pc = "decoding" /\ c.todo = DOMAIN EnvOf[s] /\ c.since = S
      /\ c.out = dec[s].out /\ c.cache = dec[s].cache /\ c.failed = dec[s].failed
  BY DEF DecShapes, DecFields
<1> HIDE DEF c
<1>3. DecShapes' /\ DecOthers(s) /\ dec'[s] = c
  BY <1>1, <1>2, DecReplace DEF DecPcs
<1>4. Blank(dec[s])
  BY <1>1 DEF Extent
<1>5. DOMAIN dec'[s].out = {} /\ DOMAIN dec'[s].cache = {} /\ dec'[s].failed = FALSE
  BY <1>2, <1>3, <1>4 DEF Blank
<1>6. Extent(s)'
  BY <1>2, <1>3, <1>5 DEF Extent
<1>7. \A e : ~Cached(s, e)'
  BY <1>5 DEF Cached
<1>8. Kept(s)'
  BY <1>2, <1>3, <1>5, <1>7 DEF Kept
<1>9. ASSUME NEW p \in DOMAIN S
      PROVE  SpentAt(prov', S[p])
  <2>1. PICK e \in Refs(s) : p = Path(s, e)
    BY <1>9
  <2>2. p \in Paths
    BY <2>1, RefPath DEF Refs, IsRef
  <2> QED
    BY <1>9, <2>2 DEF Versions
<1>10. ASSUME NEW e, IsRef(s, e)
       PROVE  Path(s, e) \in DOMAIN S
  BY <1>10 DEF IsRef, Refs
<1>11. \A e : (IsRef(s, e)' <=> IsRef(s, e)) /\ Path(s, e)' = Path(s, e)
  BY RefFrame
<1> HIDE DEF S
<1>12. Reads(s)'
  BY <1>2, <1>3, <1>5, <1>7, <1>9, <1>10, <1>11 DEF Reads
<1> QED
  BY <1>3, <1>6, <1>8, <1>12

\* An env var that fails.
LEMMA FailHolds ==
    ASSUME DecShapes, EnvOf' = EnvOf, prov' = prov, secrets' = secrets, NEW s \in Sessions, NEW e,
           Extent(s), Kept(s), Reads(s), dec[s].pc = "decoding", Fail(s, e)
    PROVE  /\ DecShapes' /\ DecOthers(s)
           /\ Extent(s)' /\ Kept(s)' /\ Reads(s)'
<1> DEFINE c == [dec[s] EXCEPT !.todo = dec[s].todo \ {e}, !.failed = TRUE]
<1>1. dec' = [dec EXCEPT ![s] = c]
  BY DEF Fail, DecShapes
<1>2. /\ DOMAIN c = DecFields /\ c.pc = "decoding" /\ c.todo = dec[s].todo \ {e}
      /\ c.failed = TRUE /\ c.out = dec[s].out /\ c.cache = dec[s].cache /\ c.since = dec[s].since
  BY DEF DecShapes, DecFields
<1> HIDE DEF c
<1>3. DecShapes' /\ DecOthers(s) /\ dec'[s] = c
  BY <1>1, <1>2, DecReplace DEF DecPcs
<1>4. Extent(s)'
  BY <1>2, <1>3 DEF Extent
<1>5. \A f : /\ IsRef(s, f)' <=> IsRef(s, f)
             /\ Path(s, f)' = Path(s, f) /\ Slot(s, f)' = Slot(s, f)
  BY RefFrame
<1>6. \A f : Cached(s, f)' <=> Cached(s, f)
  BY <1>2, <1>3, <1>5 DEF Cached
<1>7. Kept(s)' /\ Reads(s)'
  BY <1>2, <1>3, <1>5, <1>6 DEF Kept, Reads
<1> QED
  BY <1>3, <1>4, <1>7

\* The last step of a Decode without failures.
LEMMA FinishHolds ==
    ASSUME DecShapes, EnvOf' = EnvOf, prov' = prov, NEW s \in Sessions,
           Extent(s), Kept(s), Reads(s), FinishDecode(s), ~dec[s].failed
    PROVE  /\ DecShapes' /\ DecOthers(s)
           /\ Extent(s)' /\ Kept(s)' /\ Reads(s)'
<1> DEFINE c == [dec[s] EXCEPT !.pc = "decoded", !.cache = << >>]
<1>1. /\ dec' = [dec EXCEPT ![s] = c] /\ secrets' = secrets
      /\ dec[s].pc = "decoding" /\ dec[s].todo = {}
  BY DEF FinishDecode, DecShapes
<1>2. /\ DOMAIN c = DecFields /\ c.pc = "decoded" /\ c.todo = dec[s].todo /\ DOMAIN c.cache = {}
      /\ c.failed = dec[s].failed /\ c.out = dec[s].out /\ c.since = dec[s].since
  BY DEF DecShapes, DecFields
<1> HIDE DEF c
<1>3. DecShapes' /\ DecOthers(s) /\ dec'[s] = c
  BY <1>1, <1>2, DecReplace DEF DecPcs
<1>4. Extent(s)'
  BY <1>1, <1>2, <1>3 DEF Extent
<1>5. \A f : /\ IsRef(s, f)' <=> IsRef(s, f)
             /\ Path(s, f)' = Path(s, f) /\ Slot(s, f)' = Slot(s, f)
  BY RefFrame
<1>6. \A f : ~Cached(s, f)'
  BY <1>2, <1>3 DEF Cached
<1>7. ASSUME NEW e, NEW f, IsRef(s, e), IsRef(s, f), Slot(s, e) = Slot(s, f)
      PROVE  dec[s].out[e] = dec[s].out[f]
  <2>1. e \in DOMAIN dec[s].out /\ f \in DOMAIN dec[s].out
    BY <1>1, <1>7 DEF IsRef, Extent
  <2>2. EnvOf[s][e].provider = EnvOf[s][f].provider /\ EnvOf[s][e].id = EnvOf[s][f].id
    BY <1>7 DEF Slot
  <2>3. Path(s, e) = Path(s, f)
    BY <2>2 DEF Path
  <2> QED
    BY <1>1, <1>7, <2>1, <2>2, <2>3 DEF Kept
<1>8. Kept(s)'
  BY <1>2, <1>3, <1>5, <1>6, <1>7 DEF Kept
<1>9. Reads(s)'
  BY <1>1, <1>2, <1>3, <1>5, <1>6 DEF Reads
<1> QED
  BY <1>3, <1>4, <1>8, <1>9

\* Where the value of an env var comes from, and what is kept of it.
Source(s, e, v, keep) ==
    \/ ~IsRef(s, e) /\ keep = dec[s].cache
    \/ IsRef(s, e) /\ Cached(s, e) /\ v = dec[s].cache[Slot(s, e)] /\ keep = dec[s].cache
    \/ /\ IsRef(s, e) /\ EnvOf[s][e].provider = "env" /\ MountOf[EnvOf[s][e].id] = "env"
       /\ v = secrets[Path(s, e)] /\ keep = dec[s].cache
    \/ /\ IsRef(s, e) /\ EnvOf[s][e].provider # "env" /\ v = secrets[Path(s, e)]
       /\ ~Cached(s, e)
       /\ DOMAIN keep = DOMAIN dec[s].cache \cup {Slot(s, e)} /\ keep[Slot(s, e)] = v
       /\ \A x \in DOMAIN dec[s].cache : keep[x] = dec[s].cache[x]

\* An env var that is decoded.
LEMMA PutHolds ==
    ASSUME DecShapes, EnvOf' = EnvOf, prov' = prov, secrets' = secrets, NEW s \in Sessions,
           Extent(s), Kept(s), Reads(s), dec[s].pc = "decoding", NEW e \in dec[s].todo,
           NEW v, NEW c, DOMAIN c = DecFields, c.pc = "decoding", c.todo = dec[s].todo \ {e},
           c.failed = dec[s].failed, c.since = dec[s].since,
           DOMAIN c.out = DOMAIN dec[s].out \cup {e}, c.out[e] = v,
           \A f \in DOMAIN dec[s].out : f # e => c.out[f] = dec[s].out[f],
           Source(s, e, v, c.cache), dec' = [dec EXCEPT ![s] = c]
    PROVE  /\ DecShapes' /\ DecOthers(s)
           /\ Extent(s)' /\ Kept(s)' /\ Reads(s)'
<1>1. DecShapes' /\ DecOthers(s) /\ dec'[s] = c
  BY DecReplace DEF DecPcs
<1>2. Extent(s)'
  <2>1. e \in DOMAIN EnvOf[s]
    BY DEF Extent
  <2> QED
    BY <1>1, <2>1 DEF Extent
<1>3. \A f : /\ IsRef(s, f)' <=> IsRef(s, f)
             /\ Path(s, f)' = Path(s, f) /\ Slot(s, f)' = Slot(s, f)
  BY RefFrame
<1>4. \A f : Cached(s, f)' <=> Slot(s, f) \in DOMAIN c.cache
  BY <1>1, <1>3 DEF Cached
<1>5. ASSUME NEW f, NEW g, Slot(s, f) = Slot(s, g)
      PROVE  /\ EnvOf[s][f].provider = EnvOf[s][g].provider
             /\ Path(s, f) = Path(s, g)
  <2>1. EnvOf[s][f].provider = EnvOf[s][g].provider /\ EnvOf[s][f].id = EnvOf[s][g].id
    BY <1>5 DEF Slot
  <2> QED
    BY <2>1 DEF Path
\* What was kept is still kept.
<1>6. \A f : Cached(s, f) => Cached(s, f)' /\ c.cache[Slot(s, f)] = dec[s].cache[Slot(s, f)]
  BY <1>4 DEF Cached, Source
\* What is new is the secret of e.
<1>7. ASSUME NEW f, IsRef(s, f), Cached(s, f)', ~Cached(s, f)
      PROVE  /\ EnvOf[s][f].provider # "env"
             /\ c.cache[Slot(s, f)] = secrets[Path(s, f)]
  <2>1. Slot(s, f) \in DOMAIN c.cache /\ Slot(s, f) \notin DOMAIN dec[s].cache
    BY <1>4, <1>7 DEF Cached
  <2>2. /\ EnvOf[s][e].provider # "env" /\ Slot(s, f) = Slot(s, e)
        /\ c.cache[Slot(s, e)] = secrets[Path(s, e)]
    BY <2>1 DEF Source
  <2> QED
    BY <1>5, <2>2
<1>8. \A f : IsRef(s, f) /\ Cached(s, f)' => EnvOf[s][f].provider # "env"
  BY <1>7 DEF Kept
<1>9. ASSUME IsRef(s, e)
      PROVE  IF EnvOf[s][e].provider = "env"
             THEN MountOf[EnvOf[s][e].id] = "env" /\ v = secrets[Path(s, e)]
             ELSE Cached(s, e)' /\ v = c.cache[Slot(s, e)]
  BY <1>4, <1>6, <1>9 DEF Source, Kept
<1>10. ASSUME NEW f \in DOMAIN c.out, f # e, IsRef(s, f)
       PROVE  IF EnvOf[s][f].provider = "env"
              THEN MountOf[EnvOf[s][f].id] = "env" /\ c.out[f] = secrets[Path(s, f)]
              ELSE Cached(s, f)' /\ c.out[f] = c.cache[Slot(s, f)]
  <2>1. f \in DOMAIN dec[s].out /\ c.out[f] = dec[s].out[f]
    BY <1>10
  <2> QED
    BY <1>6, <1>10, <2>1 DEF Kept
<1>11. Kept(s)'
  BY <1>1, <1>3, <1>8, <1>9, <1>10 DEF Kept
<1>12. ASSUME NEW f, IsRef(s, f), Cached(s, f)', c.cache[Slot(s, f)] # c.since[Path(s, f)]
       PROVE  secrets[Path(s, f)] # c.since[Path(s, f)]
  BY <1>6, <1>7, <1>12 DEF Reads
<1>13. ASSUME NEW f \in DOMAIN c.out, IsRef(s, f), c.out[f] # c.since[Path(s, f)]
       PROVE  secrets[Path(s, f)] # c.since[Path(s, f)]
  <2>1. CASE f = e
    BY <1>9, <1>12, <1>13, <2>1
  <2>2. CASE f # e
    BY <1>13, <2>2 DEF Reads
  <2> QED
    BY <2>1, <2>2
<1>14. Reads(s)'
  BY <1>1, <1>3, <1>12, <1>13 DEF Reads
<1> QED
  BY <1>1, <1>2, <1>11, <1>14

\* Put, for a value that need not be kept.
LEMMA PutParts ==
    ASSUME DecShapes, EnvOf' = EnvOf, prov' = prov, secrets' = secrets, NEW s \in Sessions,
           Extent(s), Kept(s), Reads(s), dec[s].pc = "decoding", NEW e \in dec[s].todo, NEW v,
           Source(s, e, v, dec[s].cache), Put(s, e, v)
    PROVE  /\ DecShapes' /\ DecOthers(s)
           /\ Extent(s)' /\ Kept(s)' /\ Reads(s)'
<1> DEFINE out == [x \in DOMAIN dec[s].out \cup {e} |-> IF x = e THEN v ELSE dec[s].out[x]]
           c == [dec[s] EXCEPT !.todo = dec[s].todo \ {e}, !.out = out]
<1>1. dec' = [dec EXCEPT ![s] = c]
  BY DEF Put, DecShapes
<1>2. /\ DOMAIN out = DOMAIN dec[s].out \cup {e} /\ out[e] = v
      /\ \A f \in DOMAIN dec[s].out : f # e => out[f] = dec[s].out[f]
  OBVIOUS
<1> HIDE DEF out
<1>3. /\ DOMAIN c = DecFields /\ c.pc = "decoding" /\ c.todo = dec[s].todo \ {e} /\ c.out = out
      /\ c.failed = dec[s].failed /\ c.cache = dec[s].cache /\ c.since = dec[s].since
  BY DEF DecShapes, DecFields
<1> HIDE DEF c
<1> QED
  BY <1>1, <1>2, <1>3, PutHolds

\* A secret that was fetched, and is kept.
LEMMA FetchParts ==
    ASSUME DecShapes, EnvOf' = EnvOf, prov' = prov, secrets' = secrets, NEW s \in Sessions,
           Extent(s), Kept(s), Reads(s), dec[s].pc = "decoding", NEW e \in dec[s].todo,
           IsRef(s, e), EnvOf[s][e].provider # "env", ~Cached(s, e),
           LET keep == [x \in DOMAIN dec[s].cache \cup {Slot(s, e)} |->
                          IF x = Slot(s, e) THEN Latest(s, e) ELSE dec[s].cache[x]] IN
           dec' = [dec EXCEPT
                     ![s].todo = @ \ {e}, ![s].cache = keep,
                     ![s].out = [x \in DOMAIN @ \cup {e} |->
                                   IF x = e THEN Latest(s, e) ELSE @[x]]]
    PROVE  /\ DecShapes' /\ DecOthers(s)
           /\ Extent(s)' /\ Kept(s)' /\ Reads(s)'
<1> DEFINE v == Latest(s, e)
           out == [x \in DOMAIN dec[s].out \cup {e} |-> IF x = e THEN v ELSE dec[s].out[x]]
           keep == [x \in DOMAIN dec[s].cache \cup {Slot(s, e)} |->
                      IF x = Slot(s, e) THEN v ELSE dec[s].cache[x]]
           c == [dec[s] EXCEPT !.todo = dec[s].todo \ {e}, !.cache = keep, !.out = out]
<1>1. dec' = [dec EXCEPT ![s] = c]
  BY DEF DecShapes
<1>2. /\ DOMAIN out = DOMAIN dec[s].out \cup {e} /\ out[e] = v
      /\ \A f \in DOMAIN dec[s].out : f # e => out[f] = dec[s].out[f]
  OBVIOUS
<1>3. Source(s, e, v, keep)
  BY DEF Source, Latest, Cached
<1> HIDE DEF out, keep, v
<1>4. /\ DOMAIN c = DecFields /\ c.pc = "decoding" /\ c.todo = dec[s].todo \ {e} /\ c.out = out
      /\ c.failed = dec[s].failed /\ c.cache = keep /\ c.since = dec[s].since
  BY DEF DecShapes, DecFields
<1> HIDE DEF c
<1> QED
  BY <1>1, <1>2, <1>3, <1>4, PutHolds

\* A step of Decode for session s.
LEMMA DecodeOne ==
    ASSUME Shapes, DecShapes, Versions, EnvOf' = EnvOf, prov' = prov, secrets' = secrets,
           NEW s \in Sessions, Extent(s), Kept(s), Reads(s), DecodeStep(s)
    PROVE  /\ DecShapes' /\ DecOthers(s)
           /\ Extent(s)' /\ Kept(s)' /\ Reads(s)'
<1> DEFINE Goal == DecShapes' /\ DecOthers(s) /\ Extent(s)' /\ Kept(s)' /\ Reads(s)'
           gone == [NotDecoded EXCEPT !.pc = "failed"]
<1>1. ASSUME dec' = [dec EXCEPT ![s] = gone]
      PROVE  Goal
  <2>1. NoResult(gone)
    BY NoResultParts
  <2> HIDE DEF gone
  <2>2. DecShapes' /\ DecOthers(s) /\ dec'[s] = gone
    BY <1>1, <2>1, DecReplace DEF NoResult, DecPcs
  <2> QED
    BY <2>1, <2>2, NoResultHolds
<1>2. CASE StartDecode(s)
  BY <1>2, StartHolds
<1>3. CASE FinishDecode(s)
  <2>1. CASE ~dec[s].failed
    BY <1>3, <2>1, FinishHolds
  <2>2. CASE dec[s].failed
    BY <1>1, <1>3, <2>2 DEF FinishDecode
  <2> QED
    BY <2>1, <2>2
<1>4. ASSUME NEW e \in dec[s].todo,
             \/ DecodeOther(s, e) \/ ProviderFails(s, e)
             \/ GetCached(s, e) \/ Fetch(s, e) \/ FetchFails(s, e)
      PROVE  Goal
  <2>1. dec[s].pc = "decoding"
    BY <1>4 DEF DecodeOther, ProviderFails, GetCached, Fetch, FetchFails, Todo
  <2>2. CASE Fail(s, e)
    BY <2>1, <2>2, FailHolds
  <2>3. ASSUME NEW v, Put(s, e, v), Source(s, e, v, dec[s].cache)
        PROVE  Goal
    BY <2>1, <2>3, PutParts
  <2>4. e \in DOMAIN EnvOf[s]
    BY DEF Extent
  <2> HIDE DEF Goal
  <2>5. CASE DecodeOther(s, e)
    <3>1. Fail(s, e) \/ \E v : Put(s, e, v) /\ EnvOf[s][e].kind # "ref"
      BY <2>5 DEF DecodeOther, Todo
    <3> QED
      BY <2>2, <2>3, <3>1 DEF Source, IsRef
  <2>6. CASE ProviderFails(s, e)
    BY <1>1, <2>6 DEF ProviderFails
  <2>7. CASE GetCached(s, e)
    <3>1. EnvOf[s][e].kind = "ref" /\ Cached(s, e)
      BY <2>7 DEF GetCached, Todo
    <3>2. Fail(s, e) \/ Put(s, e, dec[s].cache[Slot(s, e)])
      BY <2>7 DEF GetCached
    <3> QED
      BY <2>2, <2>3, <2>4, <3>1, <3>2 DEF Source, IsRef
  <2>8. CASE Fetch(s, e)
    <3>1. /\ EnvOf[s][e].kind = "ref" /\ ~Cached(s, e)
          /\ MountOf[EnvOf[s][e].id] = EnvOf[s][e].provider
      BY <2>8 DEF Fetch, Todo, Found
    <3>2. CASE HasKey(s, e) /\ EnvOf[s][e].provider = "env" /\ Put(s, e, Latest(s, e))
      BY <2>3, <2>4, <3>1, <3>2 DEF Source, IsRef, Latest
    <3>3. CASE EnvOf[s][e].provider # "env" /\ ~Fail(s, e)
      BY <2>1, <2>4, <2>8, <3>1, <3>3, FetchParts DEF Goal, Fetch, IsRef
    <3> QED
      BY <2>2, <2>8, <3>2, <3>3 DEF Fetch
  <2>9. CASE FetchFails(s, e)
    BY <2>2, <2>9 DEF FetchFails
  <2> QED
    BY <1>4, <2>5, <2>6, <2>7, <2>8, <2>9
<1> QED
  BY <1>2, <1>3, <1>4 DEF DecodeStep

\* Every step keeps what is known of every Decode.
LEMMA StepDecode ==
    ASSUME Shapes, Progress, DecShapes, Versions, DecodeInv, [Next]_vars
    PROVE  DecShapes' /\ DecodeInv'
<1>1. EnvOf' = EnvOf
  BY StepFrame
<1>2. ASSUME NEW t \in Sessions, dec'[t] = dec[t]
      PROVE  Extent(t)' /\ Kept(t)' /\ Reads(t)'
  BY <1>2, DecodeKeeps DEF DecodeInv
<1>3. CASE dec' = dec
  <2>1. DecShapes'
    BY <1>3 DEF DecShapes
  <2> QED
    BY <1>2, <1>3, <2>1 DEF DecodeInv
<1>4. ASSUME NEW s \in Sessions, DecodeStep(s), UNCHANGED provisionVars
      PROVE  DecShapes' /\ DecodeInv'
  <2>1. prov' = prov /\ secrets' = secrets
    BY <1>4, DecodeFrame DEF provisionVars
  <2>2. DecShapes' /\ DecOthers(s) /\ Extent(s)' /\ Kept(s)' /\ Reads(s)'
    BY <1>1, <1>4, <2>1, DecodeOne DEF DecodeInv
  <2> QED
    BY <1>2, <2>2 DEF DecOthers, DecodeInv
<1>5. CASE Crash
  <2> DEFINE gone == [NotDecoded EXCEPT !.pc = "failed"]
  <2>1. dec' = [s \in Sessions |-> IF dec[s].pc = "decoding" THEN gone ELSE dec[s]]
    BY <1>5 DEF Crash
  <2>2. NoResult(gone)
    BY NoResultParts
  <2> HIDE DEF gone
  <2>3. \A s \in Sessions : dec'[s] = gone \/ dec'[s] = dec[s]
    BY <2>1
  <2>4. DecShapes'
    BY <2>1, <2>2 DEF DecShapes, NoResult, DecPcs
  <2>5. \A s \in Sessions : Extent(s)' /\ Kept(s)' /\ Reads(s)'
    BY <1>2, <2>2, <2>3, NoResultHolds
  <2> QED
    BY <2>4, <2>5 DEF DecodeInv
<1>6. ASSUME NEW r, Goroutine(r)
      PROVE  dec' = dec
  BY <1>6 DEF Goroutine, RunbookHook, Malformed, CheckLock, SetLock, Connect, ProvisionRole,
              StoreInVault, SendResponse, Unlock, secretVars
<1> QED
  BY <1>3, <1>4, <1>5, <1>6 DEF Next, vars, secretVars

-----------------------------------------------------------------------------
(* Theorems *)

IInv ==
    /\ Shapes /\ Progress
    /\ Locking /\ LockHasHolder
    /\ Effects
    /\ SentInv
    /\ DecShapes /\ Versions /\ DecodeInv

\* A process that has just started.
LEMMA InitHolds == Init => IInv
<1> SUFFICES ASSUME Init
             PROVE  IInv
  OBVIOUS
<1>1. prov = [r \in Requests |-> Idle] /\ Idle \in Prov /\ Idle.pc = "idle" /\ AsReceived(Idle)
  BY IdleParts DEF Init
<1>2. Shapes
  <2>1. /\ load \in Loads /\ lock \subseteq Resources /\ raced \subseteq Resources
        /\ db \in [Resources -> [Roles -> {None} \cup (Requests \X Roles)]]
        /\ latest \in [Resources -> Requests \cup {None}]
        /\ storer \in [SecretIds -> Resources \cup {None}]
    BY DEF Init, SecretsInit
  <2>2. DOMAIN secrets = Paths /\ secrets = [p \in Paths |-> secrets[p]]
    BY DEF Init, SecretsInit
  <2>3. prov \in [Requests -> Prov]
    BY <1>1
  <2> QED
    BY <2>1, <2>2, <2>3 DEF Shapes
<1>3. \A r \in Requests : prov[r].pc = "idle" /\ AsReceived(prov[r])
  BY <1>1
<1>4. Progress
  BY <1>3 DEF Progress, Working, AsReceived
<1>5. \A x : WorkingOn(x) = {}
  BY <1>3 DEF WorkingOn, Working
<1>6. Locking /\ LockHasHolder
  BY <1>5 DEF Locking, LockHasHolder, Init
<1>7. Effects
  <2>1. None \notin Requests
    BY ProvisionerAssumption
  <2> QED
    BY <2>1 DEF Effects, Init
<1>8. SentInv
  BY <1>3 DEF SentInv
<1>9. Versions
  <2>1. ASSUME NEW p \in Paths
        PROVE  secrets[p] \notin Requests \X Roles
    <3>1. p.id \in SecretIds
      BY DEF Paths
    <3>2. secrets[p] = Written[p.id] \/ secrets[p] = None
      BY DEF Init, SecretsInit
    <3> QED
      BY <3>1, <3>2, ProvisionerAssumption
  <2>2. \A r \in Requests, j \in DOMAIN RoleNames : Password(r, RoleNames[j]) \in Requests \X Roles
    BY RoleList DEF Password
  <2> QED
    BY <2>1, <2>2 DEF Versions, SpentAt
<1>10. /\ dec = [s \in Sessions |-> NotDecoded]
       /\ DOMAIN NotDecoded = DecFields /\ NotDecoded.pc = "idle" /\ Blank(NotDecoded)
  BY DEF Init, SecretsInit, NotDecoded, DecFields, Blank
<1>11. DecShapes
  BY <1>10 DEF DecShapes, DecPcs
<1>12. ASSUME NEW s \in Sessions
       PROVE  Extent(s) /\ Kept(s) /\ Reads(s)
  <2>1. dec[s].pc = "idle" /\ Blank(dec[s])
    BY <1>10
  <2>2. \A e : ~Cached(s, e)
    BY <2>1 DEF Cached, Blank
  <2> QED
    BY <2>1, <2>2 DEF Extent, Kept, Reads, Blank
<1> QED
  BY <1>2, <1>4, <1>6, <1>7, <1>8, <1>9, <1>11, <1>12 DEF IInv, DecodeInv

\* The invariant is inductive.
LEMMA Invariance == Spec => []IInv
<1>1. IInv /\ [Next]_vars => IInv'
  <2> SUFFICES ASSUME IInv, [Next]_vars
               PROVE  IInv'
    OBVIOUS
  <2>1. Shapes' /\ Progress'
    BY StepShapes, StepProgress DEF IInv
  <2>2. Locking' /\ LockHasHolder'
    BY StepLocking DEF IInv
  <2>3. Effects' /\ SentInv'
    BY StepEffects, StepSent DEF IInv
  <2>4. DecShapes' /\ Versions' /\ DecodeInv'
    BY StepDecode, StepVersions DEF IInv
  <2> QED
    BY <2>1, <2>2, <2>3, <2>4 DEF IInv
<1> QED
  BY <1>1, InitHolds, PTL DEF Spec

\* Goroutines, databases and decoded env vars have the types that TypeOK
\* gives them.
THEOREM Typing == Spec => []TypeOK
<1>1. IInv => TypeOK
  <2> SUFFICES ASSUME IInv
               PROVE  TypeOK
    OBVIOUS
  <2>1. lock \subseteq Resources /\ raced \subseteq Resources
    BY DEF IInv, Shapes
  <2>2. \A x \in Resources, o \in Roles : db[x][o] \in {None} \cup (Requests \X Roles)
    BY DEF IInv, Shapes
  <2>3. ASSUME NEW r \in Requests
        PROVE  /\ prov[r].pc \in {"idle", "done", "dead"} \cup Working
               /\ prov[r].k \in DOMAIN RoleNames
               /\ prov[r].roleFailed \in BOOLEAN
               /\ prov[r].sent \subseteq {Password(r, o) : o \in Roles}
               /\ prov[r].status \in {"completed", "failed", "hook1", "hook-2"}
                    \cup (IF prov[r].pc \in {"answer", "unlock", "done"} THEN {} ELSE {None})
    <3>1. prov[r] \in Prov
      BY DEF IInv, Shapes
    <3>2. prov[r].pc \in Pcs /\ prov[r].k \in DOMAIN RoleNames /\ prov[r].roleFailed \in BOOLEAN
      BY <3>1 DEF Prov
    <3>3. prov[r].status \in Statuses \cup {None}
      BY <3>1 DEF Prov
    <3>4. prov[r].pc \in {"answer", "unlock", "done"} => prov[r].status # None
      BY DEF IInv, Progress
    <3>5. prov[r].sent \subseteq {Password(r, o) : o \in Roles}
      BY DEF IInv, Progress
    <3> QED
      BY <3>2, <3>3, <3>4, <3>5 DEF Pcs, Statuses
  <2>4. ASSUME NEW s \in Sessions
        PROVE  /\ dec[s].pc \in {"idle", "decoding", "decoded", "failed"}
               /\ dec[s].todo \subseteq DOMAIN EnvOf[s] /\ DOMAIN dec[s].out \subseteq DOMAIN EnvOf[s]
    BY DEF IInv, DecShapes, DecPcs, DecodeInv, Extent
  <2> QED
    BY <2>1, <2>2, <2>3, <2>4 DEF TypeOK
<1> QED
  BY <1>1, Invariance, PTL

\* Requests for one resource work at the same time only if one passed Has
\* between another's Has and Set, and then until none of them is left.
ExclusiveUnlessRaced ==
    \A x \in Resources : Cardinality(WorkingOn(x)) > 1 => x \in raced

\* Requests for one instance work at the same time only after the race between
\* Has and Set of the lock store: what is left of the claim at dbprovisioner.go:37.
THEOREM Exclusion == Spec => []ExclusiveUnlessRaced
<1>1. IInv => ExclusiveUnlessRaced
  <2> SUFFICES ASSUME IInv, NEW x \in Resources, x \notin raced
               PROVE  ~(Cardinality(WorkingOn(x)) > 1)
    BY DEF ExclusiveUnlessRaced
  <2>1. CASE WorkingOn(x) = {}
    BY <2>1, FS_EmptySet
  <2>2. ASSUME NEW r \in WorkingOn(x)
        PROVE  Cardinality(WorkingOn(x)) = 1
    <3>1. WorkingOn(x) = {r}
      BY <2>2 DEF IInv, Locking
    <3> QED
      BY <3>1, FS_Singleton
  <2> QED
    BY <2>1, <2>2
<1> QED
  BY <1>1, Invariance, PTL

\* No request leaves an entry in the lock store behind, however it ends.
THEOREM LocksReleased == Spec => []LockHasHolder
<1>1. IInv => LockHasHolder
  BY DEF IInv
<1> QED
  BY <1>1, Invariance, PTL

\* A request that is settled has done all of its roles, and stored them.
LEMMA SettledWorks == IInv => CredentialsWork
<1> SUFFICES ASSUME IInv, NEW x \in Resources, NEW o \in Roles, Settled(x)
             PROVE  /\ db[x][o] = Password(latest[x], o)
                    /\ InVault(x) => secrets[VaultPath(x, o)] = Password(latest[x], o)
  BY DEF CredentialsWork, InVault
<1>1. PICK r \in Requests : r = latest[x]
  BY DEF IInv, Shapes, Settled
<1>2. x \notin raced /\ prov[r].status = "completed" /\ WorkingOn(x) = {}
  BY <1>1 DEF Settled
<1>3. /\ ReqOf[r].kind = "provision" /\ ReqOf[r].resource = x
      /\ \A i \in Provisioned(r) : db[x][i] = Password(r, i)
      /\ ReqOf[r].vault =>
           \A i \in Saved(r) : storer[SecretId(x, i)] = x =>
               secrets[VaultPath(x, i)] = Password(r, i)
  BY <1>1, <1>2 DEF IInv, Effects
<1>4. prov[r].pc # "vault"
  BY <1>2, <1>3 DEF WorkingOn, Working
<1>5. Provisioned(r) = Roles /\ Saved(r) = Roles
  BY <1>2, <1>4 DEF Provisioned, Saved
<1> QED
  BY <1>1, <1>3, <1>5 DEF InVault

\* Once the last request for an instance is answered with "completed", the
\* instance takes its passwords, and Vault holds them, whatever requests
\* failed or died before.
THEOREM Credentials == Spec => []CredentialsWork
  BY SettledWorks, Invariance, PTL

\* With Vault, a response holds passwords only if a role failed.
PasswordSentOnlyIfRoleFailed ==
    \A r \in Requests :
        /\ ReqOf[r].kind = "provision" /\ ReqOf[r].vault
        /\ prov[r].pc \in {"unlock", "done"} /\ prov[r].sent # {}
        => prov[r].roleFailed

\* No response of a request with Vault holds a password unless a role failed:
\* what is left of the claim at dbprovisioner.go:100.
THEOREM Responses == Spec => []PasswordSentOnlyIfRoleFailed
<1>1. IInv => PasswordSentOnlyIfRoleFailed
  BY DEF IInv, SentInv, PasswordSentOnlyIfRoleFailed
<1> QED
  BY <1>1, Invariance, PTL

\* A session gets all of its env vars, and those of one secret are of one
\* version of it.
THEOREM Together == Spec => []DecodedTogether
<1>1. IInv => DecodedTogether
  <2> SUFFICES ASSUME IInv, NEW s \in Sessions, dec[s].pc = "decoded"
               PROVE  /\ DOMAIN dec[s].out = DOMAIN EnvOf[s]
                      /\ \A e, f \in DOMAIN EnvOf[s] :
                           /\ EnvOf[s][e].kind = "ref" /\ EnvOf[s][f].kind = "ref"
                           /\ Slot(s, e) = Slot(s, f)
                           => dec[s].out[e] = dec[s].out[f]
    BY DEF DecodedTogether
  <2> QED
    BY DEF IInv, DecodeInv, Extent, Kept, IsRef
<1> QED
  BY <1>1, Invariance, PTL

\* A session that started after the passwords were stored gets the ones the
\* instance takes.
THEOREM SessionPasswords == Spec => []SessionPasswordWorks
<1>1. IInv => SessionPasswordWorks
  <2> SUFFICES ASSUME IInv, NEW s \in Sessions, dec[s].pc = "decoded",
                      NEW e \in DOMAIN EnvOf[s], NEW x \in Resources, NEW o \in Roles,
                      EnvOf[s][e].kind = "ref", EnvOf[s][e].provider = "kv2",
                      EnvOf[s][e].id = SecretId(x, o), InVault(x),
                      dec[s].since[VaultPath(x, o)] = secrets[VaultPath(x, o)]
               PROVE  dec[s].out[e] = db[x][o]
    BY DEF SessionPasswordWorks
  <2>1. Path(s, e) = VaultPath(x, o) /\ IsRef(s, e)
    BY DEF Path, VaultPath, IsRef
  <2>2. e \in DOMAIN dec[s].out
    BY DEF IInv, DecodeInv, Extent
  <2>3. dec[s].out[e] = secrets[VaultPath(x, o)]
    BY <2>1, <2>2 DEF IInv, DecodeInv, Reads
  <2> QED
    BY <2>3, SettledWorks DEF CredentialsWork, InVault
<1> QED
  BY <1>1, Invariance, PTL

=============================================================================
