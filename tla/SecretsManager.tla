--------------------------- MODULE SecretsManager ---------------------------
(***************************************************************************)
(* The agent's secrets managers (agent/secretsmanager): Decode replaces    *)
(* the env vars of a session that refer to a secret, while others write    *)
(* the secret.                                                             *)
(*                                                                         *)
(* Decode runs in the loop of Agent.Run, for one session at a time, and    *)
(* takes the env vars in the arbitrary order of a Go map.  Every request   *)
(* to a secret store is a step.  Providers, and with them their caches,    *)
(* live for one call of Decode.                                            *)
(***************************************************************************)
EXTENDS Naturals, Sequences, FiniteSets

CONSTANTS
    Sessions,    \* sessions that are opened
    SecretIds,   \* names of secrets
    Slashed,     \* the ones that contain a "/"
    KeysOf,      \* KeysOf[i]: the keys every version of secret i has
    MountOf,     \* MountOf[i]: the store secret i is kept in
    Written,     \* Written[i]: the version secret i has at first, or None
    Loads,       \* what the agent may meet (see load)
    None

Vaults == {"kv1", "kv2"}
Providers == Vaults \cup {"aws", "env"}

\* The value of an env var decodes to a reference (provider, id and key), or is
\* plain, names an unknown provider, or is not base64.
EntryKinds == {"plain", "unknown", "malformed", "ref"}

ASSUME SecretsAssumption ==
    /\ \A l \in Loads, s \in Sessions : \A e \in DOMAIN l.env[s] :
         /\ l.env[s][e].kind \in EntryKinds
         /\ l.env[s][e].kind = "ref" =>
              l.env[s][e].provider \in Providers /\ l.env[s][e].id \in SecretIds
    /\ Slashed \subseteq SecretIds
    /\ MountOf \in [SecretIds -> Providers]
    /\ \A l \in Loads : l.procEnv \subseteq {"ADDR", "TOKEN", "APP_ROLE_ID",
         "APP_ROLE_SECRET_ID", "CACERT_unreadable", "AWS_unusable"}

VARIABLES
    load,      \* what the agent meets, which does not change
    secrets,   \* secrets[p]: the latest version at path p, or None
    dec        \* dec[s]: the Decode of session s

secretVars == <<load, secrets, dec>>

\* The VAULT_ env vars of the process that are set, and faults of its host.
procEnv == load.procEnv

\* EnvOf[s]: the env vars of session s, a function to entries.
EnvOf == load.env

\* urlPathForProvider: an id without "/" is below secret/data/, but not for
\* the first version of the k/v store.
UrlPath(provider, id) ==
    [below |-> IF provider = "kv2" /\ id \notin Slashed THEN "secret/data" ELSE "", id |-> id]

Paths == [below : {"secret/data", ""}, id : SecretIds]

\* A Decode: where it is; the env vars to be decoded; the secrets its
\* providers keep; what env vars are decoded to; whether one failed.
NotDecoded ==
    [pc |-> "idle", todo |-> {}, cache |-> << >>, out |-> << >>, failed |-> FALSE,
     since |-> << >>]

SecretsInit ==
    /\ load \in Loads
    /\ secrets = [p \in Paths |-> IF p = UrlPath(MountOf[p.id], p.id) THEN Written[p.id]
                                  ELSE None]
    /\ dec = [s \in Sessions |-> NotDecoded]

-----------------------------------------------------------------------------
(* Vault *)

\* loadDefaultVaultConfig and loadAppRoleCredentials
VaultConfigured ==
    /\ "CACERT_unreadable" \notin procEnv
    /\ "APP_ROLE_ID" \in procEnv <=> "APP_ROLE_SECRET_ID" \in procEnv
    /\ "APP_ROLE_ID" \in procEnv \/ {"TOKEN", "ADDR"} \subseteq procEnv

\* A request can be made at all: an app role without VAULT_ADDR is accepted
\* by loadDefaultVaultConfig, but then no request succeeds.
VaultReachable == VaultConfigured /\ "ADDR" \in procEnv

\* SetValue writes a new version.  It may fail, as may the login before it,
\* and an error (a time-out) does not mean that nothing was written.
SetValueSucceeds(id, value) ==
    /\ VaultReachable
    /\ secrets' = [secrets EXCEPT ![UrlPath("kv2", id)] = value]

SetValueFails(id, value) ==
    \/ UNCHANGED secrets
    \/ VaultReachable /\ secrets' = [secrets EXCEPT ![UrlPath("kv2", id)] = value]

-----------------------------------------------------------------------------
(* Decode *)

DecodingNow == {s \in Sessions : dec[s].pc = "decoding"}

Path(s, e) == UrlPath(EnvOf[s][e].provider, EnvOf[s][e].id)
Refs(s) == {e \in DOMAIN EnvOf[s] : EnvOf[s][e].kind = "ref"}

\* since is only there for the properties: what the secrets were at the start.
StartDecode(s) ==
    /\ dec[s].pc = "idle" /\ DecodingNow = {}
    /\ dec' = [dec EXCEPT ![s].pc = "decoding", ![s].todo = DOMAIN EnvOf[s],
                          ![s].since = [p \in {Path(s, e) : e \in Refs(s)} |-> secrets[p]]]
    /\ UNCHANGED <<load, secrets>>

\* Env var e is decoded to v, or fails.
Put(s, e, v) ==
    dec' = [dec EXCEPT ![s].todo = @ \ {e},
                       ![s].out = [x \in DOMAIN @ \cup {e} |-> IF x = e THEN v ELSE @[x]]]

Fail(s, e) == dec' = [dec EXCEPT ![s].todo = @ \ {e}, ![s].failed = TRUE]

Todo(s, e, kind) ==
    /\ dec[s].pc = "decoding" /\ e \in dec[s].todo
    /\ EnvOf[s][e].kind = kind
    /\ UNCHANGED <<load, secrets>>

\* Not a reference, or one to an unknown provider: the value is kept.
DecodeOther(s, e) ==
    \/ \E kind \in {"plain", "unknown"} : Todo(s, e, kind) /\ Put(s, e, kind)
    \/ Todo(s, e, "malformed") /\ Fail(s, e)

Slot(s, e) == <<EnvOf[s][e].provider, EnvOf[s][e].id>>
Cached(s, e) == Slot(s, e) \in DOMAIN dec[s].cache
HasKey(s, e) == EnvOf[s][e].key \in KeysOf[EnvOf[s][e].id]

\* newVaultKeyValProvider and newAwsProvider succeed.
SetUp(s, e) ==
    CASE EnvOf[s][e].provider \in Vaults -> VaultConfigured
      [] EnvOf[s][e].provider = "aws"    -> "AWS_unusable" \notin procEnv
      [] EnvOf[s][e].provider = "env"    -> TRUE

\* A provider that cannot be set up ends Decode.
ProviderFails(s, e) ==
    /\ Todo(s, e, "ref") /\ ~SetUp(s, e)
    /\ dec' = [dec EXCEPT ![s] = [NotDecoded EXCEPT !.pc = "failed"]]

\* GetKey with the secret in the cache.
GetCached(s, e) ==
    /\ Todo(s, e, "ref") /\ SetUp(s, e) /\ Cached(s, e)
    /\ IF HasKey(s, e) THEN Put(s, e, dec[s].cache[Slot(s, e)]) ELSE Fail(s, e)

\* The provider's request is answered with the latest version: the secret
\* must exist in a store of the provider's kind.
Found(s, e) ==
    /\ secrets[Path(s, e)] # None
    /\ MountOf[EnvOf[s][e].id] = EnvOf[s][e].provider
    /\ EnvOf[s][e].provider \in Vaults => VaultReachable

\* Mutant of Latest: the first version is read.
LatestIsFirst(s, e) == Written[EnvOf[s][e].id]

\* The data of the answer.
Latest(s, e) == secrets[Path(s, e)]

\* Mutant of Fetch: every key is a request of its own.
FetchEach(s, e) ==
    /\ Todo(s, e, "ref") /\ SetUp(s, e) /\ ~Cached(s, e)
    /\ Found(s, e)
    /\ IF HasKey(s, e) THEN Put(s, e, Latest(s, e)) ELSE Fail(s, e)

\* GetKey without it.  The secret is only kept when it has the key, and by
\* the env provider not at all; the value of a key is identified by the version.
Fetch(s, e) ==
    /\ Todo(s, e, "ref") /\ SetUp(s, e) /\ ~Cached(s, e)
    /\ Found(s, e)
    /\ \/ ~HasKey(s, e) /\ Fail(s, e)
       \/ HasKey(s, e) /\ EnvOf[s][e].provider = "env" /\ Put(s, e, Latest(s, e))
       \/ /\ HasKey(s, e) /\ EnvOf[s][e].provider # "env"
          /\ LET keep == [x \in DOMAIN dec[s].cache \cup {Slot(s, e)} |->
                            IF x = Slot(s, e) THEN Latest(s, e) ELSE dec[s].cache[x]] IN
             dec' = [dec EXCEPT
                       ![s].todo = @ \ {e}, ![s].cache = keep,
                       ![s].out = [x \in DOMAIN @ \cup {e} |->
                                     IF x = e THEN Latest(s, e) ELSE @[x]]]

\* The request fails, times out or is answered with an error.
FetchFails(s, e) ==
    /\ Todo(s, e, "ref") /\ SetUp(s, e) /\ ~Cached(s, e)
    /\ EnvOf[s][e].provider = "env" => ~Found(s, e)
    /\ Fail(s, e)

\* One env var that failed fails them all.
FinishDecode(s) ==
    /\ dec[s].pc = "decoding" /\ dec[s].todo = {}
    /\ dec' = [dec EXCEPT ![s] = IF @.failed THEN [NotDecoded EXCEPT !.pc = "failed"]
                                 ELSE [@ EXCEPT !.pc = "decoded", !.cache = << >>]]
    /\ UNCHANGED <<load, secrets>>

DecodeStep(s) ==
    \/ StartDecode(s) \/ FinishDecode(s)
    \/ \E e \in dec[s].todo : \/ DecodeOther(s, e) \/ ProviderFails(s, e)
                              \/ GetCached(s, e) \/ Fetch(s, e) \/ FetchFails(s, e)

=============================================================================
