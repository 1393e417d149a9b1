---------------------------- MODULE MCProvisioner ----------------------------
(* A small instance of the provisioner and the sessions that use its secrets. *)
EXTENDS Provisioner

MCHost == [x |-> "h", y |-> "h"]
MCRoles == <<"ro", "rw">>

Ro == <<"h", "ro">>
App == <<"app", "one">>
Old == <<"old", "one">>
Json == <<"env", "json">>
MCIds == {Ro, <<"h", "rw">>, App, Old, Json}
MCSlashed == {App}
MCMount == [i \in MCIds |-> CASE i = App -> "aws" [] i = Old -> "kv1" [] i = Json -> "env"
                              [] OTHER -> "kv2"]
MCKeys == [i \in MCIds |-> {"USER", "PASSWORD"}]
MCWritten == [i \in MCIds |-> <<"first", "version">>]

Request(x, engine, vault) ==
    [kind |-> "provision", resource |-> x, engine |-> engine, vault |-> vault]
Other(kind) == [kind |-> kind]
NoRequest == Other("none")

Ref(p, i, k) == [kind |-> "ref", provider |-> p, id |-> i, key |-> k]
Pair == [user |-> Ref("kv2", Ro, "USER"), pass |-> Ref("kv2", Ro, "PASSWORD")]

Token == {"TOKEN", "ADDR"}
Load(procEnv_, env, r1, r2, r3) ==
    [procEnv |-> procEnv_, env |-> [s1 |-> env],
     req |-> [r1 |-> r1, r2 |-> r2, r3 |-> r3]]

\* References to every kind of store, one to a key that the secret lacks.
Mixed ==
    [host |-> [kind |-> "plain"], port |-> [kind |-> "unknown"],
     user |-> Ref("aws", App, "USER"), pass |-> Ref("aws", App, "PASSWORD"),
     db |-> Ref("kv1", Old, "USER"), opts |-> Ref("env", Json, "USER")]
Lacking ==
    [user |-> Ref("env", Json, "DB"), pass |-> Ref("aws", App, "DB"), db |-> Ref("aws", App, "USER")]

MCLoads ==
    { \* the secrets of one instance are written twice while a session is opened
      Load(Token, Pair, Request("x", "postgres", TRUE), Request("x", "mysql", TRUE), NoRequest),
      \* those of two instances on one host
      Load(Token, Pair, Request("x", "mysql", TRUE), Request("y", "sqlserver-se", TRUE), NoRequest),
      \* three requests for one instance, one of them of an unknown engine
      Load({}, << >>, Request("x", "mysql", FALSE), Request("x", "postgres", FALSE),
           Request("x", "oracle", FALSE)),
      \* Vault with an app role, without an address; and not fully configured
      Load({"APP_ROLE_ID", "APP_ROLE_SECRET_ID"}, Mixed, Request("x", "postgres", TRUE),
           Other("hook"), Other("malformed")),
      Load({"APP_ROLE_ID", "ADDR"}, Pair, Request("x", "postgres", TRUE), NoRequest, NoRequest),
      \* a session with Vault reachable, with a value that is not base64, and
      \* one whose keys are missing
      Load(Token, Mixed, NoRequest, NoRequest, NoRequest),
      Load(Token, [user |-> [kind |-> "malformed"], pass |-> [kind |-> "plain"]],
           NoRequest, NoRequest, NoRequest),
      Load({"AWS_unusable"}, Lacking, NoRequest, NoRequest, NoRequest),
      Load({}, Lacking, NoRequest, NoRequest, NoRequest) }
=============================================================================
