-------------------------- MODULE MCAgentLifecycle --------------------------
(* A small instance of the agent's life: two controller instances, of which *)
(* one may still be closed by the signal handler.                           *)
EXTENDS AgentLifecycle

Good == [key |-> "standard", dsn |-> "", token |-> FALSE, secretOk |-> TRUE,
         addrOk |-> TRUE, tlscaOk |-> TRUE]

\* Agents that connect, with a key and with the old token; ones the gateway
\* refuses; in embedded mode; and ones whose configuration is wrong.
MCEnvs ==
    { Good, [Good EXCEPT !.secretOk = FALSE],
      [Good EXCEPT !.key = "", !.token = TRUE],
      [Good EXCEPT !.key = "", !.dsn = "old"], [Good EXCEPT !.key = "embedded"],
      [Good EXCEPT !.key = ""], [Good EXCEPT !.key = "nosecret", !.token = TRUE],
      [Good EXCEPT !.tlscaOk = FALSE], [Good EXCEPT !.addrOk = FALSE] }

EmbeddedEnvs == {[Good EXCEPT !.key = "embedded"]}
=============================================================================
