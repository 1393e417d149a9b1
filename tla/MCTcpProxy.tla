----------------------------- MODULE MCTcpProxy -----------------------------
(* A small instance of the raw TCP proxy. *)
EXTENDS TcpProxy, TLC

\* Connection ids are strings: "1" is a prefix of "10".
Prefixes == ("1" :> {"1", "10"}) @@ ("10" :> {"10"})
=============================================================================
