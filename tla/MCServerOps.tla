----------------------------- MODULE MCServerOps -----------------------------
(* Small instances of ServerOps.                                             *)
EXTENDS ServerOps, TLC

CONSTANTS prune1, prune2, restart1   \* operations

\* Two prunes of a container and a restart of the proxy.
Kinds == (prune1 :> "registry_prune") @@ (prune2 :> "registry_prune")
           @@ (restart1 :> "haproxy_restart")
=============================================================================
