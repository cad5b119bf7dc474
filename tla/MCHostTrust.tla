----------------------------- MODULE MCHostTrust -----------------------------
(***************************************************************************)
(* Instances of HostTrust for TLC: one worker serves the agents and        *)
(* creates and deletes keys, the other serves the other handlers of keys. *)
(***************************************************************************)
EXTENDS HostTrust, TLC

CONSTANTS w1, w2

MCServes == w1 :> {"ssh_ca", "create", "delete"} @@ w2 :> (KeyOps \ {"delete"}) \cup {"profile"}
=============================================================================
