---------------------------- MODULE MCAuditRules ----------------------------
(***************************************************************************)
(* An instance of AuditRules for TLC: one class of requests of each kind.  *)
(***************************************************************************)
EXTENDS AuditRules

CONSTANTS api, socket

MCKindOf == [e \in Endpoints |-> IF e = api THEN "api" ELSE "websocket"]

\* Event types are for both, so that the kind and the order decide.
MCTexts == {{api, socket}}
=============================================================================
