---------------------------- MODULE AccessControl ----------------------------
(***************************************************************************)
(* The access requests and permissions of the server (AccessRequests)      *)
(* together with the agent of one of the target servers (AgentAccounts).   *)
(* They meet in account_access (app/keywarden/api/routers/agent.py), which *)
(* answers the agent with the active users that hold view on its server.   *)
(*                                                                         *)
(* The agent is one that is not disturbed: no command fails, it does not   *)
(* die, and no user is renamed; AgentAccounts by itself has all of that.   *)
(***************************************************************************)
EXTENDS AccessRequests

CONSTANTS
    Agent,          \* the server the agent runs on
    Version,        \* the version of every username
    None,
    LockOnRevoke    \* account_policy.lock_on_revoke

ASSUME AgentAssumption ==
    Agent \in Servers /\ Version # None /\ LockOnRevoke \in BOOLEAN

VARIABLES
    record, acct, stateFile, corrupt,               \* as in AgentAccounts
    pc, desired, toRevoke, toEnsure, present,
    lapsed      \* history: users who were approved and ceased to be entitled, or
                \*          whose permission went astray, at some time

agent == <<record, acct, stateFile, corrupt, pc, desired, toRevoke, toEnsure,
           present>>
avars == <<vars, agent, lapsed>>

\* The answer: _resolve_access_users, active users with view on the server.
ResolveAccessUsers == {u \in Users \ erased : <<u, Agent>> \in grants}

A == INSTANCE AgentAccounts WITH
        Versions <- {Version}, TornWrites <- FALSE,
        MaxChanges <- 0, MaxFailures <- 0, MaxCrashes <- 0,
        access <- ResolveAccessUsers, name <- [u \in Users |-> Version],
        changes <- 0, failures <- 0, crashes <- 0

\* Active users with an approved request for the server that has not run out.
Entitled == {u \in Users \ erased : HasValidAccess(row, <<u, Agent>>)}

\* Users for whom some request for the server was approved.
Approved == {u \in Users : <<u, Agent>> \in everApproved}

\* Users whose permission on the server no longer follows the rows.
Strayed == {u \in Users : <<u, Agent>> \in astray}

\* Users whose account lets them in.
LetIn == {u \in Users : acct[<<u, Version>>] = "enabled"}

ACInit ==
    /\ Init
    /\ record = A!NoAccounts
    /\ acct = [a \in A!Accounts |-> "absent"]
    /\ stateFile = A!NoAccounts
    /\ corrupt = FALSE
    /\ pc = "idle"
    /\ desired = A!NoAccounts
    /\ toRevoke = {} /\ toEnsure = {} /\ present = {}
    /\ lapsed = {}

\* A step of the server, during which the history is kept.
Work ==
    /\ Next
    /\ lapsed' = lapsed \cup (Approved \ Entitled)' \cup Strayed'
    /\ UNCHANGED agent

\* A step of a cycle of the agent.
Synchronise ==
    /\ UNCHANGED <<vars, lapsed>>
    /\ A!Sync

ACNext == Work \/ Synchronise

ACSafety == ACInit /\ [][ACNext]_avars

\* As in the two modules.
ACSpec == ACSafety /\ Fairness /\ WF_avars(Synchronise)

-----------------------------------------------------------------------------
(***************************************************************************)
(* Properties.                                                             *)
(***************************************************************************)

\* From the approval to the account and back (TODO.md:8-18): an account is
\* opened only for a user who was approved, closed only for one whose approval
\* ceased to count or whose permission went astray, and in the end agrees with
\* the approvals, though the permission, the answer to the agent, its state file
\* and the account are each written later than the one before, and from what was
\* read earlier. A user whose permission has gone astray (SettledAgreement names
\* the ways) is outside the second half: an approval that the form moved to
\* another requester or server leaves the account of the first one open.
S == INSTANCE ServerAccess WITH
        entitled <- Entitled, account <- LetIn, approved <- Approved,
        strayed <- Strayed

EndToEnd == S!Spec
=============================================================================
