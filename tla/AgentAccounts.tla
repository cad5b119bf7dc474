---------------------------- MODULE AgentAccounts ----------------------------
(***************************************************************************)
(* The account synchronisation of the Keywarden agent                      *)
(* (agent/internal/accounts/sync.go, driven by Client.SyncAccounts once    *)
(* per tick), together with what the server answers and records            *)
(* (app/keywarden/api/routers/agent.py: account_access, sync_report).      *)
(*                                                                         *)
(* A cycle fetches the users that may have an account, revokes those of    *)
(* the state file that are not among them, ensures an account for each of  *)
(* the others, overwrites the state file and reports.  Each of these is a  *)
(* step: commands fail, and the process dies, between any two of them.     *)
(***************************************************************************)
EXTENDS Naturals

CONSTANTS
    Users,
    Versions,       \* a rename gives the system username another version
    None,           \* no version: the user is not in the map
    LockOnRevoke,   \* account_policy.lock_on_revoke
    TornWrites,     \* whether a write that fails leaves half of a state file
    MaxChanges,     \* bound on the changes made on the server
    MaxFailures,    \* bound on the commands and calls that fail
    MaxCrashes      \* bound on the deaths of the agent

ASSUME UsersAssumption == Versions # {} /\ None \notin Versions
ASSUME PolicyAssumption == LockOnRevoke \in BOOLEAN /\ TornWrites \in BOOLEAN
ASSUME BoundsAssumption ==
    MaxChanges \in Nat /\ MaxFailures \in Nat /\ MaxCrashes \in Nat

VARIABLES
    access,     \* server: active users with view on this server
    name,       \* server: name[u] is the version of the username of u
    record,     \* server: the version whose ServerAccount is_present, or None
    acct,       \* host: the account of each system username <<u, v>>
    stateFile,  \* host: accounts.json, a map from users to versions
    corrupt,    \* host: accounts.json does not parse
    pc,         \* agent: where the cycle is
    desired,    \* agent: the users of the answer, a map to versions
    toRevoke,   \* agent: users of the state file still to revoke
    toEnsure,   \* agent: desired users still to ensure
    present,    \* agent: users to report as present
    changes, failures, crashes

server == <<access, name, record>>
host == <<acct, stateFile, corrupt>>
memory == <<desired, toRevoke, toEnsure, present>>
counters == <<changes, failures, crashes>>
vars == <<server, host, pc, memory, counters>>

-----------------------------------------------------------------------------
Accounts == Users \X Versions

\* state.Users, and the map of desired accounts by user id.
AccountMap == [Users -> Versions \cup {None}]
NoAccounts == [u \in Users |-> None]
In(map) == {u \in Users : map[u] # None}

TypeOK ==
    /\ access \in SUBSET Users
    /\ name \in [Users -> Versions]
    /\ record \in AccountMap
    /\ acct \in [Accounts -> {"absent", "enabled", "disabled"}]
    /\ stateFile \in AccountMap
    /\ corrupt \in BOOLEAN
    /\ pc \in {"idle", "revoke", "ensure", "save", "report"}
    /\ desired \in AccountMap
    /\ toRevoke \in SUBSET Users
    /\ toEnsure \in SUBSET Users
    /\ present \in SUBSET Users
    /\ changes \in 0 .. MaxChanges
    /\ failures \in 0 .. MaxFailures
    /\ crashes \in 0 .. MaxCrashes

Init ==
    /\ access = {}
    /\ name \in [Users -> Versions]
    /\ record = NoAccounts
    /\ acct = [a \in Accounts |-> "absent"]
    /\ stateFile = NoAccounts
    /\ corrupt = FALSE
    /\ pc = "idle"
    /\ desired = NoAccounts
    /\ toRevoke = {} /\ toEnsure = {} /\ present = {}
    /\ changes = 0 /\ failures = 0 /\ crashes = 0

-----------------------------------------------------------------------------
(***************************************************************************)
(* The server.                                                             *)
(***************************************************************************)
Change ==
    /\ changes < MaxChanges
    /\ changes' = changes + 1
    /\ UNCHANGED <<record, host, pc, memory, failures, crashes>>

\* view_server is assigned or removed, or the user (de)activated.
Grant(u) == u \notin access /\ access' = access \cup {u} /\ UNCHANGED name /\ Change
Withdraw(u) == u \in access /\ access' = access \ {u} /\ UNCHANGED name /\ Change

\* update_user changes the username from which the system username is made.
Rename(u, v) ==
    /\ v # name[u]
    /\ name' = [name EXCEPT ![u] = v]
    /\ UNCHANGED access
    /\ Change

\* _resolve_access_users and render_system_username.
Answer == [u \in Users |-> IF u \in access THEN name[u] ELSE None]

-----------------------------------------------------------------------------
(***************************************************************************)
(* The cycle of the agent.                                                 *)
(***************************************************************************)
Fail == failures < MaxFailures /\ failures' = failures + 1

SetAccount(u, v, status) == acct' = [acct EXCEPT ![<<u, v>>] = status]

\* Variant of Fetch: the answer is merged into the map that was loaded.
Fetch_Merged ==
    /\ pc = "idle"
    /\ ~corrupt
    /\ desired' = [u \in Users |-> IF u \in In(Answer) THEN Answer[u] ELSE stateFile[u]]
    /\ toRevoke' = In(stateFile) \ In(desired')
    /\ toEnsure' = In(desired')
    /\ present' = {}
    /\ pc' = "revoke"
    /\ UNCHANGED <<server, host, counters>>

\* FetchAccountAccess, then the head of Sync: the state is loaded and compared
\* by user id. A cycle that cannot fetch ends here and changes nothing.
Fetch ==
    /\ pc = "idle"
    /\ ~corrupt
    /\ desired' = Answer
    /\ toRevoke' = In(stateFile) \ In(Answer)
    /\ toEnsure' = In(Answer)
    /\ present' = {}
    /\ pc' = "revoke"
    /\ UNCHANGED <<server, host, counters>>

\* A state file that does not parse: Sync fails at once and reports nothing.
FetchCorrupt ==
    /\ pc = "idle"
    /\ corrupt
    /\ desired' = NoAccounts
    /\ toRevoke' = {} /\ toEnsure' = {} /\ present' = {}
    /\ pc' = "report"
    /\ UNCHANGED <<server, host, counters>>

\* Variants of Revoked: another status; nothing is ever disabled.
Revoked_Locked(status) == IF status = "enabled" THEN "locked" ELSE status
Revoked_Never(status) == status

\* revokeUser: an account is disabled only if the policy locks on revoke.
Revoked(status) ==
    IF status = "enabled" /\ LockOnRevoke THEN "disabled" ELSE status

Revoke(u) ==
    LET v == stateFile[u] IN
    /\ pc = "revoke"
    /\ u \in toRevoke
    /\ SetAccount(u, v, Revoked(acct[<<u, v>>]))
    /\ toRevoke' = toRevoke \ {u}
    /\ UNCHANGED <<server, stateFile, corrupt, pc, desired, toEnsure, present,
                   counters>>

\* usermod or chage fails: the error is kept for the report, the loop goes on.
RevokeFails(u) ==
    /\ pc = "revoke"
    /\ u \in toRevoke
    /\ acct[<<u, stateFile[u]>>] # "absent"
    /\ Fail
    /\ toRevoke' = toRevoke \ {u}
    /\ UNCHANGED <<server, host, pc, desired, toEnsure, present, changes, crashes>>

RevokeDone ==
    /\ pc = "revoke"
    /\ toRevoke = {}
    /\ pc' = "ensure"
    /\ UNCHANGED <<server, host, memory, counters>>

\* Variant of Ensure: the expiry of an existing account is not cleared.
Ensure_KeepsExpiry(u) ==
    LET status == acct[<<u, desired[u]>>] IN
    /\ pc = "ensure"
    /\ u \in toEnsure
    /\ SetAccount(u, desired[u], IF status = "absent" THEN "enabled" ELSE status)
    /\ toEnsure' = toEnsure \ {u}
    /\ present' = present \cup {u}
    /\ UNCHANGED <<server, stateFile, corrupt, pc, desired, toRevoke, counters>>

\* ensureAccount: the account is created if absent, and its expiry cleared.
Ensure(u) ==
    /\ pc = "ensure"
    /\ u \in toEnsure
    /\ SetAccount(u, desired[u], "enabled")
    /\ toEnsure' = toEnsure \ {u}
    /\ present' = present \cup {u}
    /\ UNCHANGED <<server, stateFile, corrupt, pc, desired, toRevoke, counters>>

\* Variant of EnsureFails: reported as present whatever failed.
EnsureFails_Present(u) ==
    /\ pc = "ensure"
    /\ u \in toEnsure
    /\ Fail
    /\ present' = present \cup {u}
    /\ toEnsure' = toEnsure \ {u}
    /\ UNCHANGED <<server, host, pc, desired, toRevoke, changes, crashes>>

\* A command fails: before the account exists, which is then not present, or
\* after, with the expiry cleared or not.
EnsureFails(u) ==
    LET status == acct[<<u, desired[u]>>] IN
    /\ pc = "ensure"
    /\ u \in toEnsure
    /\ Fail
    /\ \/ UNCHANGED <<acct, present>>
       \/ /\ status # "absent"
          /\ present' = present \cup {u}
          /\ UNCHANGED acct
       \/ /\ present' = present \cup {u}
          /\ SetAccount(u, desired[u], "enabled")
    /\ toEnsure' = toEnsure \ {u}
    /\ UNCHANGED <<server, stateFile, corrupt, pc, desired, toRevoke, changes,
                   crashes>>

EnsureDone ==
    /\ pc = "ensure"
    /\ toEnsure = {}
    /\ pc' = "save"
    /\ UNCHANGED <<server, host, memory, counters>>

\* Variant of Save: the state is not written.
Save_Skipped ==
    /\ pc = "save"
    /\ pc' = "report"
    /\ UNCHANGED <<server, host, memory, counters>>

\* saveState writes the desired accounts, whatever became of them.
Save ==
    /\ pc = "save"
    /\ stateFile' = desired
    /\ pc' = "report"
    /\ UNCHANGED <<server, acct, corrupt, memory, counters>>

\* os.WriteFile truncates the file before it writes: an error or a crash in
\* between leaves a file that does not parse.
Tear == corrupt' \in {corrupt, TornWrites \/ corrupt}

SaveFails ==
    /\ pc = "save"
    /\ Fail
    /\ Tear
    /\ pc' = "report"
    /\ UNCHANGED <<server, acct, stateFile, memory, changes, crashes>>

\* sync_report updates the accounts it is told of, and no others.
Report ==
    /\ pc = "report"
    /\ record' = [u \in Users |-> IF u \notin In(desired) THEN record[u]
                                  ELSE IF u \in present THEN desired[u]
                                  ELSE None]
    /\ pc' = "idle"
    /\ UNCHANGED <<access, name, host, memory, counters>>

ReportFails ==
    /\ pc = "report"
    /\ Fail
    /\ pc' = "idle"
    /\ UNCHANGED <<server, host, memory, changes, crashes>>

\* The agent dies and is started again.
Crash ==
    /\ crashes < MaxCrashes
    /\ pc # "idle"
    /\ crashes' = crashes + 1
    /\ pc' = "idle"
    /\ IF pc = "save" THEN Tear ELSE UNCHANGED corrupt
    /\ desired' = NoAccounts
    /\ toRevoke' = {} /\ toEnsure' = {} /\ present' = {}
    /\ UNCHANGED <<server, acct, stateFile, changes, failures>>

Serve ==
    \E u \in Users :
        Grant(u) \/ Withdraw(u) \/ \E v \in Versions : Rename(u, v)

Sync ==
    \/ Fetch \/ FetchCorrupt \/ RevokeDone \/ EnsureDone \/ Save \/ SaveFails
    \/ Report \/ ReportFails
    \/ \E u \in Users : Revoke(u) \/ RevokeFails(u) \/ Ensure(u) \/ EnsureFails(u)

Next == Serve \/ Sync \/ Crash

Spec == Init /\ [][Next]_vars

\* The ticker starts a cycle every few seconds, and a cycle runs to its end.
FairSpec == Spec /\ WF_vars(Sync)

-----------------------------------------------------------------------------
(***************************************************************************)
(* Properties.                                                             *)
(***************************************************************************)

\* The server records an account as present only if the host has it: present
\* is false in the report when useradd failed, in whatever cycle the report
\* that counts was made, and accounts are never deleted.
RecordedAccountsExist ==
    \A u \in Users : record[u] # None => acct[<<u, record[u]>>] # "absent"

\* Nothing went wrong yet, and no account is left under a former name. (After a
\* failed command, a crash before saveState, or a rename, the agent may lose
\* track of an account: saveState records the desired accounts, not the actual.)
Clean ==
    /\ failures = 0 /\ crashes = 0
    /\ \A u \in Users, v \in Versions : v # name[u] => acct[<<u, v>>] = "absent"

\* Between cycles, the accounts that let their users in are those in the state
\* file, by which alone a later cycle can find and revoke them: however access
\* comes and goes while a cycle runs on an answer that is out of date.
EnabledAccountsTracked ==
    pc = "idle" /\ Clean =>
        \A u \in Users, v \in Versions :
            acct[<<u, v>>] = "enabled" <=> stateFile[u] = v

\* A user who has access for good ends up with an account: "User has linux
\* account created" (TODO.md:11), however often commands fail and the agent
\* dies before, unless that tore the state file, which stops every cycle.
GrantedGetsAccount ==
    \A u \in Users :
        <>[](u \in access) => <>[](corrupt \/ acct[<<u, name[u]>>] = "enabled")

\* A user who loses access for good ends up without an account to log into:
\* "User cannot access server anymore" (TODO.md:18).
RevokedLosesAccount ==
    \A u \in Users :
        <>[](u \notin access) =>
            <>[](\A v \in Versions : acct[<<u, v>>] # "enabled")

\* The same where nothing goes wrong, for each user whatever becomes of the
\* others.
CleanRevocation == []Clean => RevokedLosesAccount
=============================================================================
