------------------------ MODULE AgentAccounts_proofs -------------------------
(***************************************************************************)
(* Proofs about AgentAccounts, for every set of users and usernames.       *)
(***************************************************************************)
EXTENDS AgentAccounts, TLAPS

USE UsersAssumption, PolicyAssumption, BoundsAssumption

\* The loops run over users that have an entry, and users counted as present
\* have an account.
LoopsWellFounded ==
    /\ toRevoke \subseteq In(stateFile)
    /\ pc # "revoke" => toRevoke = {}
    /\ toEnsure \subseteq In(desired)
    /\ \A u \in present : /\ desired[u] # None
                          /\ acct[<<u, desired[u]>>] # "absent"

PresentInv == TypeOK /\ LoopsWellFounded /\ RecordedAccountsExist

LEMMA PresentInit == Init => PresentInv
<1> SUFFICES ASSUME Init PROVE PresentInv
  OBVIOUS
<1>1. NoAccounts \in AccountMap
  BY DEF NoAccounts, AccountMap
<1>2. changes \in 0 .. MaxChanges /\ failures \in 0 .. MaxFailures
        /\ crashes \in 0 .. MaxCrashes
  BY DEF Init
<1>3. TypeOK
  BY <1>1, <1>2 DEF Init, TypeOK
<1>4. LoopsWellFounded /\ RecordedAccountsExist
  BY DEF Init, LoopsWellFounded, RecordedAccountsExist, NoAccounts
<1> QED BY <1>3, <1>4 DEF PresentInv

\* Every step keeps the types.
LEMMA NextTypes ==
  ASSUME TypeOK, LoopsWellFounded, Next
  PROVE  TypeOK'
<1>1. ASSUME NEW u \in Users, Grant(u) PROVE TypeOK'
  BY <1>1 DEF Grant, Change, TypeOK, LoopsWellFounded, In, AccountMap,
         Accounts, server, host, memory, counters
<1>2. ASSUME NEW u \in Users, Withdraw(u) PROVE TypeOK'
  BY <1>2 DEF Withdraw, Change, TypeOK, LoopsWellFounded, In, AccountMap,
         Accounts, server, host, memory, counters
<1>3. ASSUME NEW u \in Users, NEW v \in Versions, Rename(u, v) PROVE TypeOK'
  BY <1>3 DEF Rename, Change, TypeOK, LoopsWellFounded, In, AccountMap,
         Accounts, server, host, memory, counters
<1>4. ASSUME Fetch PROVE TypeOK'
  BY <1>4 DEF Fetch, Answer, TypeOK, LoopsWellFounded, In, AccountMap,
         Accounts, server, host, memory, counters
<1>5. ASSUME FetchCorrupt PROVE TypeOK'
  BY <1>5 DEF FetchCorrupt, NoAccounts, TypeOK, LoopsWellFounded, In,
         AccountMap, Accounts, server, host, memory, counters
<1>6. ASSUME NEW u \in Users, Revoke(u) PROVE TypeOK'
  BY <1>6 DEF Revoke, SetAccount, Revoked, TypeOK, LoopsWellFounded, In,
         AccountMap, Accounts, server, host, memory, counters
<1>7. ASSUME NEW u \in Users, RevokeFails(u) PROVE TypeOK'
  BY <1>7 DEF RevokeFails, Fail, TypeOK, LoopsWellFounded, In, AccountMap,
         Accounts, server, host, memory, counters
<1>8. ASSUME RevokeDone PROVE TypeOK'
  BY <1>8 DEF RevokeDone, TypeOK, LoopsWellFounded, In, AccountMap,
         Accounts, server, host, memory, counters
<1>9. ASSUME NEW u \in Users, Ensure(u) PROVE TypeOK'
  BY <1>9 DEF Ensure, SetAccount, TypeOK, LoopsWellFounded, In, AccountMap,
         Accounts, server, host, memory, counters
<1>10. ASSUME NEW u \in Users, EnsureFails(u) PROVE TypeOK'
  BY <1>10 DEF EnsureFails, SetAccount, Fail, TypeOK, LoopsWellFounded, In,
         AccountMap, Accounts, server, host, memory, counters
<1>11. ASSUME EnsureDone PROVE TypeOK'
  BY <1>11 DEF EnsureDone, TypeOK, LoopsWellFounded, In, AccountMap,
         Accounts, server, host, memory, counters
<1>12. ASSUME Save PROVE TypeOK'
  BY <1>12 DEF Save, TypeOK, LoopsWellFounded, In, AccountMap, Accounts,
         server, host, memory, counters
<1>13. ASSUME SaveFails PROVE TypeOK'
  BY <1>13 DEF SaveFails, Fail, Tear, TypeOK, LoopsWellFounded, In,
         AccountMap, Accounts, server, host, memory, counters
<1>14. ASSUME Report PROVE TypeOK'
  BY <1>14 DEF Report, TypeOK, LoopsWellFounded, In, AccountMap, Accounts,
         server, host, memory, counters
<1>15. ASSUME ReportFails PROVE TypeOK'
  BY <1>15 DEF ReportFails, Fail, TypeOK, LoopsWellFounded, In, AccountMap,
         Accounts, server, host, memory, counters
<1>16. ASSUME Crash PROVE TypeOK'
  BY <1>16 DEF Crash, Tear, NoAccounts, TypeOK, LoopsWellFounded, In,
         AccountMap, Accounts, server, host, memory, counters
<1> QED
  BY <1>1, <1>2, <1>3, <1>4, <1>5, <1>6, <1>7, <1>8, <1>9, <1>10, <1>11,
     <1>12, <1>13, <1>14, <1>15, <1>16 DEF Next, Serve, Sync

\* Every step keeps present users and records to accounts that exist.
LEMMA NextPresent ==
  ASSUME PresentInv, Next
  PROVE  LoopsWellFounded' /\ RecordedAccountsExist'
<1>1. ASSUME NEW u \in Users, Grant(u) PROVE LoopsWellFounded' /\ RecordedAccountsExist'
  BY <1>1 DEF Grant, Change, PresentInv, TypeOK, LoopsWellFounded,
         RecordedAccountsExist, In, AccountMap, Accounts, server, host,
         memory, counters
<1>2. ASSUME NEW u \in Users, Withdraw(u) PROVE LoopsWellFounded' /\ RecordedAccountsExist'
  BY <1>2 DEF Withdraw, Change, PresentInv, TypeOK, LoopsWellFounded,
         RecordedAccountsExist, In, AccountMap, Accounts, server, host,
         memory, counters
<1>3. ASSUME NEW u \in Users, NEW v \in Versions, Rename(u, v) PROVE LoopsWellFounded' /\ RecordedAccountsExist'
  BY <1>3 DEF Rename, Change, PresentInv, TypeOK, LoopsWellFounded,
         RecordedAccountsExist, In, AccountMap, Accounts, server, host,
         memory, counters
<1>4. ASSUME Fetch PROVE LoopsWellFounded' /\ RecordedAccountsExist'
  BY <1>4 DEF Fetch, Answer, PresentInv, TypeOK, LoopsWellFounded,
         RecordedAccountsExist, In, AccountMap, Accounts, server, host,
         memory, counters
<1>5. ASSUME FetchCorrupt PROVE LoopsWellFounded' /\ RecordedAccountsExist'
  BY <1>5 DEF FetchCorrupt, NoAccounts, PresentInv, TypeOK,
         LoopsWellFounded, RecordedAccountsExist, In, AccountMap, Accounts,
         server, host, memory, counters
<1>6. ASSUME NEW u \in Users, Revoke(u) PROVE LoopsWellFounded' /\ RecordedAccountsExist'
  BY <1>6 DEF Revoke, SetAccount, Revoked, PresentInv, TypeOK,
         LoopsWellFounded, RecordedAccountsExist, In, AccountMap, Accounts,
         server, host, memory, counters
<1>7. ASSUME NEW u \in Users, RevokeFails(u) PROVE LoopsWellFounded' /\ RecordedAccountsExist'
  BY <1>7 DEF RevokeFails, Fail, PresentInv, TypeOK, LoopsWellFounded,
         RecordedAccountsExist, In, AccountMap, Accounts, server, host,
         memory, counters
<1>8. ASSUME RevokeDone PROVE LoopsWellFounded' /\ RecordedAccountsExist'
  BY <1>8 DEF RevokeDone, PresentInv, TypeOK, LoopsWellFounded,
         RecordedAccountsExist, In, AccountMap, Accounts, server, host,
         memory, counters
<1>9. ASSUME NEW u \in Users, Ensure(u) PROVE LoopsWellFounded' /\ RecordedAccountsExist'
  BY <1>9 DEF Ensure, SetAccount, PresentInv, TypeOK, LoopsWellFounded,
         RecordedAccountsExist, In, AccountMap, Accounts, server, host,
         memory, counters
<1>10. ASSUME NEW u \in Users, EnsureFails(u) PROVE LoopsWellFounded' /\ RecordedAccountsExist'
  BY <1>10 DEF EnsureFails, SetAccount, Fail, PresentInv, TypeOK,
         LoopsWellFounded, RecordedAccountsExist, In, AccountMap, Accounts,
         server, host, memory, counters
<1>11. ASSUME EnsureDone PROVE LoopsWellFounded' /\ RecordedAccountsExist'
  BY <1>11 DEF EnsureDone, PresentInv, TypeOK, LoopsWellFounded,
         RecordedAccountsExist, In, AccountMap, Accounts, server, host,
         memory, counters
<1>12. ASSUME Save PROVE LoopsWellFounded' /\ RecordedAccountsExist'
  BY <1>12 DEF Save, PresentInv, TypeOK, LoopsWellFounded,
         RecordedAccountsExist, In, AccountMap, Accounts, server, host,
         memory, counters
<1>13. ASSUME SaveFails PROVE LoopsWellFounded' /\ RecordedAccountsExist'
  BY <1>13 DEF SaveFails, Fail, Tear, PresentInv, TypeOK, LoopsWellFounded,
         RecordedAccountsExist, In, AccountMap, Accounts, server, host,
         memory, counters
<1>14. ASSUME Report PROVE LoopsWellFounded' /\ RecordedAccountsExist'
  BY <1>14 DEF Report, PresentInv, TypeOK, LoopsWellFounded,
         RecordedAccountsExist, In, AccountMap, Accounts, server, host,
         memory, counters
<1>15. ASSUME ReportFails PROVE LoopsWellFounded' /\ RecordedAccountsExist'
  BY <1>15 DEF ReportFails, Fail, PresentInv, TypeOK, LoopsWellFounded,
         RecordedAccountsExist, In, AccountMap, Accounts, server, host,
         memory, counters
<1>16. ASSUME Crash PROVE LoopsWellFounded' /\ RecordedAccountsExist'
  BY <1>16 DEF Crash, Tear, NoAccounts, PresentInv, TypeOK,
         LoopsWellFounded, RecordedAccountsExist, In, AccountMap, Accounts,
         server, host, memory, counters
<1> QED
  BY <1>1, <1>2, <1>3, <1>4, <1>5, <1>6, <1>7, <1>8, <1>9, <1>10, <1>11,
     <1>12, <1>13, <1>14, <1>15, <1>16 DEF Next, Serve, Sync

LEMMA PresentNext == PresentInv /\ [Next]_vars => PresentInv'
<1> SUFFICES ASSUME PresentInv, [Next]_vars PROVE PresentInv'
  OBVIOUS
<1>1. CASE Next
  BY <1>1, NextTypes, NextPresent DEF PresentInv
<1>2. CASE UNCHANGED vars
  BY <1>2 DEF vars, server, host, memory, counters, PresentInv, TypeOK,
              LoopsWellFounded, RecordedAccountsExist, In
<1> QED BY <1>1, <1>2

\* Values stay in their types.
THEOREM AgentTypeCorrect == Spec => []TypeOK
<1>1. Spec => []PresentInv
  BY PresentInit, PresentNext, PTL DEF Spec
<1> QED BY <1>1, PTL DEF PresentInv

\* Whatever fails and whenever the agent dies, a user that the server records
\* as present has an account on the host.
THEOREM RecordsAreTrue == Spec => []RecordedAccountsExist
<1>1. Spec => []PresentInv
  BY PresentInit, PresentNext, PTL DEF Spec
<1> QED BY <1>1, PTL DEF PresentInv

-----------------------------------------------------------------------------
(***************************************************************************)
(* As long as nothing fails, the agent survives and the policy locks on    *)
(* revoke, the only account of a user does not escape the state file.      *)
(***************************************************************************)

\* Where an account that lets its user in is accounted for, phase by phase.
AccountedFor(u, v) ==
    /\ pc \in {"idle", "report"} => stateFile[u] = v
    /\ pc = "revoke" => stateFile[u] = v /\ (u \in toRevoke \/ desired[u] = v)
    /\ pc \in {"ensure", "save"} => desired[u] = v

\* The user was renamed and is about to get another account.
Renaming(u, v) == pc \in {"revoke", "ensure"} /\ u \in toEnsure /\ desired[u] # v

Only(u, v) == \A w \in Versions \ {v} : acct[<<u, w>>] = "absent"

Undisturbed == failures = 0 /\ crashes = 0

Tracked ==
    Undisturbed =>
        /\ ~corrupt
        /\ \A u \in Users, v \in Versions :
              acct[<<u, v>>] = "enabled" /\ Only(u, v) =>
                  AccountedFor(u, v) \/ Renaming(u, v)

TrackedInv == PresentInv /\ Tracked

\* Every step keeps the accounts accounted for.
LEMMA NextTracked ==
  ASSUME LockOnRevoke, TrackedInv, Next, PresentInv'
  PROVE  TrackedInv'
<1> SUFFICES Tracked'
  BY DEF TrackedInv
<1>1. ASSUME NEW u \in Users, Grant(u) PROVE Tracked'
  BY <1>1 DEF Grant, Change, TrackedInv, PresentInv, TypeOK, LoopsWellFounded,
         RecordedAccountsExist, Tracked, AccountedFor, Renaming, Only,
         Undisturbed, In, AccountMap, Accounts, server, host, memory, counters
<1>2. ASSUME NEW u \in Users, Withdraw(u) PROVE Tracked'
  BY <1>2 DEF Withdraw, Change, TrackedInv, PresentInv, TypeOK,
         LoopsWellFounded, RecordedAccountsExist, Tracked, AccountedFor,
         Renaming, Only, Undisturbed, In, AccountMap, Accounts, server, host,
         memory, counters
<1>3. ASSUME NEW u \in Users, NEW v \in Versions, Rename(u, v) PROVE Tracked'
  BY <1>3 DEF Rename, Change, TrackedInv, PresentInv, TypeOK, LoopsWellFounded,
         RecordedAccountsExist, Tracked, AccountedFor, Renaming, Only,
         Undisturbed, In, AccountMap, Accounts, server, host, memory, counters
<1>4. ASSUME Fetch PROVE Tracked'
  BY <1>4 DEF Fetch, Answer, TrackedInv, PresentInv, TypeOK, LoopsWellFounded,
         RecordedAccountsExist, Tracked, AccountedFor, Renaming, Only,
         Undisturbed, In, AccountMap, Accounts, server, host, memory, counters
<1>5. ASSUME FetchCorrupt PROVE Tracked'
  BY <1>5 DEF FetchCorrupt, NoAccounts, TrackedInv, PresentInv, TypeOK,
         LoopsWellFounded, RecordedAccountsExist, Tracked, AccountedFor,
         Renaming, Only, Undisturbed, In, AccountMap, Accounts, server, host,
         memory, counters
<1>6. ASSUME NEW u \in Users, Revoke(u) PROVE Tracked'
  BY <1>6 DEF Revoke, SetAccount, Revoked, TrackedInv, PresentInv, TypeOK,
         LoopsWellFounded, RecordedAccountsExist, Tracked, AccountedFor,
         Renaming, Only, Undisturbed, In, AccountMap, Accounts, server, host,
         memory, counters
<1>7. ASSUME NEW u \in Users, RevokeFails(u) PROVE Tracked'
  BY <1>7 DEF RevokeFails, Fail, TrackedInv, PresentInv, TypeOK,
         LoopsWellFounded, RecordedAccountsExist, Tracked, AccountedFor,
         Renaming, Only, Undisturbed, In, AccountMap, Accounts, server, host,
         memory, counters
<1>8. ASSUME RevokeDone PROVE Tracked'
  BY <1>8 DEF RevokeDone, TrackedInv, PresentInv, TypeOK, LoopsWellFounded,
         RecordedAccountsExist, Tracked, AccountedFor, Renaming, Only,
         Undisturbed, In, AccountMap, Accounts, server, host, memory, counters
<1>9. ASSUME NEW u \in Users, Ensure(u) PROVE Tracked'
  BY <1>9 DEF Ensure, SetAccount, TrackedInv, PresentInv, TypeOK,
         LoopsWellFounded, RecordedAccountsExist, Tracked, AccountedFor,
         Renaming, Only, Undisturbed, In, AccountMap, Accounts, server, host,
         memory, counters
<1>10. ASSUME NEW u \in Users, EnsureFails(u) PROVE Tracked'
  BY <1>10 DEF EnsureFails, SetAccount, Fail, TrackedInv, PresentInv, TypeOK,
         LoopsWellFounded, RecordedAccountsExist, Tracked, AccountedFor,
         Renaming, Only, Undisturbed, In, AccountMap, Accounts, server, host,
         memory, counters
<1>11. ASSUME EnsureDone PROVE Tracked'
  BY <1>11 DEF EnsureDone, TrackedInv, PresentInv, TypeOK, LoopsWellFounded,
         RecordedAccountsExist, Tracked, AccountedFor, Renaming, Only,
         Undisturbed, In, AccountMap, Accounts, server, host, memory, counters
<1>12. ASSUME Save PROVE Tracked'
  BY <1>12 DEF Save, TrackedInv, PresentInv, TypeOK, LoopsWellFounded,
         RecordedAccountsExist, Tracked, AccountedFor, Renaming, Only,
         Undisturbed, In, AccountMap, Accounts, server, host, memory, counters
<1>13. ASSUME SaveFails PROVE Tracked'
  BY <1>13 DEF SaveFails, Fail, Tear, TrackedInv, PresentInv, TypeOK,
         LoopsWellFounded, RecordedAccountsExist, Tracked, AccountedFor,
         Renaming, Only, Undisturbed, In, AccountMap, Accounts, server, host,
         memory, counters
<1>14. ASSUME Report PROVE Tracked'
  BY <1>14 DEF Report, TrackedInv, PresentInv, TypeOK, LoopsWellFounded,
         RecordedAccountsExist, Tracked, AccountedFor, Renaming, Only,
         Undisturbed, In, AccountMap, Accounts, server, host, memory, counters
<1>15. ASSUME ReportFails PROVE Tracked'
  BY <1>15 DEF ReportFails, Fail, TrackedInv, PresentInv, TypeOK,
         LoopsWellFounded, RecordedAccountsExist, Tracked, AccountedFor,
         Renaming, Only, Undisturbed, In, AccountMap, Accounts, server, host,
         memory, counters
<1>16. ASSUME Crash PROVE Tracked'
  BY <1>16 DEF Crash, Tear, NoAccounts, TrackedInv, PresentInv, TypeOK,
         LoopsWellFounded, RecordedAccountsExist, Tracked, AccountedFor,
         Renaming, Only, Undisturbed, In, AccountMap, Accounts, server, host,
         memory, counters
<1> QED
  BY <1>1, <1>2, <1>3, <1>4, <1>5, <1>6, <1>7, <1>8, <1>9, <1>10, <1>11,
     <1>12, <1>13, <1>14, <1>15, <1>16 DEF Next, Serve, Sync

LEMMA TrackedNext ==
  ASSUME LockOnRevoke PROVE TrackedInv /\ [Next]_vars => TrackedInv'
<1> SUFFICES ASSUME TrackedInv, [Next]_vars PROVE TrackedInv'
  OBVIOUS
<1>1. PresentInv'
  BY PresentNext DEF TrackedInv
<1>2. CASE Next
  BY <1>1, <1>2, NextTracked
<1>3. CASE UNCHANGED vars
  BY <1>1, <1>3 DEF vars, host, memory, counters, TrackedInv, Tracked,
                    AccountedFor, Renaming, Only, Undisturbed
<1> QED BY <1>2, <1>3

-----------------------------------------------------------------------------
\* The converse, which owes nothing to the policy: past the loop over the users to
\* ensure, the users in the answer have their accounts, and the loop over the users
\* to revoke takes none of those away.
Opened ==
    Undisturbed =>
        /\ ~corrupt
        /\ pc \in {"idle", "report"} =>
              \A u \in In(stateFile) : acct[<<u, stateFile[u]>>] = "enabled"
        /\ pc \in {"revoke", "ensure", "save"} =>
              /\ toRevoke \cap In(desired) = {}
              /\ \A u \in In(desired) \ toEnsure : acct[<<u, desired[u]>>] = "enabled"
        /\ pc = "save" => toEnsure = {}

\* Opened stays true if only sets it ranges over get smaller.
LEMMA OpenedLater ==
  ASSUME Opened, Undisturbed' => Undisturbed,
         UNCHANGED <<host, pc, desired, toEnsure>>, toRevoke' \subseteq toRevoke
  PROVE  Opened'
BY DEF Opened, In, host

LEMMA NextOpened ==
  ASSUME PresentInv, Opened, Next
  PROVE  Opened'
<1>1. TypeOK /\ LoopsWellFounded /\ failures \in Nat /\ crashes \in Nat
  BY DEF PresentInv, TypeOK
<1>2. ASSUME NEW u \in Users,
             Grant(u) \/ Withdraw(u) \/ \E v \in Versions : Rename(u, v)
      PROVE  Opened'
  BY <1>2, OpenedLater
     DEF Grant, Withdraw, Rename, Change, host, memory, Undisturbed
<1>3. CASE Fetch
  BY <1>3 DEF Fetch, Opened, Undisturbed, counters, host, In
<1>4. CASE FetchCorrupt
  BY <1>4 DEF FetchCorrupt, Opened, Undisturbed, counters, host
<1>5. ASSUME NEW u \in Users, Revoke(u) PROVE Opened'
  <2>1. /\ pc = "revoke" /\ u \in toRevoke /\ toRevoke' = toRevoke \ {u}
        /\ acct' = [acct EXCEPT ![<<u, stateFile[u]>>] = Revoked(acct[<<u, stateFile[u]>>])]
        /\ UNCHANGED <<stateFile, corrupt, pc, desired, toEnsure, counters>>
    BY <1>5 DEF Revoke, SetAccount
  <2>2. \A w \in Users : w # u => acct'[<<w, desired[w]>>] = acct[<<w, desired[w]>>]
    BY <1>1, <2>1 DEF TypeOK
  <2> QED BY <2>1, <2>2 DEF Opened, Undisturbed, counters, In
<1>6. CASE RevokeDone
  BY <1>6 DEF RevokeDone, Opened, Undisturbed, counters, host, memory, In
<1>7. ASSUME NEW u \in Users, Ensure(u) PROVE Opened'
  <2>1. /\ pc = "ensure" /\ u \in toEnsure /\ toEnsure' = toEnsure \ {u}
        /\ acct' = [acct EXCEPT ![<<u, desired[u]>>] = "enabled"]
        /\ UNCHANGED <<stateFile, corrupt, pc, desired, toRevoke, counters>>
    BY <1>7 DEF Ensure, SetAccount
  <2>2. u \in In(desired) /\ <<u, desired[u]>> \in Accounts
    BY <1>1, <2>1 DEF LoopsWellFounded, TypeOK, AccountMap, Accounts, In
  <2>3. acct'[<<u, desired[u]>>] = "enabled"
    BY <1>1, <2>1, <2>2 DEF TypeOK
  <2>4. \A w \in Users : w # u => acct'[<<w, desired[w]>>] = acct[<<w, desired[w]>>]
    BY <1>1, <2>1 DEF TypeOK
  <2> QED BY <2>1, <2>3, <2>4 DEF Opened, Undisturbed, counters, In
<1>8. CASE EnsureDone
  BY <1>8 DEF EnsureDone, Opened, Undisturbed, counters, host, memory, In
<1>9. CASE Save
  BY <1>9 DEF Save, Opened, Undisturbed, counters, memory, In
<1>10. CASE Report
  BY <1>10 DEF Report, Opened, Undisturbed, counters, host, memory, In
<1>11. ASSUME NEW u \in Users, RevokeFails(u) \/ EnsureFails(u) PROVE Opened'
  <2>1. failures' = failures + 1
    BY <1>11 DEF RevokeFails, EnsureFails, Fail
  <2> QED BY <1>1, <2>1 DEF Opened, Undisturbed
<1>12. CASE SaveFails \/ ReportFails \/ Crash
  <2>1. failures' = failures + 1 \/ crashes' = crashes + 1
    BY <1>12 DEF SaveFails, ReportFails, Fail, Crash
  <2> QED BY <1>1, <2>1 DEF Opened, Undisturbed
<1> QED
  BY <1>2, <1>3, <1>4, <1>5, <1>6, <1>7, <1>8, <1>9, <1>10, <1>11, <1>12
     DEF Next, Serve, Sync

LEMMA OpenedAlways == Spec => [](PresentInv /\ Opened)
<1>1. Init => PresentInv /\ Opened
  BY PresentInit DEF Init, Opened, NoAccounts, In
<1>2. PresentInv /\ Opened /\ [Next]_vars => (PresentInv /\ Opened)'
  <2>1. ASSUME UNCHANGED vars, Opened PROVE Opened'
    BY <2>1, OpenedLater DEF vars, host, memory, counters, Undisturbed
  <2> QED BY <2>1, NextOpened, PresentNext
<1> QED BY <1>1, <1>2, PTL DEF Spec

\* Where nothing fails, whatever the policy and however users are renamed, every
\* user in the state file can log in with the account named there between cycles.
THEOREM TrackedAccountsOpen ==
  Spec => [](pc = "idle" /\ Undisturbed =>
                \A u \in In(stateFile) : acct[<<u, stateFile[u]>>] = "enabled")
<1>1. Opened => (pc = "idle" /\ Undisturbed =>
                    \A u \in In(stateFile) : acct[<<u, stateFile[u]>>] = "enabled")
  BY DEF Opened
<1> QED BY <1>1, OpenedAlways, PTL

\* Where nothing fails, the accounts that let their users in are those in the
\* state file between cycles, so that a later cycle can revoke them, however
\* access comes and goes, and also for a user who was renamed but has one account.
THEOREM NoAccountEscapes ==
  ASSUME LockOnRevoke PROVE Spec => []EnabledAccountsTracked
<1>1. Init => TrackedInv
  BY PresentInit DEF Init, TrackedInv, Tracked, Accounts
<1>2. ASSUME TrackedInv, Opened, pc = "idle", Clean, NEW u \in Users, NEW v \in Versions
      PROVE  acct[<<u, v>>] = "enabled" <=> stateFile[u] = v
  <2>1. acct[<<u, v>>] = "enabled" => stateFile[u] = v
    BY <1>2 DEF TrackedInv, Tracked, AccountedFor, Renaming, Only, Undisturbed, Clean
  <2>2. stateFile[u] = v => acct[<<u, v>>] = "enabled"
    BY <1>2, UsersAssumption DEF Opened, Undisturbed, Clean, In
  <2> QED BY <2>1, <2>2
<1>3. TrackedInv /\ Opened => EnabledAccountsTracked
  BY <1>2 DEF EnabledAccountsTracked
<1>4. Spec => []Opened
  BY OpenedAlways, PTL
<1> QED BY <1>1, <1>3, <1>4, TrackedNext, PTL DEF Spec
=============================================================================
