----------------------------- MODULE ServerAccess -----------------------------
(***************************************************************************)
(* What the access workflow of Keywarden promises for one server, end to   *)
(* end (TODO.md:8-18): who is entitled to use it, and who has an account   *)
(* there that lets its user in.  Approvals, permissions, cycles of the     *)
(* agent and state files are left out; AccessControl implements this.      *)
(***************************************************************************)
CONSTANT Users

VARIABLES
    entitled,       \* users with an approved request that has not run out
    account,        \* users whose account on the server is enabled
    approved,       \* users who had a request approved, which may have run out
    strayed,        \* users whose permission no longer follows the decisions
    lapsed          \* users who strayed, or who ceased to be entitled, at some time

vars == <<entitled, account, approved, strayed, lapsed>>

Init ==
    /\ entitled = {}
    /\ account = {}
    /\ approved = {}
    /\ strayed = {}
    /\ lapsed = {}

\* An administrator decides, or time passes. A decision may leave a permission
\* behind, or overtake another one.
Decide ==
    /\ approved' \in SUBSET Users
    /\ approved \subseteq approved'
    /\ entitled' \in SUBSET approved'
    /\ strayed' \in SUBSET Users
    /\ lapsed' = lapsed \cup (approved' \ entitled') \cup strayed'
    /\ UNCHANGED account

\* Accounts follow, on what may be old news.
Open(u) ==
    /\ u \in approved
    /\ account' = account \cup {u}
    /\ UNCHANGED <<entitled, approved, strayed, lapsed>>

Close(u) ==
    /\ u \in lapsed
    /\ account' = account \ {u}
    /\ UNCHANGED <<entitled, approved, strayed, lapsed>>

Next == Decide \/ \E u \in Users : Open(u) \/ Close(u)

\* When the decisions about a user come to rest, so does the account, unless the
\* permission has gone astray for good.
Converges(u) ==
    /\ <>[](u \in entitled /\ u \notin strayed) => <>[](u \in account)
    /\ <>[](u \notin entitled /\ u \notin strayed) => <>[](u \notin account)

Safety == Init /\ [][Next]_vars

Spec == Safety /\ \A u \in Users : Converges(u)
=============================================================================
