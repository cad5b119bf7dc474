------------------------------- MODULE Accounts -------------------------------
(***************************************************************************)
(* The accounts of Keywarden: users, their role (a group of Django and the *)
(* superuser flag, app/apps/core/rbac.py), the calls that change them      *)
(* (app/keywarden/api/routers/users.py, the command ensure_admin, the      *)
(* admin form), and the requests of users to be erased with their review   *)
(* (app/apps/accounts).                                                    *)
(*                                                                         *)
(* A call of the API is a series of statements in autocommit: the row is   *)
(* read, the groups are changed, and every column of the row is written    *)
(* from the copy at the end, if that statement succeeds.                   *)
(***************************************************************************)
EXTENDS Naturals

CONSTANTS
    Users,
    Names,          \* values of the unique column username
    AdminName,      \* the username in the environment of ensure_admin
    None,
    Workers,        \* processes that serve the API and the admin, or a command
    MaxRequests,    \* bound on the erasure requests
    MaxCalls,       \* bound on the calls
    MaxCrashes      \* bound on the calls that are killed

ASSUME NamesAssumption ==
    /\ AdminName \in Names
    /\ None \notin Names \cup {"administrator", "user", "other"} /\ None \notin Users
ASSUME BoundsAssumption ==
    MaxRequests \in Nat /\ MaxCalls \in Nat /\ MaxCrashes \in Nat

VARIABLES
    user,       \* the row of each user
    groups,     \* the role groups each user is in
    erasure,    \* the erasure requests, by the order of requested_at
    call,       \* the call each worker serves
    calls, crashes,
    made,       \* history: users some call or form made administrator
    asked,      \* history: what was last asked for each user
    mixed,      \* history: users with calls that overlapped or did not finish
    accepted    \* history: erasure requests that a review marked as processed

counters == <<calls, crashes>>
vars == <<user, groups, erasure, call, counters, made, asked, mixed, accepted>>

-----------------------------------------------------------------------------
Roles == {"administrator", "user"}

\* The roles that a call may name: the schema lets operator and auditor pass,
\* which set_user_role refuses.
RoleInputs == Roles \cup {"other"}

Requests == 1 .. MaxRequests

\* super: is_superuser, and is_staff, which set_user_role changes with it.
UserRow == [name : Names \cup {None}, super : BOOLEAN, active : BOOLEAN]
NoUser == [name |-> None, super |-> FALSE, active |-> FALSE]

\* What calls asked for; no role after the creation of a user with a role that is
\* none, and after an edit in the admin form, which sets flags and groups one by
\* one.
Asked == [name : Names \cup {None}, role : Roles \cup {None}, active : BOOLEAN]
Nothing == [name |-> None, role |-> None, active |-> FALSE]

\* decided: decided_at and decided_by are set.
ErasureRow == [user : Users \cup {None},
               status : {"unborn", "pending", "denied", "processed"},
               decided : BOOLEAN]
NoErasure == [user |-> None, status |-> "unborn", decided |-> FALSE]

\* What a call holds in memory, and its next statement: the INSERT of a user;
\* set_user_role, which takes the role groups away and adds one; the UPDATE of
\* the user; the commit of the admin form of a user; the INSERT of an erasure
\* request; the save of its review.
Call == [pc : {"idle", "insert", "remove", "add", "save", "form", "ask", "review"},
         user : Users \cup {None}, new : UserRow,
         role : RoleInputs \cup {None},
         saves : BOOLEAN,             \* whether the user is saved at the end
         req : Requests \cup {None}, next : ErasureRow]

Idle == [pc |-> "idle", user |-> None, new |-> NoUser, role |-> None,
         saves |-> FALSE, req |-> None, next |-> NoErasure]

Exists(u) == user[u].name # None
Busy(u) == \E w \in Workers : call[w].user = u
Taken(n, u) == \E v \in Users \ {u} : user[v].name = n

\* get_user_role
RoleOf(u) ==
    IF user[u].super \/ "administrator" \in groups[u] THEN "administrator" ELSE "user"

TypeOK ==
    /\ user \in [Users -> UserRow]
    /\ groups \in [Users -> SUBSET Roles]
    /\ erasure \in [Requests -> ErasureRow]
    /\ call \in [Workers -> Call]
    /\ calls \in 0 .. MaxCalls
    /\ crashes \in 0 .. MaxCrashes
    /\ made \in SUBSET Users
    /\ asked \in [Users -> Asked]
    /\ mixed \in SUBSET Users
    /\ accepted \in SUBSET Requests

Init ==
    /\ user = [u \in Users |-> NoUser]
    /\ groups = [u \in Users |-> {}]
    /\ erasure = [q \in Requests |-> NoErasure]
    /\ call = [w \in Workers |-> Idle]
    /\ calls = 0 /\ crashes = 0
    /\ made = {} /\ mixed = {} /\ accepted = {}
    /\ asked = [u \in Users |-> Nothing]

-----------------------------------------------------------------------------
(***************************************************************************)
(* Calls that change a user.                                               *)
(***************************************************************************)

\* A worker takes a call.
Begin(w, c) ==
    /\ call[w].pc = "idle"
    /\ calls < MaxCalls
    /\ calls' = calls + 1
    /\ call' = [call EXCEPT ![w] = c]
    /\ UNCHANGED crashes

\* The role that user u is to have by call c.
RoleAsked(u, c) ==
    IF c.role = "other" THEN None ELSE IF c.role = None THEN asked[u].role ELSE c.role

\* A call that changes user u; from here on the history knows what it is for.
BeginOn(u, w, c) ==
    /\ Begin(w, [c EXCEPT !.user = u])
    /\ made' = IF c.role = "administrator" THEN made \cup {u} ELSE made
    /\ asked' = [asked EXCEPT ![u] = [name |-> c.new.name, active |-> c.new.active,
                                      role |-> RoleAsked(u, c)]]
    /\ mixed' = IF Busy(u) THEN mixed \cup {u} ELSE mixed

\* Variant of Flags: the flags are given and never taken.
Flags_KeepsSuper(x, role) == [x EXCEPT !.super = @ \/ role = "administrator"]

\* Variant of Flags: the role is compared with the wrong name.
Flags_Swapped(x, role) == [x EXCEPT !.super = role = "user"]

\* set_user_role on the copy in memory.
Flags(x, role) == [x EXCEPT !.super = role = "administrator"]

\* create_user up to the INSERT: no user has the email.
CreateUser(w, u, n, role) ==
    /\ ~Exists(u) /\ ~Busy(u)
    /\ ~Taken(n, u)
    /\ BeginOn(u, w, [Idle EXCEPT !.pc = "insert", !.role = role, !.saves = TRUE,
                          !.new = [name |-> n, super |-> FALSE, active |-> TRUE]])
    /\ UNCHANGED <<user, groups, erasure, accepted>>

\* The INSERT. The username was taken meanwhile: "Email already exists." A role
\* that is none: "Invalid role.", but the user is there, active and in no group.
InsertUser(w) ==
    LET u == call[w].user
        x == call[w].new
    IN
    /\ call[w].pc = "insert"
    /\ IF Taken(x.name, u)
       THEN call' = [call EXCEPT ![w] = Idle] /\ UNCHANGED user
       ELSE /\ user' = [user EXCEPT ![u] = x]
            /\ call' = IF call[w].role = "other"
                       THEN [call EXCEPT ![w] = Idle]
                       ELSE [call EXCEPT ![w].pc = "remove",
                                         ![w].new = Flags(x, call[w].role)]
    /\ UNCHANGED <<groups, erasure, counters, made, asked, mixed, accepted>>

\* update_user up to the first statement that writes: the row is read, and the
\* email, which becomes the username, is not one of another user. (A role that
\* is none is refused before anything is written.)
UpdateUser(w, u, n, role, active) ==
    LET x == [user[u] EXCEPT !.name = n, !.active = active] IN
    /\ Exists(u)
    /\ n = user[u].name \/ ~Taken(n, u)
    /\ BeginOn(u, w,
           IF role = None
           THEN [Idle EXCEPT !.pc = "save", !.new = x, !.saves = TRUE]
           ELSE [Idle EXCEPT !.pc = "remove", !.new = Flags(x, role),
                             !.role = role, !.saves = TRUE])
    /\ UNCHANGED <<user, groups, erasure, accepted>>

\* ensure_admin, at every start: the user of that name gets the role, and is
\* saved if a flag was missing or the email is another.
EnsureAdmin(w, u) ==
    /\ user[u].name = AdminName
    /\ \E saves \in BOOLEAN :
          /\ saves \/ user[u].super
          /\ BeginOn(u, w, [Idle EXCEPT !.pc = "remove", !.role = "administrator",
                                !.saves = saves,
                                !.new = Flags(user[u], "administrator")])
    /\ UNCHANGED <<user, groups, erasure, accepted>>

\* There is no such user: get_or_create inserts it, with the flag.
CreateAdmin(w, u) ==
    LET x == [name |-> AdminName, super |-> TRUE, active |-> TRUE] IN
    /\ ~Exists(u) /\ ~Busy(u)
    /\ ~Taken(AdminName, u)
    /\ user' = [user EXCEPT ![u] = x]
    /\ BeginOn(u, w, [Idle EXCEPT !.pc = "remove", !.role = "administrator",
                          !.saves = TRUE, !.new = x])
    /\ UNCHANGED <<groups, erasure, accepted>>

RemoveGroups(w) ==
    /\ call[w].pc = "remove"
    /\ groups' = [groups EXCEPT ![call[w].user] = {}]
    /\ call' = [call EXCEPT ![w].pc = "add"]
    /\ UNCHANGED <<user, erasure, counters, made, asked, mixed, accepted>>

AddGroup(w) ==
    /\ call[w].pc = "add"
    /\ groups' = [groups EXCEPT ![call[w].user] = @ \cup {call[w].role}]
    /\ call' = [call EXCEPT ![w] = IF @.saves THEN [@ EXCEPT !.pc = "save"] ELSE Idle]
    /\ UNCHANGED <<user, erasure, counters, made, asked, mixed, accepted>>

\* Variant of SaveUser: a save that fails takes the groups back.
SaveUser_Undo(w) ==
    LET u == call[w].user
        x == call[w].new
    IN
    /\ call[w].pc = "save"
    /\ IF Taken(x.name, u)
       THEN /\ mixed' = mixed \cup {u}
            /\ groups' = [groups EXCEPT ![u] = {}]
            /\ UNCHANGED user
       ELSE user' = [user EXCEPT ![u] = x] /\ UNCHANGED <<groups, mixed>>
    /\ call' = [call EXCEPT ![w] = Idle]
    /\ UNCHANGED <<erasure, counters, made, asked, accepted>>

\* user.save() writes every column, unless another user has taken the name
\* since: then it raises, and the groups stay as they were changed.
SaveUser(w) ==
    LET u == call[w].user
        x == call[w].new
    IN
    /\ call[w].pc = "save"
    /\ IF Taken(x.name, u)
       THEN mixed' = mixed \cup {u} /\ UNCHANGED user
       ELSE user' = [user EXCEPT ![u] = x] /\ UNCHANGED mixed
    /\ call' = [call EXCEPT ![w] = Idle]
    /\ UNCHANGED <<groups, erasure, counters, made, asked, accepted>>

\* The admin form of a user: the row is read, and then written in a transaction
\* with what the form says, the groups included.
OpenForm(w, u) ==
    /\ Exists(u)
    /\ BeginOn(u, w, [Idle EXCEPT !.pc = "form", !.new = user[u]])
    /\ UNCHANGED <<user, groups, erasure, accepted>>

SaveForm(w, super, active, gs) ==
    LET u == call[w].user
        x == [call[w].new EXCEPT !.super = super, !.active = active]
    IN
    /\ call[w].pc = "form"
    /\ ~Taken(x.name, u)
    /\ user' = [user EXCEPT ![u] = x]
    /\ groups' = [groups EXCEPT ![u] = gs]
    /\ made' = IF super \/ "administrator" \in gs THEN made \cup {u} ELSE made
    /\ asked' = [asked EXCEPT ![u] = [name |-> x.name, active |-> active, role |-> None]]
    /\ call' = [call EXCEPT ![w] = Idle]
    /\ UNCHANGED <<erasure, counters, mixed, accepted>>

\* The form is refused: the username is taken.
RefuseForm(w) ==
    /\ call[w].pc = "form"
    /\ Taken(call[w].new.name, call[w].user)
    /\ call' = [call EXCEPT ![w] = Idle]
    /\ UNCHANGED <<user, groups, erasure, counters, made, asked, mixed, accepted>>

-----------------------------------------------------------------------------
(***************************************************************************)
(* Requests to be erased.                                                  *)
(***************************************************************************)
Requested(u) == {q \in Requests : erasure[q].user = u}

\* The form of the profile: the latest request of the user is not pending.
AskErasure(w, u) ==
    /\ user[u].active
    /\ \A q \in Requested(u) :
          (\A p \in Requested(u) : p <= q) => erasure[q].status # "pending"
    /\ Begin(w, [Idle EXCEPT !.pc = "ask",
                    !.next = [user |-> u, status |-> "pending", decided |-> FALSE]])
    /\ UNCHANGED <<user, groups, erasure, made, asked, mixed, accepted>>

InsertErasure(w, q) ==
    /\ call[w].pc = "ask"
    /\ erasure[q] = NoErasure
    /\ \A p \in Requests : p < q => erasure[p] # NoErasure
    /\ erasure' = [erasure EXCEPT ![q] = call[w].next]
    /\ call' = [call EXCEPT ![w] = Idle]
    /\ UNCHANGED <<user, groups, counters, made, asked, mixed, accepted>>

\* Variant of Reviewed: a status that is none.
Reviewed_Approved(x, status) ==
    [x EXCEPT !.status = IF status = "processed" THEN "approved" ELSE status,
              !.decided = TRUE]

\* The form assigns the status; save_model signs a denial.
Reviewed(x, status) ==
    [x EXCEPT !.status = status, !.decided = @ \/ status = "denied"]

Review(w, q, status) ==
    /\ erasure[q] # NoErasure
    /\ Begin(w, [Idle EXCEPT !.pc = "review", !.req = q,
                    !.next = Reviewed(erasure[q], status)])
    /\ UNCHANGED <<user, groups, erasure, made, asked, mixed, accepted>>

\* ErasureRequest.process of the instance x: nothing if it is processed, else
\* the user is anonymised and the instance saved. (The new username, a random
\* token, is left out; save_model, the one caller, passes processed instances.)
Process(q, x) ==
    IF x.status = "processed"
    THEN UNCHANGED <<user, groups, erasure>>
    ELSE /\ user' = [user EXCEPT ![x.user].super = FALSE, ![x.user].active = FALSE]
         /\ groups' = [groups EXCEPT ![x.user] = {}]
         /\ erasure' = [erasure EXCEPT ![q] =
                           [x EXCEPT !.status = "processed", !.decided = TRUE]]

\* save_model: the instance, to which the form has already assigned the status,
\* is processed or saved.
SaveReview(w) ==
    LET q == call[w].req
        x == call[w].next
    IN
    /\ call[w].pc = "review"
    /\ IF x.status = "processed"
       THEN Process(q, x) /\ accepted' = accepted \cup {q}
       ELSE /\ erasure' = [erasure EXCEPT ![q] = x]
            /\ accepted' = accepted \ {q}
            /\ UNCHANGED <<user, groups>>
    /\ call' = [call EXCEPT ![w] = Idle]
    /\ UNCHANGED <<counters, made, asked, mixed>>

\* A worker is killed in the middle of a call.
Crash(w) ==
    /\ call[w].pc # "idle"
    /\ crashes < MaxCrashes
    /\ crashes' = crashes + 1
    /\ mixed' = IF call[w].user = None THEN mixed ELSE mixed \cup {call[w].user}
    /\ call' = [call EXCEPT ![w] = Idle]
    /\ UNCHANGED <<user, groups, erasure, calls, made, asked, accepted>>

Ask(w) ==
    \/ \E u \in Users :
          \/ \E n \in Names, role \in RoleInputs : CreateUser(w, u, n, role)
          \/ \E n \in Names, role \in Roles \cup {None}, active \in BOOLEAN :
                UpdateUser(w, u, n, role, active)
          \/ EnsureAdmin(w, u) \/ CreateAdmin(w, u) \/ OpenForm(w, u)
          \/ AskErasure(w, u)
    \/ \E q \in Requests, status \in {"pending", "denied", "processed"} :
          Review(w, q, status)

Serve(w) ==
    \/ InsertUser(w) \/ RemoveGroups(w) \/ AddGroup(w) \/ SaveUser(w)
    \/ \E super, active \in BOOLEAN, gs \in SUBSET Roles : SaveForm(w, super, active, gs)
    \/ RefuseForm(w)
    \/ \E q \in Requests : InsertErasure(w, q)
    \/ SaveReview(w)

Next == \E w \in Workers : Ask(w) \/ Serve(w) \/ Crash(w)

Spec == Init /\ [][Next]_vars

-----------------------------------------------------------------------------
(***************************************************************************)
(* Properties.                                                             *)
(***************************************************************************)

\* Whatever interleaves, the privileges of an administrator, by the flag or by
\* the group, are with users that some call or form made administrator: a stale
\* copy of a row can bring back an old privilege, never someone else's.
PrivilegeNeedsPromotion ==
    \A u \in Users :
        user[u].super \/ "administrator" \in groups[u] => u \in made

\* "role changes update Keywarden role/group mappings" (routers/users.py:137):
\* if the calls on a user came one by one and finished, then the name, is_active,
\* the flag, the group and the role that the API shows are those asked for last.
\* update_user writes them all from the copy it read, so an overlap loses updates.
UpdatesSettle ==
    \A u \in Users \ mixed :
        Exists(u) /\ ~Busy(u) =>
            /\ user[u].name = asked[u].name
            /\ user[u].active = asked[u].active
            /\ asked[u].role # None =>
                  /\ RoleOf(u) = asked[u].role
                  /\ groups[u] = {asked[u].role}
                  /\ user[u].super <=> asked[u].role = "administrator"

\* Calls that overlap may leave a user both groups, and a save that fails leaves
\* the groups apart from the flag, but nobody who was given a role ends without a
\* group, unless a call was killed or the admin form took it.  (A user created
\* with the role operator or auditor was given none: create_user answers 422 and
\* leaves an active user in no group.)
RolesAreNotLost ==
    \A u \in Users :
        Exists(u) /\ ~Busy(u) /\ asked[u].role # None /\ crashes = 0 =>
            groups[u] # {}

\* "An administrator must review and approve the request before processing", and
\* then "Your account has been anonymized" (profile.html:165, 190): a request
\* that a review marked as processed is processed, and its user inactive.
ReviewsTakeEffect ==
    \A q \in accepted :
        erasure[q].status = "processed" /\ ~user[erasure[q].user].active
=============================================================================
