--------------------------- MODULE AccessRequests ---------------------------
(***************************************************************************)
(* Access requests of the Keywarden server (app/apps/access and            *)
(* app/keywarden/api/routers/access.py): the rows, the clock, the object   *)
(* permission servers.view_server that an approval buys, and the code that *)
(* moves them: the API handlers, the admin form, the erasure of an account *)
(* and the periodic task that expires approvals.                           *)
(*                                                                         *)
(* The server runs several gunicorn workers and celery workers against one *)
(* PostgreSQL database, READ COMMITTED, in autocommit: a step here is one  *)
(* statement (or one transaction where the code opens one), and what a     *)
(* handler read earlier is kept in "local" and may be stale when used.     *)
(***************************************************************************)
EXTENDS Naturals, FiniteSets

CONSTANTS
    Users,          \* requesters
    Servers,        \* target servers
    Requests,       \* primary keys of the access request table
    Workers,        \* processes that serve the API and the admin site
    Sweepers,       \* processes that run expire_access_requests
    NoRequest,      \* a process that serves no request
    Never,          \* expires_at = NULL
    Decisions,      \* statuses administrators send to the API
    FormStatuses,   \* statuses administrators choose in the form
    Expiries,       \* expiries that requesters and administrators ask for
    MaxTime,        \* bound on the clock
    MaxOverlap,     \* bound on the calls that are served at the same time
    MaxCrashes,     \* bound on the processes killed in the middle of a call
    MayDelete,      \* whether superusers delete rows in the admin site
    Erasable        \* users whose erasure is processed

ASSUME RequestsAssumption ==
    /\ NoRequest \notin Requests
    /\ Workers \cap Sweepers = {}
ASSUME TimeAssumption == MaxTime \in Nat /\ Never \notin Nat
ASSUME InputsAssumption ==
    /\ Decisions \subseteq {"approved", "denied", "revoked", "cancelled"}
    /\ FormStatuses \subseteq {"pending", "approved", "denied", "revoked",
                              "cancelled", "expired"}
    /\ Expiries \subseteq 0 .. MaxTime \cup {Never}
ASSUME BoundsAssumption ==
    /\ MaxOverlap \in Nat /\ MaxCrashes \in Nat
    /\ MayDelete \in BOOLEAN
    /\ Erasable \subseteq Users

VARIABLES
    now,            \* the wall clock
    row,            \* row[r]: the committed row of request r
    ownerPerm,      \* <<user, request>>: the user holds view and change on the row
    grants,         \* <<user, server>> pairs that hold servers.view_server
    erased,         \* users whose erasure was processed
    local,          \* local[a]: what the call in process a holds in memory
    todo,           \* todo[s]: <<row, pair>> the task in s read and has still to expire
    crashes,        \* number of processes killed so far
    everApproved,   \* history: pairs some committed row was approved for
    handed,         \* history: <<user, row>>: an update made the user its requester
    overtaken,      \* history: processes whose answer of the query is out of date
    astray          \* history: pairs whose permission no longer follows the rows

table == <<row, everApproved, handed>>
perms == <<ownerPerm, grants>>
world == <<now, erased, crashes>>
trail == <<overtaken, astray>>
vars == <<table, perms, world, trail, local, todo>>

-----------------------------------------------------------------------------
Status == {"pending", "approved", "denied", "revoked", "cancelled", "expired"}

\* What an administrator may set through the API.
AdminStatus == {"approved", "denied", "revoked", "cancelled"}

Times == 0 .. MaxTime

\* The requester and the server of a request.
Pairs == Users \X Servers
NoPair == <<>>

\* A row; "unborn" before its INSERT and "gone" after its DELETE.
Row == [status : Status \cup {"unborn", "gone"}, expires : Times \cup {Never},
        decided : BOOLEAN,       \* decided_by is not NULL
        pair : Pairs \cup {NoPair}]

NoRow == [status |-> "unborn", expires |-> Never, decided |-> FALSE, pair |-> NoPair]
GoneRow == [NoRow EXCEPT !.status = "gone"]

Processes == Workers \cup Sweepers

\* pc: the next statement of the call.
\*   save     the UPDATE of AccessRequest.save, in autocommit
\*   own      the object permissions of the owner of a new row
\*   check    the EXISTS query of sync_server_view_perm
\*   assign   its assign_perm or remove_perm
\*   form     the UPDATE of the admin form, which opens a transaction
\*   commit   the end of a transaction that holds the lock of the row
\*   pick     the head of the loop of expire_access_requests
Local == [pc : {"idle", "save", "own", "check", "assign", "form", "commit",
                "pick"},
          req : Requests \cup {NoRequest},
          pair : Pairs \cup {NoPair},    \* the pair its syncs are for
          new : Row,             \* the row about to be written
          valid : BOOLEAN,       \* has_valid_access, as read
          syncs : 0 .. 2]        \* calls of sync_server_view_perm to come

Call(pc, r, p, x, valid, syncs) ==
    [pc |-> pc, req |-> r, pair |-> p, new |-> x, valid |-> valid, syncs |-> syncs]

Idle == Call("idle", NoRequest, NoPair, NoRow, FALSE, 0)

Exists(r) == row[r].status \in Status

\* Some transaction has updated row r and not yet committed.
Locked(r) == \E a \in Processes : local[a].pc = "commit" /\ local[a].req = r

Active == {a \in Processes : local[a].pc # "idle"}

TypeOK ==
    /\ now \in Times
    /\ row \in [Requests -> Row]
    /\ ownerPerm \in SUBSET (Users \X Requests)
    /\ grants \in SUBSET Pairs
    /\ erased \in SUBSET Users
    /\ local \in [Processes -> Local]
    /\ todo \in [Sweepers -> SUBSET (Requests \X Pairs)]
    /\ crashes \in 0 .. MaxCrashes
    /\ everApproved \in SUBSET Pairs
    /\ handed \in SUBSET (Users \X Requests)
    /\ overtaken \in SUBSET Processes
    /\ astray \in SUBSET Pairs

Init ==
    /\ now = 0
    /\ row = [r \in Requests |-> NoRow]
    /\ ownerPerm = {}
    /\ grants = {}
    /\ erased = {}
    /\ local = [a \in Processes |-> Idle]
    /\ todo = [s \in Sweepers |-> {}]
    /\ crashes = 0
    /\ everApproved = {}
    /\ handed = {}
    /\ overtaken = {}
    /\ astray = {}

-----------------------------------------------------------------------------
(***************************************************************************)
(* sync_server_view_perm: one query, then one statement on the permission. *)
(***************************************************************************)
Unexpired(x) == x.expires = Never \/ x.expires > now

\* Variant of Valid: the filter forgets the status.
Valid_AnyStatus(x) == x.status \in {"pending", "approved"} /\ Unexpired(x)

\* The filter of the EXISTS query.
Valid(x) == x.status = "approved" /\ Unexpired(x)

\* The query as seen in a state of the table.
HasValidAccess(rows, p) == \E r \in Requests : rows[r].pair = p /\ Valid(rows[r])

\* Variant of SetGrant: a permission is assigned and never removed.
SetGrant_NoRemove(p, valid) == grants' = IF valid THEN grants \cup {p} ELSE grants

SetGrant(p, valid) == grants' = IF valid THEN grants \cup {p} ELSE grants \ {p}

\* Pairs whose approvals change when row r becomes x.
Shaken(r, x) == {y.pair : y \in {z \in {row[r], x} : z.status = "approved"}}

\* Processes between the query and its statement, for a pair in ps.
Asking(ps) ==
    {a \in Processes : local[a].pc \in {"assign", "commit"} /\ local[a].pair \in ps}

\* Row r is committed as x. The history remembers the approvals, who was made
\* requester of a row that existed, and whose answers are out of date.
Commit(a, r, x) ==
    /\ row' = [row EXCEPT ![r] = x]
    /\ everApproved' = IF x.status = "approved"
                       THEN everApproved \cup {x.pair} ELSE everApproved
    /\ handed' = IF Exists(r) /\ x.pair[1] # row[r].pair[1]
                 THEN handed \cup {<<x.pair[1], r>>} ELSE handed
    /\ overtaken' = (overtaken \cup Asking(Shaken(r, x))) \ {a}

\* Where a sync of pair p by process a leaves the permission, after approvals of
\* the pairs in ps have changed: astray for those that nobody syncs, and for p
\* when the answer it acts on is out of date.
Astray(a, p, ps) ==
    IF a \in overtaken THEN astray \cup ps \cup {p} ELSE (astray \cup ps) \ {p}

\* The call in process a goes on with statement pc.
Goto(a, pc, r, p, syncs) ==
    local' = [local EXCEPT ![a] = Call(pc, r, p, NoRow, FALSE, syncs)]

Return(a) == Goto(a, "idle", NoRequest, NoPair, 0)

\* One more call may be served; an idle process takes it.
Room == Cardinality(Active) < MaxOverlap
Free(a) == local[a].pc = "idle" /\ Room

-----------------------------------------------------------------------------
(***************************************************************************)
(* The API.                                                                *)
(***************************************************************************)

\* No other call is about to insert row r.
Fresh(r) ==
    row[r].status = "unborn" /\ \A a \in Processes : local[a].req # r

\* create_request: the INSERT of a pending row; the signal handler follows.
CreateRequest(w, r, p, e) ==
    /\ Free(w)
    /\ Fresh(r)
    /\ p[1] \notin erased
    /\ Commit(w, r, [status |-> "pending", expires |-> e, decided |-> FALSE, pair |-> p])
    /\ Goto(w, "own", r, p, 1)
    /\ UNCHANGED <<perms, world, astray, todo>>

\* Variant of AssignOwner: a new row is taken for an updated one.
AssignOwner_Skipped(w) ==
    /\ local[w].pc = "own"
    /\ Goto(w, "check", local[w].req, local[w].pair, local[w].syncs)
    /\ UNCHANGED <<table, world, perms, trail, todo>>

\* assign_access_request_perms on a new row: assign_perm for the requester.
AssignOwner(w) ==
    LET r == local[w].req
        p == local[w].pair
    IN
    /\ local[w].pc = "own"
    /\ ownerPerm' = ownerPerm \cup {<<p[1], r>>}
    /\ Goto(w, "check", r, p, local[w].syncs)
    /\ UNCHANGED <<table, world, trail, grants, todo>>

\* update_request up to the save: the row is read, the rules are checked on
\* that copy, and the copy is changed.
Patch(w, r, x) ==
    /\ Free(w)
    /\ Exists(r)
    /\ local' = [local EXCEPT ![w] = Call("save", r, x.pair, x, FALSE, 2)]
    /\ UNCHANGED <<table, perms, world, trail, todo>>

\* An administrator sets the status and, if e is given, the expiry.
AdminDecide(w, r, s, e) ==
    Patch(w, r, [row[r] EXCEPT !.status = s, !.expires = e, !.decided = TRUE])

\* An administrator sets the expiry only.
AdminReschedule(w, r, e) == Patch(w, r, [row[r] EXCEPT !.expires = e])

\* Whoever holds change on the row cancels it while it is pending in the copy.
OwnerCancel(w, r) ==
    /\ \E u \in Users \ erased : <<u, r>> \in ownerPerm
    /\ row[r].status = "pending"
    /\ Patch(w, r, [row[r] EXCEPT !.status = "cancelled", !.decided = FALSE])

\* access_request.save(): every column is written from the copy, the requester
\* and the server too. When the row was deleted meanwhile, save() inserts it
\* again, and the signal handler takes it for a new row.
Save(w) ==
    LET r == local[w].req
        x == local[w].new
    IN
    /\ local[w].pc = "save"
    /\ ~Locked(r)
    /\ Commit(w, r, x)
    /\ astray' = astray \cup (Shaken(r, x) \ {x.pair})
    /\ Goto(w, IF Exists(r) THEN "check" ELSE "own", r, x.pair, local[w].syncs)
    /\ UNCHANGED <<perms, world, todo>>

\* The query of sync_server_view_perm. It runs in its own transaction.
SyncCheck(a) ==
    LET c == local[a] IN
    /\ c.pc = "check"
    /\ local' = [local EXCEPT ![a] =
           Call("assign", c.req, c.pair, NoRow, HasValidAccess(row, c.pair), c.syncs)]
    /\ UNCHANGED <<table, perms, world, trail, todo>>

\* assign_perm or remove_perm, whatever happened since the query. The call
\* goes on with its next sync, ends, or takes the next row of the sweep.
SyncAssign(a) ==
    LET r == local[a].req
        p == local[a].pair
    IN
    /\ local[a].pc = "assign"
    /\ SetGrant(p, local[a].valid)
    /\ astray' = Astray(a, p, {})
    /\ overtaken' = overtaken \ {a}
    /\ \/ local[a].syncs = 2 /\ Goto(a, "check", r, p, 1)
       \/ local[a].syncs < 2 /\ a \in Workers /\ Return(a)
       \/ local[a].syncs < 2 /\ a \in Sweepers /\ Goto(a, "pick", NoRequest, NoPair, 0)
    /\ UNCHANGED <<table, world, ownerPerm, todo>>

-----------------------------------------------------------------------------
(***************************************************************************)
(* The admin site. The form view is one transaction: the row is read, the  *)
(* form overwrites what it shows, the row is saved, and the signal handler *)
(* syncs the permission, all of it visible to others at the commit.        *)
(***************************************************************************)

\* Variant of FormRow: save_model leaves decided_by alone.
FormRow_Unsigned(x, p, s, e) ==
    [status |-> s, expires |-> e, decided |-> x.decided, pair |-> p]

\* save_model completes the decision of a row that has none.
FormRow(x, p, s, e) ==
    [status |-> s, expires |-> e, decided |-> x.decided \/ s \in AdminStatus,
     pair |-> p]

\* The form of a new row or of an existing one, whose requester and server can
\* be edited as well.
AdminForm(w, r, p, s, e) ==
    /\ Free(w)
    /\ Exists(r) \/ Fresh(r)
    /\ local' = [local EXCEPT ![w] =
                   Call("form", r, p, FormRow(row[r], p, s, e), FALSE, 0)]
    /\ UNCHANGED <<table, perms, world, trail, todo>>

\* The UPDATE takes the lock of the row; the query of the sync sees it, and
\* asks for the requester and the server that the row has now.
FormUpdate(w) ==
    LET r == local[w].req
        p == local[w].pair
        x == local[w].new
    IN
    /\ local[w].pc = "form"
    /\ ~Locked(r)
    /\ local' = [local EXCEPT ![w] =
           Call("commit", r, p, x, HasValidAccess([row EXCEPT ![r] = x], p), 0)]
    /\ UNCHANGED <<table, perms, world, trail, todo>>

\* A new row gets the permissions of its requester; an edited one does not.
FormCommit(w) ==
    LET r == local[w].req
        p == local[w].pair
        x == local[w].new
    IN
    /\ w \in Workers
    /\ local[w].pc = "commit"
    /\ Commit(w, r, x)
    /\ SetGrant(p, local[w].valid)
    /\ astray' = Astray(w, p, Shaken(r, x) \ {p})
    /\ ownerPerm' = IF Exists(r) THEN ownerPerm ELSE ownerPerm \cup {<<p[1], r>>}
    /\ Return(w)
    /\ UNCHANGED <<world, todo>>

\* A superuser deletes the row. No signal handler runs.
DeleteRequest(r) ==
    LET ps == Shaken(r, GoneRow) IN
    /\ MayDelete /\ Room
    /\ Exists(r)
    /\ ~Locked(r)
    /\ row' = [row EXCEPT ![r] = GoneRow]
    /\ overtaken' = overtaken \cup Asking(ps)
    /\ astray' = astray \cup ps
    /\ UNCHANGED <<perms, world, local, todo, everApproved, handed>>

-----------------------------------------------------------------------------
(***************************************************************************)
(* ErasureRequest.process: one transaction that removes every object       *)
(* permission of the user and revokes the open requests by a bulk UPDATE,  *)
(* for which no signal is sent. Its one caller, the admin site, does not   *)
(* get that far (see Accounts); it stands here for what it promises.       *)
(***************************************************************************)
Erase(u) ==
    LET open == {r \in Requests : /\ row[r].status \in {"pending", "approved"}
                                  /\ row[r].pair[1] = u}
        mine == {u} \X Servers
    IN
    /\ u \in Erasable \ erased /\ Room
    /\ \A r \in open : ~Locked(r)
    /\ erased' = erased \cup {u}
    /\ ownerPerm' = {o \in ownerPerm : o[1] # u}
    /\ grants' = grants \ mine
    /\ row' = [r \in Requests |->
                  IF r \in open
                  THEN [row[r] EXCEPT !.status = "revoked", !.expires = now,
                                      !.decided = TRUE]
                  ELSE row[r]]
    /\ overtaken' = overtaken \cup Asking(mine)
    /\ astray' = astray \ mine
    /\ UNCHANGED <<now, local, todo, crashes, everApproved, handed>>

-----------------------------------------------------------------------------
(***************************************************************************)
(* expire_access_requests, which celery beat starts once a minute.         *)
(***************************************************************************)

\* Variant of Overdue: expires_at__lt instead of expires_at__lte.
Overdue_Strict(x) == x.status = "approved" /\ x.expires # Never /\ x.expires < now

\* The filter of the query.
Overdue(x) == x.status = "approved" /\ x.expires # Never /\ x.expires <= now

\* Variants of Expired: a status outside the choices; status and decided_by left
\* out of update_fields.
Expired_Lapsed(x) == [x EXCEPT !.status = "lapsed", !.decided = FALSE]
Expired_NoColumns(x) == x

\* The columns that save(update_fields=...) writes.
Expired(x) == [x EXCEPT !.status = "expired", !.decided = FALSE]

\* The rows are all read when the loop starts.
SweepStart(s) ==
    LET overdue == {r \in Requests : Overdue(row[r])} IN
    /\ Free(s)
    /\ overdue # {}
    /\ todo' = [todo EXCEPT ![s] = {<<r, row[r].pair>> : r \in overdue}]
    /\ Goto(s, "pick", NoRequest, NoPair, 0)
    /\ UNCHANGED <<table, perms, world, trail>>

\* The UPDATE of one row, whatever the row holds now, in a transaction in which
\* the signal handler syncs too, for the pair that the task has read.
SweepUpdate(s, r, p) ==
    LET x == Expired(row[r]) IN
    /\ local[s].pc = "pick"
    /\ <<r, p>> \in todo[s]
    /\ Exists(r)
    /\ ~Locked(r)
    /\ local' = [local EXCEPT ![s] =
           Call("commit", r, p, x, HasValidAccess([row EXCEPT ![r] = x], p), 1)]
    /\ todo' = [todo EXCEPT ![s] = @ \ {<<r, p>>}]
    /\ UNCHANGED <<table, perms, world, trail>>

SweepCommit(s) ==
    LET r == local[s].req
        p == local[s].pair
        x == local[s].new
    IN
    /\ s \in Sweepers
    /\ local[s].pc = "commit"
    /\ Commit(s, r, x)
    /\ SetGrant(p, local[s].valid)
    /\ astray' = Astray(s, p, Shaken(r, x) \ {p})
    /\ Goto(s, "check", r, p, 1)
    /\ UNCHANGED <<world, ownerPerm, todo>>

\* The row is gone: save(update_fields=...) raises, and the task ends with
\* the rest of its rows untouched.
SweepMissing(s, r, p) ==
    /\ local[s].pc = "pick"
    /\ <<r, p>> \in todo[s]
    /\ ~Exists(r)
    /\ todo' = [todo EXCEPT ![s] = {}]
    /\ Return(s)
    /\ UNCHANGED <<table, perms, world, trail>>

SweepEnd(s) ==
    /\ local[s].pc = "pick"
    /\ todo[s] = {}
    /\ Return(s)
    /\ UNCHANGED <<table, perms, world, trail, todo>>

-----------------------------------------------------------------------------
(***************************************************************************)
(* The environment.                                                        *)
(***************************************************************************)
Tick ==
    /\ now < MaxTime
    /\ now' = now + 1
    /\ UNCHANGED <<table, perms, trail, erased, local, todo, crashes>>

\* A worker is killed; its open transaction, if any, is rolled back. A row it
\* has committed stays without the sync that was to follow.
Crash(a) ==
    LET c == local[a] IN
    /\ crashes < MaxCrashes
    /\ c.pc # "idle"
    /\ crashes' = crashes + 1
    /\ Return(a)
    /\ todo' = IF a \in Sweepers THEN [todo EXCEPT ![a] = {}] ELSE todo
    /\ overtaken' = overtaken \ {a}
    /\ astray' = IF c.pc \in {"own", "check", "assign"}
                 THEN astray \cup {c.pair} ELSE astray
    /\ UNCHANGED <<table, perms, now, erased>>

\* What users and administrators ask for.
Ask(w) ==
    \E r \in Requests :
        \/ \E p \in Pairs, e \in Expiries : CreateRequest(w, r, p, e)
        \/ \E s \in Decisions, e \in (Expiries \ {Never}) \cup {row[r].expires} :
               AdminDecide(w, r, s, e)
        \/ \E e \in Expiries \ {Never} : AdminReschedule(w, r, e)
        \/ OwnerCancel(w, r)
        \/ \E p \in Pairs, s \in FormStatuses, e \in Expiries :
               AdminForm(w, r, p, s, e)

\* What a web worker does to finish the call it serves.
Serve(w) ==
    AssignOwner(w) \/ Save(w) \/ SyncCheck(w) \/ SyncAssign(w) \/ FormUpdate(w)
        \/ FormCommit(w)

\* What the task does once it has started.
Sweep(s) ==
    \/ \E r \in Requests, p \in Pairs : SweepUpdate(s, r, p) \/ SweepMissing(s, r, p)
    \/ SweepCommit(s) \/ SyncCheck(s) \/ SyncAssign(s) \/ SweepEnd(s)

Next ==
    \/ \E w \in Workers : Ask(w) \/ Serve(w)
    \/ \E s \in Sweepers : SweepStart(s) \/ Sweep(s)
    \/ \E r \in Requests : DeleteRequest(r)
    \/ \E u \in Users : Erase(u)
    \/ \E a \in Processes : Crash(a)
    \/ Tick

Spec == Init /\ [][Next]_vars

\* A killed worker aside, a call runs to its end: nothing in it waits but for
\* the lock of a row, which PostgreSQL hands to the waiters in turn (strong
\* fairness). Celery beat starts the task again and again; it waits for a turn
\* only where MaxOverlap keeps calls apart. Users and administrators owe nothing.
Fairness ==
    /\ \A w \in Workers : SF_vars(Serve(w))
    /\ \A s \in Sweepers : SF_vars(SweepStart(s)) /\ SF_vars(Sweep(s))

FairSpec == Spec /\ Fairness

-----------------------------------------------------------------------------
(***************************************************************************)
(* Properties.                                                             *)
(***************************************************************************)

\* However the calls interleave, nobody holds view on a server without some
\* request for it having been approved: create_request "does not grant access
\* until approved" (routers/access.py:120), and a stale answer of the query
\* in sync_server_view_perm is at worst the answer to an older approval.
GrantsNeedApproval == grants \subseteq everApproved

\* An approved row always names who decided, although three writers fill the
\* column by different rules (the API, save_model of the admin form, and the
\* task that clears it) and save whole rows from stale copies.
ApprovalsAttributed ==
    \A r \in Requests : row[r].status = "approved" => row[r].decided

\* As long as no process is killed between an INSERT and the permissions that
\* follow it, the requester of every row can see and cancel it, or is about to,
\* even if a save brings a deleted row back. It is not so for a requester whom
\* an edit of the form gave the row: the signal handler assigns the permissions
\* to the requester of a new row only (signals.py:14-19).
OwnersSeeTheirRequests ==
    \A r \in Requests :
        LET u == row[r].pair[1] IN
        Exists(r) /\ u \notin erased /\ crashes = 0 /\ <<u, r>> \notin handed =>
            \/ <<u, r>> \in ownerPerm
            \/ \E a \in Processes :
                  local[a].pc = "own" /\ local[a].req = r /\ local[a].pair[1] = u

\* A call has written a row and has the sync for pair p still to do.
InProgress(p) ==
    \E a \in Processes : local[a].pc \in {"own", "check", "assign"} /\ local[a].pair = p

\* View on a server is held exactly by users with an approved request for it,
\* whatever calls overlap: "User has access expire or revoked ... Keywarden
\* removes object permissions" (TODO.md:15-17). An approval that has run out
\* since the last sweep still counts on the first line. The permission strays in
\* four ways only, and the next undisturbed sync mends it: a sync acted on an
\* answer that a change of the approvals had overtaken, its process was killed
\* after the write, an approved row was deleted, or a form or a stale copy
\* took an approved row to another requester or server (access/admin.py:39-79),
\* where the sync that follows does not look.
SettledAgreement ==
    \A p \in Pairs \ astray :
        InProgress(p) \/
            /\ p \in grants =>
                  \E r \in Requests : row[r].pair = p /\ row[r].status = "approved"
            /\ HasValidAccess(row, p) => p \in grants

\* "Side effects: updates object permissions for server visibility when approvals
\* or revocations occur" (routers/access.py:173-174): once every call has
\* returned, nobody holds view on a server without an approved request for it.
PermissionsEndWithApprovals ==
    Active = {} =>
        \A p \in grants :
            \E r \in Requests : row[r].pair = p /\ row[r].status = "approved"

\* An approval past its expiry does not stay approved: the task gets to it
\* whatever calls it overlaps with, rows deleted under its feet included.
ExpirySwept == \A r \in Requests : Overdue(row[r]) ~> ~Overdue(row[r])
=============================================================================
