# Keywarden: specification, model checking and proofs

Keywarden decides who may log into which server, and makes it so. Users ask for access to servers,
administrators approve or revoke it, and an agent on each server creates and disables the Linux
accounts. This directory holds TLA+ modules of the parts of Keywarden whose correctness depends on
the order in which things happen, TLC configurations that check them on small instances, and
theorems about them that TLAPS proves for every value of the constants. `PROJECT.json` maps each
definition to the lines it models, and lists runs, mutants, findings, hazards and theorems.

Paths below are relative to the root of the repository.

## 1. The system

Keywarden is a Django application (`app/`) and an agent in Go (`agent/`). In deployment, three
gunicorn workers serve the API and the admin site, daphne serves the web shell, a celery worker runs
the tasks, and celery beat starts `expire_access_requests` every minute. All of them share one
PostgreSQL database, in READ COMMITTED and autocommit: there is no `ATOMIC_REQUESTS`, so a handler
of the API is a series of independent statements, and only the views of the admin site and a few
explicit blocks are transactions. The agent is one process per host. It runs a cycle every few
seconds and talks to the API behind mTLS.

| Component | State it keeps | Operations | What must hold | Module |
|---|---|---|---|---|
| Access requests `app/apps/access`, `routers/access.py` | the rows; object permissions on them and `view_server` on servers | create, update by administrator or owner, admin form, delete, sync of the permission, expiry task | permissions follow approvals; decisions are attributed; approvals end; accounts follow in the end | AccessRequests, AccessControl, ServerAccess |
| Accounts and erasure `app/apps/accounts` | users, erasure requests | ask, review, anonymise | a review takes effect; an erased user keeps nothing | Accounts; `Erase` of AccessRequests and KeyCertificates |
| Agent account synchronisation `agent/internal/accounts`, `client.go`, `routers/agent.py` | accounts of the host, `accounts.json`, `ServerAccount` rows | fetch, revoke, ensure, save, report | accounts follow permissions; records are true | AgentAccounts |
| Agent log shipping `main.go`, `agent/internal/logs` | journal cursor, spool | drain, collect, send, spool, advance | no entry is skipped; the spool is bounded | LogShipping, LogDelivery |
| Enrollment `routers/agent.py`, `app/apps/servers`, `main.go` | tokens, servers, agent authority; certificate files and `server_id` of the host | enroll, bootstrap, edit a token, replace the authority | a token enrolls one server and is spent on one; files match | Enrollment |
| Users and roles `app/apps/core/rbac.py`, `routers/users.py` | users, groups | create, update, role change, admin form, `ensure_admin` | nobody is administrator by accident; roles are not lost | Accounts |
| SSH keys and certificates `app/apps/keys`, `routers/keys.py`, `accounts/views.py` | keys, user authorities, certificates | create, update, revoke, issue, download, replace the authority | active users get in, revoked ones do not; authorities are saved before use | KeyCertificates |
| Server inventory `heartbeat` of `routers/agent.py`, `routers/servers.py` | addresses of servers | heartbeat, edit | addresses become those of the hosts | not modelled |
| User CA on the host `EnsureCA` of `sync.go` | CA file, sshd configuration | write, configure, reload | the host comes to trust the authority that signs | HostTrust |
| Audit log `app/apps/audit` | log rows, event types, a cache of the event types per process | match, log, edit and delete event types | the event types in force decide | AuditRules |
| Web shell `app/apps/servers/consumers.py` | an SSH session per connection | connect, stream, disconnect | permissions before a process; no key, process or directory left behind | ShellSession |
| Telemetry, dashboard, API shell, host detection, deployment | - | - | - | not modelled |

How they interact: an approval makes `sync_server_view_perm` assign `view_server`; `account_access`
answers the agent with the active users that hold it; the agent reports the accounts it made to
`sync_report`. The permission also gates the web shell. Enrollment creates the server row that
requests name. `get_active_ca` gives both sides of a login their authority: the handlers of keys sign a
user's certificate with it, and `ssh_ca` hands it to the agent, whose `EnsureCA` makes sshd trust it
before every synchronisation of accounts. Log shipping uses the same client and the server id of the enrollment.

What is hard, and where the properties aim:

- handlers that read, decide and save whole rows, in several processes at once (access requests,
  tokens, users, keys);
- an authority that several workers may construct at the same time, which two sides must agree on;
- a query whose answer is acted on by a later statement (`sync_server_view_perm`);
- a batch task over rows that change or vanish under it (`expire_access_requests`);
- agent cycles cut by failing commands, lost replies and crashes, with state in files that are
  overwritten in place;
- handlers cut into pieces by their awaits, with a process, a thread, a task and a client beside them (the
  web shell);
- caches that every process keeps for itself (event types);
- things that must happen in the end: approvals expire, accounts appear and disappear, logs arrive,
  sessions are cleaned up.

## 2. The modules

Each module names the code it models at its head. `MC<Module>`, where there is one, gives constants their
values for TLC; the configurations of AccessRequests and AccessControl need no more than the module itself.
Definitions whose name has an underscore (`Valid_AnyStatus`) are variants of the definition that
follows: plausible mistakes that the mutants of `PROJECT.json` put in its place to show that the
properties notice. They are not part of a specification.

### AccessRequests

The state is the table (`row`), the object permissions (`ownerPerm`, `grants`), the clock, and for
each process what its call holds in memory (`local`, with the next statement in `pc`). A step is one
statement, or one transaction where the code opens one, so what was read before may be stale when it
is used:

- `CreateRequest`, `AssignOwner`: `create_request` and the signal handler of a new row.
- `AdminDecide`, `AdminReschedule`, `OwnerCancel`: `update_request` up to `save()`, with the checks
  made on the copy. `Save` is `save()` of every column; if the row was deleted meanwhile it inserts it.
- `SyncCheck`, `SyncAssign`: the EXISTS query of `sync_server_view_perm`, and the statement that acts
  on the answer. An API update syncs twice, in the signal handler and in the router.
- `AdminForm`, `FormUpdate`, `FormCommit`: the admin form of a new row or of an existing one, one
  transaction, in which the row is locked from the UPDATE to the commit. The form of an existing row edits
  its requester and its server like its status and expiry (`access/admin.py:39-79`), so both are part of the
  row (`pair`). The sync that follows an edit is for the new pair only, and the owner permissions are given to
  the requester of a new row only.
- `SweepStart`, `SweepUpdate`, `SweepCommit`, `SweepMissing`, `SweepEnd`: the task, which reads all
  rows to expire at once and updates them one by one. `save(update_fields=...)` opens a transaction
  with the signal handler in it, then the task syncs once more.
- `Erase`: the transaction of `_anonymize_user`. It is one step: the bulk UPDATE and the removal of
  permissions become visible at its commit, and it waits for locked rows.
- `DeleteRequest`, `Crash`, `Tick`: a superuser's delete, a killed worker, the clock.

`everApproved`, `handed`, `overtaken` and `astray` are history variables. `overtaken` is the set of processes
that hold an answer of the query for a pair whose approvals have changed since; `astray` the set of pairs
whose permission no longer follows the rows. A pair goes astray when a sync acts on an overtaken answer, when
its process is killed between the write and the last sync, when an approved row is deleted, and when the form
(or a stale copy) takes an approved row to another requester or server; the next sync of the pair that nothing
overtakes, and an erasure, bring it back. `handed` says to whom an update gave a row. Usernames, reasons, notes
and timestamps are left out; `decided` says whether `decided_by` is set. The deletion of users (CASCADE and
SET_NULL) is not modelled.

### AccessControl and ServerAccess

`ServerAccess` is the abstract specification of the access workflow for one server: who is `entitled`, whose
`account` lets them in, who was ever `approved`, whose permission has `strayed` from the decisions, and who
`lapsed`, that is, strayed or ceased to be entitled at some time. Decisions are free; an account opens only for
a user who was approved, closes only for one who lapsed, and settles when the decisions do, unless the
permission stays astray for good. The last condition is not empty: in the code an edit of the server of an
approved row leaves its requester with the permission, and the agent with the account, until another sync for
the old pair, which may never come. `AccessControl` is AccessRequests together with an instance of AgentAccounts for the
agent of one server: `access` of the agent is `ResolveAccessUsers`, the active users that hold `view_server`.
A step is one of the server (`Work`) or one of the agent (`Synchronise`). It implements ServerAccess
(`EndToEnd`) although the approval, the permission, the answer, the state file and the account are written
one after the other, each from what was read earlier. The agent is undisturbed here: its failures are the
subject of AgentAccounts.

### AgentAccounts

The server's side is `access` (active users with `view_server`) and `name` (the system username of
each); the host's side is `acct`, `stateFile` and `corrupt`; the agent's memory is the cycle. The
actions follow `Sync`: `Fetch`, `Revoke` or `RevokeFails` for every user of the state file that is not
in the answer, `Ensure` or `EnsureFails` for the others, `Save` or `SaveFails`, `Report` or
`ReportFails`. The maps are iterated in any order, as Go does. `Crash` loses the memory and may tear
the state file, which `os.WriteFile` truncates first. `LockOnRevoke` is the setting of that name.

`Clean` says that nothing went wrong so far. `EnabledAccountsTracked` and `CleanRevocation` speak of such
behaviours, and the others of all. What defeats them otherwise is in the code: a command that fails once is
not tried again for a revoked account, since `saveState` writes the desired accounts; a crash between
`useradd` and the state file; a rename, after which the account of the former name leaves the state file
unrevoked; and the default policy, which does not disable accounts (`LockOnRevoke`).

### LogShipping and LogDelivery

The journal is a range of numbered entries `head .. tail`; `cursor` and `spool` are files of the agent;
`pc` follows `shipLogs`. `Start` says where a collection begins: after the entry of the cursor, at the
tail without one, and one entry too far if journald vacuumed that entry. `SendFails` covers all attempts
of `retry`, with or without the server having accepted the batch. `base` and `forgone` are history variables:
where the present chain of batches began, and the newest entry that is given up. What the code gives up is
said there and nowhere else: the entries logged before a cycle that finds no cursor (the first one, or the one
after a crash emptied the cursor file) seeks the tail, and those that journald drops before they are read, with
the oldest one it kept. `NothingSkipped` says that every other entry up to the cursor was accepted.
`LogDelivery` is the abstract specification: the cursor confirms a chain of accepted entries, which continues
where it ended and breaks only if the cursor is lost or its entry was vacuumed; it allows any new beginning,
which is why `NothingSkipped` is stated beside it. `LogShipping` implements it with `cursor <- Confirmed`.
"Accepted" means that `ingest_logs` answered for the batch; storing it is a TODO in the code.

### Enrollment

`Enroll` is the call of the agent up to the check of the token; `Open` is the transaction of
`enroll_agent` up to its last statement, with the locks it holds and the certificate it signed; `Commit`
makes it visible and answers; `Refuse` is an error inside it, which rolls it back. An agent may give up
a call that then still commits. `EditToken` and `SaveToken` are the admin form of a token, which saves
`used_at` from the copy it read. `WriteCert`, `WriteCA` and `SaveConfig` are the three writes of
`bootstrapIfNeeded`. Keys, subjects and IP addresses are left out: a certificate is its server and its
issuer. Two authorities saved at the same time are not modelled. `enrolled` and `raced` are history
variables: the servers a token enrolled, and the tokens that two enrollments held at once or whose mark a form
took back. The code breaks "one-time" and "single-use" (`routers/agent.py:121, 128`) for those: the token is
checked outside the transaction that marks it, and the form saves `used_at` from its copy. `TokenSingleUse`
says that no other token enrolls two servers.

### KeyCertificates and HostTrust

`KeyCertificates` is the server: the rows (`key`, `cert`, `cas`), and for each worker the call it serves
(`call`: handler, next statement, subject, the `is_active` it is going to save, authority). Handlers of
keys start with `Load`, and go on through

- `SelectCA`, `KeepCA`: the query of `get_active_ca`, with the construction of an authority if there is
  none, and its `save()` of every column;
- `Sign`: `ssh-keygen` and `update_or_create` of the certificate;
- `ReadCert`, `RevokeCert`, `SaveKey`: `_ensure_certificate`, `revoke_certificate_for_key`, and the save
  of the key.

`Create` and `Commit` are `create_key`, whose statements share a transaction; `ProfileCreate` is the key
form of the profile, which commits the key first. `Ask` is `ssh_ca`. `Abort` ends a call anywhere,
`HangUp` makes an agent miss its answer. `EditCA`, `Erase` and `Lapse` are the admin form of an authority,
the erasure of a user and the end of a certificate. An authority is the number of its `created_at`, and a
certificate is the authority that signed it; a rename and the admin form of a key are one edit. `held` is
what the user of a key downloaded last.

`HostTrust` extends it by the hosts. `WriteKey`, `WriteConf` and `Reload` are the statements of `EnsureCA`,
`EnsureFails` and `Truncate` its failures. sshd reads its configuration when it starts or reloads
(`loaded`), and the file of `TrustedUserCAKeys` at every login (`file`); `LetsIn` says whose certificate it
accepts. The hosts have a drop-in directory for sshd. `EnsureCA` and the rest of a cycle
(AgentAccounts) are specified apart: all they share is that a failing `EnsureCA` ends the cycle, which is
one of the failing calls there.

Left out: the deletion of keys and authorities in the admin, an authority added by hand (which
gets its key pair when it is first used), the certificates of shell sessions, object permissions on keys,
principals.

### Accounts

`user` and `groups` are the rows of users and their role groups; a call holds the copy of a row (`new`) and
its next statement. `CreateUser`, `UpdateUser`, `EnsureAdmin` and `CreateAdmin` are the calls up to the first
statement that writes; `InsertUser`, `RemoveGroups`, `AddGroup` and `SaveUser` are the statements, each
committed by itself. The role of `CreateUser` may be one that `set_user_role` refuses (`operator`, `auditor`):
`InsertUser` has inserted the user by then, active and in no group, and the call ends. `SaveUser` fails if another user has taken the username since it was checked. `OpenForm`
and `SaveForm` are the admin form, which commits flags and groups at once. `AskErasure` and `InsertErasure`
are the form of the profile, `Review` and `SaveReview` the review in the admin site, with `Process` for
`ErasureRequest.process`. `made`, `asked`, `mixed` and `accepted` are history variables. Passwords, names and
default object permissions are left out.

### ShellSession

One connection of the web shell. `pc` is the await at which the handler of the consumer is; channels runs the
handlers of one consumer one after another, so `Disconnect` begins only between handlers. Beside it run the
thread that makes the keys (`MakeKeys`), ssh (`LoadKeys`, `Exit`), the reader task (`ReadEof`), the client
(`Type`, `Leave`), the rest of Keywarden, which changes permissions (`Change`), and daphne, which cancels a
consumer that has not ended ten seconds after its socket closed (`Kill`). `Collect` is the finaliser of the
`TemporaryDirectory`. A certificate is not told from its key; the data that goes through is left out.

### AuditRules

`rule` is the catalog of event types, `cache[p][k]` the list that process `p` keeps for the kind `k` with its
age, `call[p]` the request it serves. `Request` takes the time and consults the cache, `Query` reads the
catalog, `Store` puts the list into the cache with the time taken before, and `Write` inserts the log, or
fails silently if the event type was deleted meanwhile. `SaveRule` and `DeleteRule` are the admin site: the
catalog changes and the signal handler clears the cache of the process that serves the form. A row is the
number of its primary key, taken to be in the order of `key`. What an event type matches is a set of classes
of requests: the syntax of patterns and address lists, and the script of the form
(`static/audit/eventtype_form.js`), which puts a suggested pattern into the text once, are left out.

## 3. The runs

| Run | Specification | Instance | Shows |
|---|---|---|---|
| `access_overlap` | `Spec` | 2 users (one may be erased), 1 server, 1 request that the form may hand from one to the other, 2 workers, the task; 2 calls at a time; deletions; a crash | permissions are backed by an approval and, unless astray, are those of the approved rows; approvals name who decided; requesters see the rows created for them |
| `access_control` | `ACSpec` | 1 user, 2 servers, one with its agent, 1 request that the form may move, 1 worker and the task, 2 calls at a time, a deletion, a crash | every overdue approval stops being one; ServerAccess is implemented |
| `access_stale_sync` | `Spec` | 1 request, 2 calls at a time | a violation: `PermissionsEndWithApprovals` fails |
| `agent_faults` | `FairSpec` | 2 users, 2 usernames, 3 changes, 2 failures, 1 crash, torn files | recorded accounts exist; lasting access leads to an account; without failures, the state file names the enabled accounts exactly, and they end with the access |
| `log_shipping` | `FairSpec` | 4 entries in batches of 2, 3 failures, 1 crash, 1 vacuum, torn files | the cursor skips nothing but what is given up, the spool is bounded, LogDelivery is implemented, entries arrive |
| `enrollment` | `Spec` | 2 agents (one without a hostname), 2 tokens, 2 servers, 2 workers, 2 authorities, a timeout or a crash | tokens that are not raced are used once; tokens are spent only on servers; files match |
| `host_trust` | `FairSpec` | 1 key, 1 host, 2 workers, 2 authorities, 1 edit of an authority, 1 failure | authorities in use are saved; users with an active key get in time and again; users with a revoked key are shut out |
| `accounts` | `Spec` | 2 users, 2 usernames, 2 workers, 4 calls, 1 crash, 2 erasure requests | nobody is administrator by accident; calls that do not overlap leave what was asked for; nobody who was given a role loses the group |
| `erasure_ignored` | `Spec` | 1 user, 1 worker, 3 calls | a violation: `ReviewsTakeEffect` fails |
| `shell_session` | `FairSpec` | 2 changes of permissions, a consumer that daphne may cancel | ssh needs both permissions; keys do not stay; no process is left; sessions end |
| `shell_key_race` | `Spec` | nothing changes | a violation: `SshFindsItsKey` fails |
| `audit_rules` | `FairSpec` | 2 processes, 2 event types, 2 edits, entries that last 2 ticks | young entries are up to date; the editor's process goes by a change at once, the others in the end |

### What the violations say

- `access_stale_sync`: a request is approved, and the second sync of that call has its answer, that the
  approval is there. Another call revokes the request; its two syncs remove the permission. Then the first
  call assigns it again. Every call has returned, no request of the user for the server is approved, and
  the permission is there, though `routers/access.py:173-174` says that revocations update it. No later step
  removes it, since the task looks at approved rows only: the user keeps access after the revocation.
- `erasure_ignored`: the form of the admin site assigns the status `processed` to the instance, and
  `save_model` then calls `process()`, which does nothing for a processed instance; `save_model` returns
  without saving. Nobody is anonymised, and the request stays pending.
- `shell_key_race`: `create_subprocess_exec` returns when ssh has been executed; the consumer removes the
  key files at once, and ssh, which opens the private key when it authenticates, finds none.

More of what the code does against a sentence of its documentation is in the passing runs, where the property
names the case it leaves out (`PROJECT.json` lists each as a hazard): the two races of a token
(`TokenSingleUse`), and a user created with a role that is refused (`RolesAreNotLost`). One has no property:
`update_request` says that an owner cancels "only while pending" (`routers/access.py:172`), and checks it on a
copy, so that a cancellation saved late overwrites the decision of an administrator. `OwnerCancel` and `Save`
model it as it is.

### The bounds

- Two calls at a time (`MaxOverlap`) are what a stale copy needs; the state a third could disturb is the
  same row or permission. One request and two pairs are what an edit needs, which takes the row from one to
  the other: two users in `access_overlap`, two servers in `access_control`. Several requests for one pair, on
  all of which its permission depends, do not fit beside that; the invariants of `access_overlap` and the
  safety half of `EndToEnd` are theorems for any number of requests, users and servers and any overlap.
- A clock of two values puts an expiry after and at the present, the two answers of its comparisons.
- `MaxFailures` counts failing commands, calls and writes, `MaxCrashes` deaths: three failures are what a
  second spool file would take (a batch spooled, a drain that fails, a batch spooled again), two or one
  elsewhere are enough to fail and fail again while recovering.
- Batches of two in four entries make a full batch, a partial one and an empty one.
- In `host_trust` two authorities are what two workers construct at the same time, and what an edit
  switches between; `Room` keeps an administrator from deactivating the last one if the numbers left would
  not suffice. One worker serves the agents, `create_key` and `delete_key`, the other the rest (`Serves`):
  every pair of handlers that overlaps on an authority, and a revocation on a download or an edit, is
  still there. Two edits by different workers are not.
- In `enrollment` two workers are what the races of a token need. The second server lets a token enroll again
  after its first server was deleted or belongs to another.

- Four calls in `accounts` create two users and let two more calls on them overlap; two usernames are what
  a conflict needs.
- In `agent_faults` three changes grant, withdraw and rename, or grant, withdraw and grant again within a
  cycle.
- A life of two ticks in `audit_rules` tells an entry that is fresh from one that is old and one that is
  done for; two edits let a list be read between them.

`CHECK_DEADLOCK FALSE` is set for `access_overlap`, where the row may be deleted, its key used up and a
user erased; for `accounts` and `erasure_ignored`, whose calls are bounded; and for the session of the web
shell, which ends. Symmetry is used in safety runs only.

### Fairness

- AccessRequests: a call runs to its end, nothing in it waits but for a row lock, and PostgreSQL queues
  the waiters of a lock, hence strong fairness of `Serve` and `Sweep`. Celery beat starts the task every
  60 seconds (`settings/base.py`), hence fairness of `SweepStart`; it is strong only because
  `MaxOverlap` makes the task wait for a place, which the code does not. Users and administrators owe
  nothing, and the clock may stop.
- AccessControl: the same, and the agent goes on with its cycles (weak fairness of `Synchronise`).
- ShellSession: the event loop resumes a handler whose await is over, the thread ends since ssh-keygen asks
  nothing, the reader reads on and ssh opens its files when it starts: weak fairness of each. The client may
  stay for ever, and the remote shell may never end.
- AuditRules: time passes, and a process that serves a request comes to its end (weak fairness of `Tick` and
  `Audit`); nothing is assumed of requests, edits and restarts.
- HostTrust: calls run to their end (weak fairness of `Serve` and `EnsureCA`). Agents ask in every cycle
  and users download when their certificate does not let them in; either may find the workers busy, but
  not for ever, hence strong fairness of `Ask` and of downloads. Certificates come to their end.
  Administrators owe nothing; their edits and the failures are bounded.
- AgentAccounts and LogShipping: the ticker starts cycle after cycle and a cycle runs to its end, hence
  weak fairness of the agent's steps together. Failures and crashes are bounded, so that they end at some
  time; liveness says nothing about a host on which a command fails for ever.

## 4. The proofs

TLAPS proves these for all values of the constants that satisfy the assumptions of the module (sets of
any size, any bounds, any overlap).

`AccessRequests_proofs` is about any overlap, any crash, deletion and edit; no theorem assumes that calls come
one by one. It has three parts. The first is `TypeCorrect`, `NoGrantWithoutApproval`, `ApprovalsNameDecider` and
`OwnersKeepSight`. None of the properties is inductive, since they speak of committed rows while calls carry
copies and answers. The invariant `IInv` adds what the calls hold: `CallsWellFormed` (a call at a statement
about a row has a row and a pair, writes a real status, and alone holds the lock of its row),
`ApprovalsRecorded` (a positive answer about to be acted on belongs to a pair some commit approved, or to the
row this very transaction commits), `CopiesAttributed` (a copy that says approved says who decided). One
lemma per property shows that every action preserves it.

The second is `PermissionsFollowApprovals` (`SettledAgreement`). Its invariant `AgreeInv` adds `AnswersHold`: an
answer that no change of the approvals has overtaken is still worth something, a positive one has an approved
row behind it, which may have run out since, and after a negative one no approval counts; of a transaction, the
same with the row it is about to commit. A step that writes a row either leaves the approvals of a pair as they
were (`Unshaken`), or marks the processes that hold an answer about it (`Commit`), and makes it astray unless
it goes on to sync it. So a sync that nothing overtook brings the permission of its pair in line, and between
syncs `Agreement` has nothing to lose.

The third part is about AccessControl. `ServerAccessImplemented` is the safety part of `EndToEnd`:
initial states are mapped to initial states, `Work` to `Decide`, and a step of the agent
to `Open`, `Close` or a stutter. The mapping needs `AgreeInv` and `Tracked`: whoever the agent is about to
revoke has lapsed, and whoever is in the answer or in the state file was approved, and still has the permission
or has lapsed. A permission is lost only by users who lapse: one that an overtaken answer takes is astray.
`NoAccountWithoutApproval` says that only approved users have
an account that lets them in (`Known` says so of the answer as well). `AccountsMatchStateFile` is the theorem
`NoAccountEscapes` below for the composition, where the server changes its mind during a cycle; `Following`
says who is let in at each phase of the cycle.

`AgentAccounts_proofs`: `AgentTypeCorrect` and `RecordsAreTrue` under any failures and crashes, from
`LoopsWellFounded` (users counted as present have an account under the name they are reported with).
`NoAccountEscapes`, under any faults but for `LockOnRevoke`, says of the behaviours up to the first fault
(`Clean`) that between cycles the enabled accounts are those in the state file. One direction adds
`AccountedFor`, which says for each phase of the cycle which map holds an enabled account; `Only` restricts it
to users with one account, and `Renaming` is the exception in the middle of a cycle that gives a renamed user
another one. The other direction, `TrackedAccountsOpen`, holds under any policy and any renaming; its invariant
`Opened` says which users have their account already, and that the two loops concern different users.

`LogShipping_proofs`: `ShippingTypeCorrect`, `CursorSkipsNothing`, `SpoolBounded` and the refinement
`AgentDeliversLogs`, from `WithinJournal` (nothing is known of entries beyond the tail), `SpoolDrained`
(past the drain the spool is empty), `BatchFollows` (the batch held follows the cursor, unless that
was vacuumed, and is accepted when the cursor is about to be written) and `PassedAccepted` (what a cycle has read
or passed is accepted or given up). `ChainAccepted`, that the chain of LogDelivery is accepted, serves the
refinement.

`HostTrust_proofs`: `TrustTypeCorrect` and `AuthoritiesAreSaved`, for any number of workers and any
division of the handlers. The invariant adds `CallsWellFormed` (a call past the selection has an
authority, one about to load, sign or save has a key) and `SavedBeforeUse` (the authority of a call about
to sign is in the database); the step of `Sign` would not preserve `AuthoritiesRecorded` without it. `RevokedKeysGetNothing` is the safety
core of `RevokedKeptOut`, an action property: once no download is being served that began while the key was
active, its user gets no certificate that has not come to its end. It takes that reading a certificate is a
download's statement (`OnlyDownloadsRead`); without the exception for downloads in progress it is false.

`ShellSession_proofs`: `SessionTypeCorrect`, `NoShellWithoutPermissions`, `KeysDoNotStay` and
`ConsumersReapTheirProcess`, for any number of changes and cancellations. The invariant says what is known at
each await: which permissions were seen, whether the thread, the keys and the process can be there.

`Accounts_proofs`: `AccountTypeCorrect`, `NoPrivilegeByAccident`, `RolesSurviveOverlap` and
`SerialUpdatesSettle`, for any users, names and workers, overlaps and crashes. The invariant of the first two
adds `WellFormed` (a call that changes a user names the user and, up to the change of groups, a role; a review
names its request) and the second part of `Promoted`: whoever holds the flag in a copy, or is about to add the
group, acts on a user that was made administrator. The last two rest on `SettleInv`. `CallsOnUsers`: a call
that changes a user has a copy with a name, and the user exists once it is inserted. `RolesKept`: a user who was
given a role has a group, or a call is about to add one, whichever call took the group away. `Settling`: of a
user whose calls came one by one, the row and the groups are those asked for last (`SettledAs`), or the one
call in progress carries what is missing (`Underway` says what, statement by statement).
The assumption `NamesAssumption` says that `None`, which stands for no user as well, is none of the users.

`AuditRules_proofs`: `CacheTypeCorrect`, `YoungListsAreTrue` and `EditorsSeeTheirChange`, for any event
types, processes and life of an entry. The invariant adds `ListsAgree`: the list that a request is about to
store is the catalog if the time it took is younger than the last change, or if its own process made that
change (it serves one thing at a time, so that it read the list afterwards). That the first event type in the
order of the keys exists is the least-number principle, from the well-foundedness of the natural numbers.

`Enrollment_proofs`: `EnrollmentTypeCorrect` and `RunningAgentsMatch` for any number of workers, from an
invariant that says which files an agent has written at each step of its bootstrap (`BootstrapsOnce`,
`FilesComplete`: the server id comes last, and with it no further enrollment), that an agent waits for one
call only (`CallsWellFormed`), and that every certificate which an agent has is the one in the row of its
server (`AnswersRecorded`), since a server is enrolled once (`FreshServers`). `TokensBuyServers` and `TokensUsedOnce` hold for any number of
workers as well, from `MarksEnrolled` (a mark, in the row or in the copy of a form, is of a token that enrolled
a server) and `TokensOnce` (of a token that is not raced at most one call is between its check and its commit,
none once a server is enrolled, and then the mark is there). Without the exception for raced tokens the second
is false with two workers.

Only model-checked: liveness, which is out of the reach of the prover (`ExpirySwept`, the
convergence in `EndToEnd`, `GrantedGetsAccount`, `CleanRevocation`, `LogsDelivered`, `UsersGetIn`,
`RevokedKeptOut`, `SessionsEnd`, `ChangesReachAll`). Every invariant and action property of a passing run is
stated by a theorem. The properties of the runs that expect a violation are false.

## 5. What is not modelled, and what is left to do

Theorem to add: a cycle that runs on an answer nobody changes meanwhile leaves exactly the users with the
permission an account that lets them in (it takes a history variable for the changes).

Not modelled:

- Server inventory: a heartbeat updates the addresses of one row under unique constraints. Two hosts that
  swap addresses get 409 until an administrator moves one (a hazard without a property).
- `sync_object_perms` and the default object permissions of roles: a repair command that assigns what the
  signal handlers assign.
- System usernames: `render_system_username` and `renderUsername` work on strings character by character; the
  cut to 32 characters may take the user id (a hazard without a property).
- `Erase` of AccessRequests and KeyCertificates is what `_anonymize_user` does; its one caller, the admin
  site, does not get that far (see `erasure_ignored`). It is kept, since the method is what the page of the
  profile promises.
- The deletion of users, and of keys and authorities in the admin site.
- Telemetry, the dashboard and the theme (they count and show rows), authentication and routing by
  libraries, the parsing and classification of log lines, host detection, settings and nginx.
- The scripts under `app/static`: but for the form helper of event types they are collected from libraries
  (Django admin, REST framework, Unfold, xterm).
