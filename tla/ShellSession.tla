----------------------------- MODULE ShellSession -----------------------------
(***************************************************************************)
(* One connection to the web shell (app/apps/servers/consumers.py): the    *)
(* consumer that daphne runs for it, the directory and the key pair it     *)
(* makes, the ssh process it starts, and the task that reads its output.   *)
(*                                                                         *)
(* Connections share nothing but the permissions.  The handlers of one     *)
(* consumer run one after another, and each is cut into steps at its       *)
(* awaits; ssh, the thread that makes the keys, the reader task, the       *)
(* client and daphne run beside it.                                        *)
(***************************************************************************)
EXTENDS Naturals

CONSTANTS
    MaxChanges,     \* bound on the changes of the permissions
    MaxKills        \* bound on the consumers that daphne cancels: 0 or 1

ASSUME BoundsAssumption == MaxChanges \in Nat /\ MaxKills \in Nat

VARIABLES
    perms,      \* what the user holds on the server: view, shell
    pc,         \* the consumer: its handler and the await it is at
    socket,     \* the websocket
    inbox,      \* whether a message of the client waits for receive()
    dir, keys,  \* whether the directory and the key files exist
    thread,     \* whether _generate_session_keypair is running
    ssh,        \* the process
    reader,     \* the reader task
    held,       \* history: permissions held at some time of the connection
    changes, kills

files == <<dir, keys>>
counters == <<changes, kills>>
vars == <<perms, pc, socket, inbox, files, thread, ssh, reader, held, counters>>

-----------------------------------------------------------------------------
\* view .. accept   connect(): the query of the server, of the right to a
\*                  shell, of the username; accept and the audit of it
\* keys .. remove   _start_ssh()
\* open             between two handlers
\* write            receive(), in drain()
\* audit, reap      disconnect(): the audit, the wait for the process
\* done, dead       ended by disconnect(); ended by an exception
TypeOK ==
    /\ perms \in SUBSET {"view", "shell"}
    /\ pc \in {"view", "shell", "name", "accept", "keys", "spawn", "remove",
               "open", "write", "audit", "reap", "done", "dead"}
    /\ socket \in {"connecting", "open", "closed"}
    /\ inbox \in BOOLEAN
    /\ dir \in BOOLEAN /\ keys \in BOOLEAN /\ thread \in BOOLEAN
    /\ ssh \in {"none", "starting", "running", "exited"}
    /\ reader \in {"none", "running", "ended"}
    /\ held \in SUBSET {"view", "shell"}
    /\ changes \in 0 .. MaxChanges
    /\ kills \in 0 .. MaxKills

Init ==
    /\ perms \in SUBSET {"view", "shell"}
    /\ pc = "view"
    /\ socket = "connecting"
    /\ inbox = FALSE
    /\ dir = FALSE /\ keys = FALSE /\ thread = FALSE
    /\ ssh = "none"
    /\ reader = "none"
    /\ held = perms
    /\ changes = 0 /\ kills = 0

Alive == ssh \in {"starting", "running"}
Ended == pc \in {"done", "dead"}

-----------------------------------------------------------------------------
(***************************************************************************)
(* connect().                                                              *)
(***************************************************************************)

\* A check is passed. The socket may be closed by now: only disconnect() looks.
Pass(from, to) ==
    /\ pc = from
    /\ pc' = to
    /\ UNCHANGED <<perms, socket, inbox, files, thread, ssh, reader, held, counters>>

\* close(code) and return.
Refuse(from) ==
    /\ pc = from
    /\ pc' = "open"
    /\ socket' = "closed"
    /\ UNCHANGED <<perms, inbox, files, thread, ssh, reader, held, counters>>

\* Variant of CheckShell: who may see the server may use the shell.
CheckShell_ViewSuffices ==
    \/ perms # {} /\ Pass("shell", "name")
    \/ perms = {} /\ Refuse("shell")

\* _get_server with has_perm, and user_can_shell: two queries, each against the
\* permissions and the clock of its own time.
CheckView ==
    \/ "view" \in perms /\ Pass("view", "shell")
    \/ "view" \notin perms /\ Refuse("view")

CheckShell ==
    \/ "shell" \in perms /\ Pass("shell", "name")
    \/ "shell" \notin perms /\ Refuse("shell")

\* The account and an address of the server: there may be none.
FindTarget == Pass("name", "accept") \/ Refuse("name")

\* accept(), the audit; then _start_ssh makes the directory and starts the
\* thread.
Accept ==
    /\ pc = "accept"
    /\ socket' = IF socket = "connecting" THEN "open" ELSE socket
    /\ dir' = TRUE
    /\ thread' = TRUE
    /\ pc' = "keys"
    /\ UNCHANGED <<perms, inbox, keys, ssh, reader, held, counters>>

\* The thread ends, with the key pair and its certificate. A cancelled consumer
\* does not stop it; without the directory it fails.
MakeKeys ==
    /\ thread
    /\ thread' = FALSE
    /\ keys' = dir
    /\ pc' = IF pc = "keys" THEN "spawn" ELSE pc
    /\ UNCHANGED <<perms, socket, inbox, dir, ssh, reader, held, counters>>

\* _start_ssh raises: connect() says so and closes. What was made stays.
StartFails ==
    /\ pc' = "open"
    /\ socket' = "closed"
    /\ UNCHANGED <<perms, inbox, dir, ssh, reader, held, counters>>

\* No authority, no ssh-keygen, or no signature: with or without the keys.
KeysFail ==
    /\ pc = "keys"
    /\ thread
    /\ thread' = FALSE
    /\ keys' \in BOOLEAN
    /\ StartFails

SpawnFails == pc = "spawn" /\ StartFails /\ UNCHANGED <<keys, thread>>

\* create_subprocess_exec returns when ssh has been executed.
Spawn ==
    /\ pc = "spawn"
    /\ ssh' = "starting"
    /\ pc' = "remove"
    /\ UNCHANGED <<perms, socket, inbox, files, thread, reader, held, counters>>

\* Variant of RemoveKeys: the files are left to disconnect().
RemoveKeys_Later ==
    /\ pc = "remove"
    /\ reader' = "running"
    /\ pc' = "open"
    /\ UNCHANGED <<perms, socket, inbox, files, thread, ssh, held, counters>>

\* The files are removed at once, and the reader task is created.
RemoveKeys ==
    /\ pc = "remove"
    /\ keys' = FALSE
    /\ reader' = "running"
    /\ pc' = "open"
    /\ UNCHANGED <<perms, socket, inbox, dir, thread, ssh, held, counters>>

-----------------------------------------------------------------------------
(***************************************************************************)
(* receive() and the reader task.                                          *)
(***************************************************************************)

\* Without a process the message is dropped.
Receive ==
    /\ pc = "open"
    /\ inbox
    /\ inbox' = FALSE
    /\ pc' = IF ssh = "none" THEN "open" ELSE "write"
    /\ UNCHANGED <<perms, socket, files, thread, ssh, reader, held, counters>>

Drain ==
    /\ pc = "write"
    /\ pc' = "open"
    /\ UNCHANGED <<perms, socket, inbox, files, thread, ssh, reader, held, counters>>

\* The process is gone: drain() raises, the consumer ends without disconnect(),
\* and daphne closes the socket.
DrainFails ==
    /\ pc = "write"
    /\ ssh = "exited"
    /\ pc' = "dead"
    /\ socket' = "closed"
    /\ UNCHANGED <<perms, inbox, files, thread, ssh, reader, held, counters>>

\* Variant of ReadEof: the task ends and leaves the socket open.
ReadEof_KeepsSocket ==
    /\ reader = "running"
    /\ ssh = "exited"
    /\ reader' = "ended"
    /\ UNCHANGED <<perms, pc, socket, inbox, files, thread, ssh, held, counters>>

\* _stream_output reads the end of the output and closes the socket.
ReadEof ==
    /\ reader = "running"
    /\ ssh = "exited"
    /\ reader' = "ended"
    /\ socket' = "closed"
    /\ UNCHANGED <<perms, pc, inbox, files, thread, ssh, held, counters>>

-----------------------------------------------------------------------------
(***************************************************************************)
(* disconnect(), for whatever reason the socket was closed. Messages that  *)
(* came before are served first.                                           *)
(***************************************************************************)
Disconnect ==
    /\ pc = "open"
    /\ socket = "closed"
    /\ ~inbox
    /\ pc' = "audit"
    /\ UNCHANGED <<perms, socket, inbox, files, thread, ssh, reader, held, counters>>

\* Variant of StopReader: the task is left in the act of ending.
StopReader_Cancelling ==
    /\ pc = "audit"
    /\ reader' = IF reader = "running" THEN "cancelling" ELSE reader
    /\ IF Alive
       THEN pc' = "reap" /\ UNCHANGED files
       ELSE pc' = "done" /\ dir' = FALSE /\ keys' = FALSE
    /\ UNCHANGED <<perms, socket, inbox, thread, ssh, held, counters>>

\* The reader is cancelled, and a process that has not exited terminated.
StopReader ==
    /\ pc = "audit"
    /\ reader' = IF reader = "running" THEN "ended" ELSE reader
    /\ IF Alive
       THEN pc' = "reap" /\ UNCHANGED files
       ELSE pc' = "done" /\ dir' = FALSE /\ keys' = FALSE
    /\ UNCHANGED <<perms, socket, inbox, thread, ssh, held, counters>>

\* Variant of Reap: a process that does not end in time is left alone.
Reap_NoKill ==
    /\ pc = "reap"
    /\ dir' = FALSE /\ keys' = FALSE
    /\ pc' = "done"
    /\ UNCHANGED <<perms, socket, inbox, thread, ssh, reader, held, counters>>

\* It ends within two seconds or is killed; then the directory is removed.
Reap ==
    /\ pc = "reap"
    /\ ssh' = "exited"
    /\ dir' = FALSE /\ keys' = FALSE
    /\ pc' = "done"
    /\ UNCHANGED <<perms, socket, inbox, thread, reader, held, counters>>

-----------------------------------------------------------------------------
(***************************************************************************)
(* The others.                                                             *)
(***************************************************************************)

\* A permission is assigned or removed, or the approval of a shell runs out.
Change(p) ==
    /\ changes < MaxChanges
    /\ changes' = changes + 1
    /\ perms' = IF p \in perms THEN perms \ {p} ELSE perms \cup {p}
    /\ held' = held \cup perms'
    /\ UNCHANGED <<pc, socket, inbox, files, thread, ssh, reader, kills>>

Type ==
    /\ socket = "open"
    /\ inbox' = TRUE
    /\ UNCHANGED <<perms, pc, socket, files, thread, ssh, reader, held, counters>>

Leave ==
    /\ socket # "closed"
    /\ socket' = "closed"
    /\ UNCHANGED <<perms, pc, inbox, files, thread, ssh, reader, held, counters>>

\* ssh opens its key and certificate. Without them it cannot log in and exits.
LoadKeys ==
    /\ ssh = "starting"
    /\ ssh' = IF keys THEN "running" ELSE "exited"
    /\ UNCHANGED <<perms, pc, socket, inbox, files, thread, reader, held, counters>>

\* The host refuses, or the remote shell ends.
Exit ==
    /\ ssh = "running"
    /\ ssh' = "exited"
    /\ UNCHANGED <<perms, pc, socket, inbox, files, thread, reader, held, counters>>

\* Ten seconds after the socket was closed, daphne cancels a consumer that is
\* still in a handler; CancelledError is no Exception, and disconnect(), if it
\* has not run to its end, never will.
Kill ==
    /\ socket = "closed"
    /\ pc \notin {"open", "done", "dead"}
    /\ kills < MaxKills
    /\ kills' = kills + 1
    /\ pc' = "dead"
    /\ UNCHANGED <<perms, socket, inbox, files, thread, ssh, reader, held, changes>>

\* Nothing refers to the consumer any more: the directory goes with the object.
Collect ==
    /\ pc = "dead"
    /\ dir
    /\ reader # "running"
    /\ dir' = FALSE /\ keys' = FALSE
    /\ UNCHANGED <<perms, pc, socket, inbox, thread, ssh, reader, held, counters>>

Consume ==
    \/ CheckView \/ CheckShell \/ FindTarget \/ Accept \/ SpawnFails \/ Spawn
    \/ RemoveKeys \/ Receive \/ Drain \/ DrainFails \/ Disconnect \/ StopReader
    \/ Reap

Background == MakeKeys \/ KeysFail \/ ReadEof \/ Collect

Next ==
    \/ Consume \/ Background
    \/ \E p \in {"view", "shell"} : Change(p)
    \/ Type \/ Leave \/ LoadKeys \/ Exit \/ Kill

Spec == Init /\ [][Next]_vars

\* The event loop resumes what can go on, the thread ends (ssh-keygen asks
\* nothing), and ssh opens its files at the start. How long the user stays, and
\* when the remote shell ends, is up to them.
FairSpec == /\ Spec
            /\ WF_vars(Consume)
            /\ WF_vars(MakeKeys \/ KeysFail) /\ WF_vars(ReadEof) /\ WF_vars(Collect)
            /\ WF_vars(LoadKeys)

-----------------------------------------------------------------------------
(***************************************************************************)
(* Properties.                                                             *)
(***************************************************************************)

\* ssh is started only for a user who could see the server and use its shell
\* while the connection lasted, though the two are asked one after the other and
\* may be withdrawn in between: "Only accept the socket after all authn/authz
\* checks have passed" (consumers.py:67).
ShellNeedsPermissions == ssh # "none" => held = {"view", "shell"}

\* The key pair never lies beside a session that streams, nor outlives its
\* consumer, unless daphne cut that off while the thread was at work.
KeysAreTransient ==
    keys => /\ reader = "none"
            /\ Ended => kills > 0

\* A consumer that ended on its own leaves no process behind, whichever of ssh,
\* the client and the reader was first to end.
NoOrphanedProcess == Ended /\ kills = 0 => ~Alive

\* When the socket is closed, by whichever side and in whatever handler, or ssh has
\* exited, for want of a login as after a session, the session comes to an end:
\* the user is not left with a dead terminal, nor the server with a process, a
\* directory or keys, unless daphne cut the consumer off.
SessionsEnd ==
    socket = "closed" \/ ssh = "exited" ~>
        (Ended /\ ~dir /\ ~keys /\ ~Alive) \/ kills > 0

\* "Delete key material immediately after the SSH process has it open"
\* (consumers.py:163): ssh finds its key as long as the client stays.
SshFindsItsKey == ssh = "starting" /\ socket = "open" => keys
=============================================================================
