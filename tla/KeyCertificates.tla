-------------------------- MODULE KeyCertificates --------------------------
(***************************************************************************)
(* SSH keys, their certificates and the user certificate authorities:      *)
(* apps/keys, app/keywarden/api/routers/keys.py, the key form of           *)
(* apps/accounts/views.py and the endpoint from which agents get the       *)
(* public key of the authority.                                            *)
(*                                                                         *)
(* A call is a series of statements in autocommit: it loads a key, changes *)
(* its copy and saves every column; it selects an authority or constructs  *)
(* one, saves it, signs and stores the certificate.  Only create_key is a  *)
(* transaction.  A certificate is the authority that signed it; an         *)
(* authority is the number of its created_at.                              *)
(***************************************************************************)
EXTENDS Naturals, FiniteSets

CONSTANTS
    Keys,           \* public keys, each of one user
    Hosts,          \* enrolled servers
    Workers,        \* processes that serve calls
    Serves,         \* the handlers each of them serves: all, in the code
    Nothing,        \* the key of a call without one, the host of a call without one
    MaxCAs,         \* bound on the authorities constructed
    MaxEdits,       \* bound on the edits of authorities
    MaxFaults       \* bound on everything that fails

ASSUME NothingAssumption == Nothing \notin Keys \cup Hosts
ASSUME LimitsAssumption == MaxCAs \in Nat /\ MaxEdits \in Nat /\ MaxFaults \in Nat

VARIABLES
    key,        \* the row of each key: none, or is_active
    cert,       \* the certificate of each key, ca = 0 if it has none
    cas,        \* the row of each authority: none, or is_active
    born,       \* the number of authorities constructed
    call,       \* the call each worker serves
    held,       \* the certificate each user downloaded last, ca = 0 if none
    told,       \* the authority each agent was answered with, 0 if none
    edits, faults

rows == <<key, cert>>
authorities == <<cas, born>>
outside == <<held, told>>
keyVars == <<key, cert, cas, born, call, held, told, edits, faults>>

-----------------------------------------------------------------------------
CAs == 1 .. MaxCAs

\* is_active, and valid_before <= now.
Certificate == [ca : 0 .. MaxCAs, on : BOOLEAN, lapsed : BOOLEAN]

NoCertificate == [ca |-> 0, on |-> FALSE, lapsed |-> FALSE]

Signed(c) == [ca |-> c, on |-> TRUE, lapsed |-> FALSE]

\* The handlers that load a key, and the others that use the authority.
KeyOps == {"edit", "enable", "disable", "delete", "issue", "download"}
Ops == KeyOps \cup {"create", "profile", "ssh_ca"}

ASSUME ServesAssumption == Serves \in [Workers -> SUBSET Ops]

\* A call: its next statement, its subject, is_active in its copy of the key,
\* and its authority.
Call == [op : Ops \cup {"none"},
         pc : {"idle", "select", "keep", "sign", "commit", "read", "revoke", "save"},
         key : Keys \cup {Nothing}, host : Hosts \cup {Nothing},
         row : {"on", "off"}, ca : 0 .. MaxCAs]

NewCall(op, pc, k, h, row) ==
    [op |-> op, pc |-> pc, key |-> k, host |-> h, row |-> row, ca |-> 0]

Idle == NewCall("none", "idle", Nothing, Nothing, "off")

KeyTypeOK ==
    /\ key \in [Keys -> {"none", "on", "off"}]
    /\ cert \in [Keys -> Certificate]
    /\ cas \in [CAs -> {"none", "on", "off"}]
    /\ born \in 0 .. MaxCAs
    /\ call \in [Workers -> Call]
    /\ held \in [Keys -> Certificate]
    /\ told \in [Hosts -> 0 .. MaxCAs]
    /\ edits \in 0 .. MaxEdits
    /\ faults \in 0 .. MaxFaults

KeyInit ==
    /\ key = [k \in Keys |-> "none"]
    /\ cert = [k \in Keys |-> NoCertificate]
    /\ cas = [c \in CAs |-> "none"]
    /\ born = 0
    /\ call = [w \in Workers |-> Idle]
    /\ held = [k \in Keys |-> NoCertificate]
    /\ told = [h \in Hosts |-> 0]
    /\ edits = 0 /\ faults = 0

Goto(w, pc) == call' = [call EXCEPT ![w].pc = pc]
Finish(w) == call' = [call EXCEPT ![w] = Idle]

-----------------------------------------------------------------------------
(***************************************************************************)
(* The first statements of the handlers.                                   *)
(***************************************************************************)

Begin(w, op, pc, k, h, row) ==
    /\ call[w].pc = "idle" /\ op \in Serves[w]
    /\ call' = [call EXCEPT ![w] = NewCall(op, pc, k, h, row)]

\* The unique constraint of keys: an INSERT waits for the transaction that
\* inserts the same key.
Inserting(k) == \E w \in Workers : call[w].op = "create" /\ call[w].key = k

\* create_key opens a transaction and inserts the key in it.
Create(w, k) ==
    /\ key[k] = "none" /\ ~Inserting(k)
    /\ Begin(w, "create", "select", k, Nothing, "off")
    /\ UNCHANGED <<rows, authorities, outside, edits, faults>>

\* The key form of the profile commits the key before its certificate is issued.
ProfileCreate(w, k) ==
    /\ key[k] = "none" /\ ~Inserting(k)
    /\ key' = [key EXCEPT ![k] = "on"]
    /\ Begin(w, "profile", "select", k, Nothing, "off")
    /\ UNCHANGED <<cert, authorities, outside, edits, faults>>

\* Where each handler goes once it has loaded its key.
AfterLoad(op) ==
    CASE op = "edit" -> "save"
      [] op = "enable" -> "select"
      [] op = "disable" -> "revoke"
      [] op = "delete" -> "save"
      [] op = "issue" -> "select"
      [] op = "download" -> "read"

\* The copy a handler will save.  An edit is a change of the name, or the admin
\* form, which may set is_active but leaves the certificate alone.
NewRow(op, k) ==
    CASE op = "edit" -> {"on", "off"}
      [] op = "enable" -> {"on"}
      [] OTHER -> {"off"}

\* Variant of Load: a download does not look at is_active.
Load_AnyDownload(w, k, op) ==
    /\ key[k] # "none"
    /\ op = "delete" => key[k] = "on"
    /\ \E row \in NewRow(op, k) : Begin(w, op, AfterLoad(op), k, Nothing, row)
    /\ UNCHANGED <<rows, authorities, outside, edits, faults>>

\* A handler loads its key.  A download of a revoked key is refused, and
\* there is nothing to delete.
Load(w, k, op) ==
    /\ key[k] # "none"
    /\ op \in {"delete", "download"} => key[k] = "on"
    /\ \E row \in NewRow(op, k) : Begin(w, op, AfterLoad(op), k, Nothing, row)
    /\ UNCHANGED <<rows, authorities, outside, edits, faults>>

\* An agent asks for the user authority.
Ask(w, h) ==
    /\ told[h] = 0
    /\ \A v \in Workers : call[v].host # h
    /\ Begin(w, "ssh_ca", "select", Nothing, h, "off")
    /\ UNCHANGED <<rows, authorities, outside, edits, faults>>

-----------------------------------------------------------------------------
(***************************************************************************)
(* get_active_ca and issue_certificate_for_key.                            *)
(***************************************************************************)
ActiveCAs == {c \in CAs : cas[c] = "on"}

IsNewest(c) == c \in ActiveCAs /\ \A d \in ActiveCAs : d <= c

AfterSelect(op) == IF op = "create" THEN "commit" ELSE "keep"

\* Variant of SelectCA: without an active authority none is constructed.
SelectCA_NoneMade(w) ==
    LET c == call[w] IN
    /\ c.pc = "select"
    /\ \E ca \in 0 .. MaxCAs :
          /\ IF ActiveCAs = {} THEN ca = 0 ELSE IsNewest(ca)
          /\ call' = [call EXCEPT ![w].pc = AfterSelect(c.op), ![w].ca = ca]
    /\ UNCHANGED <<rows, authorities, outside, edits, faults>>

\* The most recent active authority, or a new one, not saved yet.
SelectCA(w) ==
    LET c == call[w] IN
    /\ c.pc = "select"
    /\ \E ca \in CAs :
          /\ IF ActiveCAs = {} THEN ca = born + 1 /\ born' = ca
                               ELSE IsNewest(ca) /\ UNCHANGED born
          /\ call' = [call EXCEPT ![w].pc = AfterSelect(c.op), ![w].ca = ca]
    /\ UNCHANGED <<rows, cas, outside, edits, faults>>

\* Variant of KeepCA: an authority that was just constructed is not saved.
KeepCA_NotSaved(w) ==
    LET c == call[w] IN
    /\ c.pc = "keep"
    /\ IF c.op = "ssh_ca"
       THEN /\ told' = [h \in Hosts |-> IF h = c.host THEN c.ca ELSE told[h]]
            /\ Finish(w)
       ELSE Goto(w, "sign") /\ UNCHANGED told
    /\ UNCHANGED <<rows, authorities, held, edits, faults>>

\* The authority is saved with every column of the copy, is_active among them.
\* That is all ssh_ca does before it answers; an agent that hung up misses it.
KeepCA(w) ==
    LET c == call[w] IN
    /\ c.pc = "keep"
    /\ cas' = [cas EXCEPT ![c.ca] = "on"]
    /\ IF c.op = "ssh_ca"
       THEN /\ told' = [h \in Hosts |-> IF h = c.host THEN c.ca ELSE told[h]]
            /\ Finish(w)
       ELSE Goto(w, "sign") /\ UNCHANGED told
    /\ UNCHANGED <<rows, born, held, edits, faults>>

\* The certificate replaces that of the key; a download answers with it.
Sign(w) ==
    LET c == call[w] IN
    /\ c.pc = "sign"
    /\ cert' = [cert EXCEPT ![c.key] = Signed(c.ca)]
    /\ held' = IF c.op = "download" THEN [held EXCEPT ![c.key] = Signed(c.ca)] ELSE held
    /\ IF c.op = "enable" THEN Goto(w, "save") ELSE Finish(w)
    /\ UNCHANGED <<key, authorities, told, edits, faults>>

\* create_key saves the authority, signs, stores the certificate and commits.
Commit(w) ==
    LET c == call[w] IN
    /\ c.pc = "commit"
    /\ key' = [key EXCEPT ![c.key] = "on"]
    /\ cert' = [cert EXCEPT ![c.key] = Signed(c.ca)]
    /\ cas' = [cas EXCEPT ![c.ca] = "on"]
    /\ Finish(w)
    /\ UNCHANGED <<born, outside, edits, faults>>

-----------------------------------------------------------------------------
(***************************************************************************)
(* The other statements.                                                   *)
(***************************************************************************)

\* Variant of ReadCert: the end of the certificate is not looked at.
ReadCert_NoExpiry(w) ==
    LET k == call[w].key IN
    /\ call[w].pc = "read"
    /\ IF cert[k].ca # 0 /\ cert[k].on
       THEN held' = [held EXCEPT ![k] = cert[k]] /\ Finish(w)
       ELSE Goto(w, "select") /\ UNCHANGED held
    /\ UNCHANGED <<rows, authorities, told, edits, faults>>

\* _ensure_certificate: the stored certificate, or a new one.
ReadCert(w) ==
    LET k == call[w].key IN
    /\ call[w].pc = "read"
    /\ IF cert[k].ca # 0 /\ cert[k].on /\ ~cert[k].lapsed
       THEN held' = [held EXCEPT ![k] = cert[k]] /\ Finish(w)
       ELSE Goto(w, "select") /\ UNCHANGED held
    /\ UNCHANGED <<rows, authorities, told, edits, faults>>

\* revoke_certificate_for_key.
RevokeCert(w) ==
    LET c == call[w] IN
    /\ c.pc = "revoke"
    /\ cert' = [cert EXCEPT ![c.key].on = FALSE]
    /\ IF c.op = "disable" THEN Goto(w, "save") ELSE Finish(w)
    /\ UNCHANGED <<key, authorities, outside, edits, faults>>

\* save() of the key; delete_key goes on to revoke the certificate.
SaveKey(w) ==
    LET c == call[w] IN
    /\ c.pc = "save"
    /\ key' = [key EXCEPT ![c.key] = c.row]
    /\ IF c.op = "delete" THEN Goto(w, "revoke") ELSE Finish(w)
    /\ UNCHANGED <<cert, authorities, outside, edits, faults>>

Fault == faults < MaxFaults /\ faults' = faults + 1

\* ssh-keygen fails or the worker is killed: what is committed stays.
Abort(w) ==
    /\ call[w].pc # "idle"
    /\ Fault
    /\ Finish(w)
    /\ UNCHANGED <<rows, authorities, outside, edits>>

\* An agent gives up; its call goes on.
HangUp(w) ==
    /\ call[w].host # Nothing
    /\ Fault
    /\ call' = [call EXCEPT ![w].host = Nothing]
    /\ UNCHANGED <<rows, authorities, outside, edits>>

\* The erasure of the user of a key, one transaction. Its one caller, the admin
\* site, does not get that far (see Accounts).
Erase(k) ==
    /\ key[k] # "none"
    /\ key' = [key EXCEPT ![k] = "off"]
    /\ cert' = [cert EXCEPT ![k].on = FALSE]
    /\ UNCHANGED <<authorities, call, outside, edits, faults>>

\* The numbers left suffice for all workers to construct an authority.
Room(active) == active # {} \/ born + Cardinality(Workers) <= MaxCAs

\* The admin form of an authority.
EditCA(c) ==
    /\ cas[c] # "none"
    /\ Room(ActiveCAs \ {c})
    /\ edits < MaxEdits
    /\ edits' = edits + 1
    /\ cas' = [cas EXCEPT ![c] = IF @ = "on" THEN "off" ELSE "on"]
    /\ UNCHANGED <<rows, born, call, outside, faults>>

\* The certificate of a key comes to its end, and with it the copy of its user.
Lapse(k) ==
    /\ cert[k].ca # 0 /\ ~cert[k].lapsed
    /\ cert' = [cert EXCEPT ![k].lapsed = TRUE]
    /\ held' = [held EXCEPT ![k].lapsed = held[k].ca # 0]
    /\ UNCHANGED <<key, authorities, call, told, edits, faults>>

-----------------------------------------------------------------------------
\* The statements of a call after its first.
Serve(w) ==
    \/ SelectCA(w) \/ KeepCA(w) \/ Sign(w) \/ Commit(w)
    \/ ReadCert(w) \/ RevokeCert(w) \/ SaveKey(w)

KeyNext ==
    \/ \E w \in Workers :
          \/ \E k \in Keys : Create(w, k) \/ ProfileCreate(w, k)
          \/ \E k \in Keys, op \in KeyOps : Load(w, k, op)
          \/ \E h \in Hosts : Ask(w, h)
          \/ Serve(w)
          \/ Abort(w)
          \/ HangUp(w)
    \/ \E k \in Keys : Erase(k) \/ Lapse(k)
    \/ \E c \in CAs : EditCA(c)

KeySpec == KeyInit /\ [][KeyNext]_keyVars

=============================================================================
