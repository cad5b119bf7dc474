----------------------------- MODULE Enrollment -----------------------------
(***************************************************************************)
(* The enrollment of agents: enroll_agent of                               *)
(* app/keywarden/api/routers/agent.py with the tokens and the agent        *)
(* authority of apps/servers, and bootstrapIfNeeded of the agent           *)
(* (agent/cmd/keywarden-agent/main.go), which spends a token to get its    *)
(* server id, its client certificate and the certificate of the authority. *)
(*                                                                         *)
(* enroll_agent reads and checks the token before it opens the transaction *)
(* that inserts the server and marks the token, so calls that overlap, and *)
(* the admin form of the token, which saves the whole row, come between.   *)
(***************************************************************************)
EXTENDS Naturals, FiniteSets

CONSTANTS
    Agents, Tokens, Servers,
    Workers,        \* processes that serve calls
    Host,           \* the unique hostname each agent reports, or None
    None,
    MaxCAs,         \* bound on the authorities created
    MaxFaults       \* bound on the calls given up and the deaths of processes

ASSUME HostAssumption == None \notin Agents \cup Servers \cup Tokens
ASSUME BoundsAssumption == MaxCAs \in Nat /\ MaxFaults \in Nat

VARIABLES
    token,      \* server: the row of each token
    row,        \* server: the row of each server, or None
    ca, active, \* server: the newest agent authority, and whether it is active
    call,       \* server: the call each worker serves
    boot,       \* agent: where the bootstrap of each agent is
    reply,      \* agent: the certificate it was answered with, or None
    cert,       \* host: the client certificate, or None
    caFile,     \* host: the certificate of the authority, 0 if absent
    serverId,   \* host: server_id in the configuration, or None
    enrolled,   \* history: the servers enrolled with each token
    raced,      \* history: the tokens of overlapping enrollments, or whose mark
                \* a form took back
    faults

database == <<token, row, enrolled, raced>>
authority == <<ca, active>>
agent == <<boot, reply>>
host == <<cert, caFile, serverId>>
vars == <<token, row, ca, active, call, boot, reply, cert, caFile, serverId,
          enrolled, raced, faults>>

-----------------------------------------------------------------------------
\* A client certificate: the server it was issued for and its issuer.
Cert == [server : Servers, ca : 1 .. MaxCAs]

ASSUME NoneAssumption == None \notin Cert

\* used_at, and expires_at <= now.
TokenRow == [used : BOOLEAN, expired : BOOLEAN]

\* The hostname and the certificate of a server.
ServerRow == [host : {Host[a] : a \in Agents}, cert : Cert]

\* A call: an enrollment past its check, or in its transaction with the
\* certificate it signed; or an edit of a token.
Call == [pc : {"idle", "checked", "open", "edit"}, tok : Tokens \cup {None},
         agent : Agents \cup {None}, used : BOOLEAN,
         cert : Cert \cup {None}, heard : BOOLEAN]

Idle == [pc |-> "idle", tok |-> None, agent |-> None, used |-> FALSE,
         cert |-> None, heard |-> FALSE]

TypeOK ==
    /\ token \in [Tokens -> TokenRow]
    /\ row \in [Servers -> ServerRow \cup {None}]
    /\ ca \in 0 .. MaxCAs
    /\ active \in BOOLEAN
    /\ call \in [Workers -> Call]
    /\ boot \in [Agents -> {"stopped", "waiting", "cert", "ca", "config", "running"}]
    /\ reply \in [Agents -> Cert \cup {None}]
    /\ cert \in [Agents -> Cert \cup {None}]
    /\ caFile \in [Agents -> 0 .. MaxCAs]
    /\ serverId \in [Agents -> Servers \cup {None}]
    /\ enrolled \in [Tokens -> SUBSET Servers]
    /\ raced \in SUBSET Tokens
    /\ faults \in 0 .. MaxFaults

Init ==
    /\ token = [t \in Tokens |-> [used |-> FALSE, expired |-> FALSE]]
    /\ row = [s \in Servers |-> None]
    /\ ca = 0 /\ active = FALSE
    /\ call = [w \in Workers |-> Idle]
    /\ boot = [a \in Agents |-> "stopped"]
    /\ reply = [a \in Agents |-> None]
    /\ cert = [a \in Agents |-> None]
    /\ caFile = [a \in Agents |-> 0]
    /\ serverId = [a \in Agents |-> None]
    /\ enrolled = [t \in Tokens |-> {}] /\ raced = {}
    /\ faults = 0

-----------------------------------------------------------------------------
(***************************************************************************)
(* What administrators do, and the clock.                                  *)
(***************************************************************************)

\* save_model of a new authority deactivates the others.
NewAuthority ==
    /\ ca < MaxCAs
    /\ ca' = ca + 1 /\ active' = TRUE
    /\ UNCHANGED <<database, call, agent, host, faults>>

RevokeAuthority ==
    /\ active
    /\ active' = FALSE
    /\ UNCHANGED <<database, ca, call, agent, host, faults>>

Expire(t) ==
    /\ ~token[t].expired
    /\ token' = [token EXCEPT ![t].expired = TRUE]
    /\ UNCHANGED <<row, enrolled, raced, authority, call, agent, host, faults>>

DeleteServer(s) ==
    /\ row[s] # None
    /\ row' = [row EXCEPT ![s] = None]
    /\ UNCHANGED <<token, enrolled, raced, authority, call, agent, host, faults>>

\* The admin form of a token reads the row and saves all of its columns, the
\* mark as it read it too.
EditToken(w, t) ==
    /\ call[w].pc = "idle"
    /\ call' = [call EXCEPT ![w] =
                  [Idle EXCEPT !.pc = "edit", !.tok = t, !.used = token[t].used]]
    /\ UNCHANGED <<database, authority, agent, host, faults>>

\* An open transaction holds the lock of its token and of its hostname.
Locked(w, t) ==
    \E v \in Workers \ {w} : call[v].pc = "open" /\ call[v].tok = t

SaveToken(w) ==
    LET t == call[w].tok IN
    /\ call[w].pc = "edit"
    /\ ~Locked(w, t)
    /\ \E expired \in BOOLEAN :
          token' = [token EXCEPT ![t] = [used |-> call[w].used, expired |-> expired]]
    /\ raced' = IF token[t].used /\ ~call[w].used THEN raced \cup {t} ELSE raced
    /\ call' = [call EXCEPT ![w] = Idle]
    /\ UNCHANGED <<row, enrolled, authority, agent, host, faults>>

-----------------------------------------------------------------------------
(***************************************************************************)
(* enroll_agent.                                                           *)
(***************************************************************************)
IsValid(t) == ~token[t].used /\ ~token[t].expired

\* The reply reaches the agent only if it still waits for this very call.
Answer(w, state, answer) ==
    LET a == call[w].agent IN
    IF call[w].heard
    THEN /\ boot' = [boot EXCEPT ![a] = state]
         /\ reply' = [reply EXCEPT ![a] = answer]
    ELSE UNCHANGED agent

SameHost(a, b) == Host[a] # None /\ Host[a] = Host[b]

Taken(a) == \E s \in Servers : row[s] # None /\ Host[a] # None /\ row[s].host = Host[a]

\* The hostname exists ("Server already enrolled"), or no authority is active:
\* nothing is committed and the agent gets an error.
Refuse(w) ==
    /\ call[w].pc = "checked"
    /\ Taken(call[w].agent) \/ ~active
    /\ Answer(w, "stopped", None)
    /\ call' = [call EXCEPT ![w] = Idle]
    /\ UNCHANGED <<database, authority, host, faults>>

InUse == {s \in Servers : \/ \E t \in Tokens : s \in enrolled[t]
                          \/ \E w \in Workers : /\ call[w].cert # None
                                                /\ call[w].cert.server = s}

\* Variant of Open: the token is marked before the transaction.
Open_MarksEarly(w) ==
    LET a == call[w].agent
        t == call[w].tok
    IN  /\ call[w].pc = "checked"
        /\ ~Taken(a)
        /\ active
        /\ ~Locked(w, t)
        /\ token' = [token EXCEPT ![t].used = TRUE]
        /\ \E s \in Servers \ InUse :
              call' = [call EXCEPT ![w].pc = "open",
                                   ![w].cert = [server |-> s, ca |-> ca]]
        /\ UNCHANGED <<row, enrolled, raced, authority, agent, host, faults>>

\* Variant of Open: an authority is not asked for.
Open_NoAuthority(w) ==
    LET a == call[w].agent IN
    /\ call[w].pc = "checked"
    /\ ~Taken(a)
    /\ \E s \in Servers \ InUse :
          call' = [call EXCEPT ![w].pc = "open",
                               ![w].cert = [server |-> s, ca |-> ca]]
    /\ UNCHANGED <<database, authority, agent, host, faults>>

\* The transaction: the server is inserted, the token marked whatever it says
\* by now, and a certificate signed by the active authority.
Open(w) ==
    LET a == call[w].agent
        t == call[w].tok
    IN  /\ call[w].pc = "checked"
        /\ ~Taken(a)
        /\ active
        /\ ~Locked(w, t)
        /\ \A v \in Workers \ {w} :
              call[v].pc = "open" => ~SameHost(call[v].agent, a)
        /\ \E s \in Servers \ InUse :
              call' = [call EXCEPT ![w].pc = "open",
                                   ![w].cert = [server |-> s, ca |-> ca]]
        /\ UNCHANGED <<database, authority, agent, host, faults>>

\* Variant of Commit: the token is not marked.
Commit_KeepsToken(w) ==
    LET c == call[w] IN
    /\ c.pc = "open"
    /\ row' = [row EXCEPT ![c.cert.server] = [host |-> Host[c.agent], cert |-> c.cert]]
    /\ enrolled' = [enrolled EXCEPT ![c.tok] = @ \cup {c.cert.server}]
    /\ Answer(w, "cert", c.cert)
    /\ call' = [call EXCEPT ![w] = Idle]
    /\ UNCHANGED <<token, raced, authority, host, faults>>

Commit(w) ==
    LET c == call[w] IN
    /\ c.pc = "open"
    /\ row' = [row EXCEPT ![c.cert.server] = [host |-> Host[c.agent], cert |-> c.cert]]
    /\ token' = [token EXCEPT ![c.tok].used = TRUE]
    /\ enrolled' = [enrolled EXCEPT ![c.tok] = @ \cup {c.cert.server}]
    /\ Answer(w, "cert", c.cert)
    /\ call' = [call EXCEPT ![w] = Idle]
    /\ UNCHANGED <<raced, authority, host, faults>>

Fault == faults < MaxFaults /\ faults' = faults + 1

\* A worker is killed: its transaction is rolled back, its client gets an error.
WorkerDies(w) ==
    /\ call[w].pc # "idle"
    /\ Fault
    /\ Answer(w, "stopped", None)
    /\ call' = [call EXCEPT ![w] = Idle]
    /\ UNCHANGED <<database, authority, host>>

-----------------------------------------------------------------------------
(***************************************************************************)
(* bootstrapIfNeeded.                                                      *)
(***************************************************************************)

\* Variant of Enrolled: the server id is not asked for.
Enrolled_ByFiles(a) == cert[a] # None /\ caFile[a] # 0

Enrolled(a) == serverId[a] # None /\ cert[a] # None /\ caFile[a] # 0

Skip(a) ==
    /\ boot[a] = "stopped"
    /\ Enrolled(a)
    /\ boot' = [boot EXCEPT ![a] = "running"]
    /\ UNCHANGED <<database, authority, call, reply, host, faults>>

\* The enrollments under way that read token t as valid.
Enrolling(t) == {w \in Workers : call[w].pc \in {"checked", "open"} /\ call[w].tok = t}

\* The agent is started with a token and calls enroll_agent, which reads the
\* token and goes on if it is valid. Otherwise the agent exits as it was.
Enroll(a, t, w) ==
    /\ boot[a] = "stopped"
    /\ ~Enrolled(a)
    /\ call[w].pc = "idle"
    /\ IsValid(t)
    /\ boot' = [boot EXCEPT ![a] = "waiting"]
    /\ call' = [call EXCEPT ![w] =
                  [Idle EXCEPT !.pc = "checked", !.tok = t, !.agent = a, !.heard = TRUE]]
    /\ raced' = IF Enrolling(t) # {} THEN raced \cup {t} ELSE raced
    /\ UNCHANGED <<token, row, enrolled, authority, reply, host, faults>>

\* The agent stops waiting, by its timeout or its death; the call goes on.
GiveUp(a) ==
    /\ boot[a] = "waiting"
    /\ Fault
    /\ boot' = [boot EXCEPT ![a] = "stopped"]
    /\ call' = [w \in Workers |-> IF call[w].agent = a
                                  THEN [call[w] EXCEPT !.heard = FALSE]
                                  ELSE call[w]]
    /\ UNCHANGED <<database, authority, reply, host>>

WriteCert(a) ==
    /\ boot[a] = "cert"
    /\ cert' = [cert EXCEPT ![a] = reply[a]]
    /\ boot' = [boot EXCEPT ![a] = "ca"]
    /\ UNCHANGED <<database, authority, call, reply, caFile, serverId, faults>>

WriteCA(a) ==
    /\ boot[a] = "ca"
    /\ caFile' = [caFile EXCEPT ![a] = reply[a].ca]
    /\ boot' = [boot EXCEPT ![a] = "config"]
    /\ UNCHANGED <<database, authority, call, reply, cert, serverId, faults>>

SaveConfig(a) ==
    /\ boot[a] = "config"
    /\ serverId' = [serverId EXCEPT ![a] = reply[a].server]
    /\ boot' = [boot EXCEPT ![a] = "running"]
    /\ UNCHANGED <<database, authority, call, reply, cert, caFile, faults>>

AgentDies(a) ==
    /\ boot[a] \in {"cert", "ca", "config", "running"}
    /\ Fault
    /\ boot' = [boot EXCEPT ![a] = "stopped"]
    /\ reply' = [reply EXCEPT ![a] = None]
    /\ UNCHANGED <<database, authority, call, host>>

Administer ==
    \/ NewAuthority \/ RevokeAuthority
    \/ \E t \in Tokens : Expire(t) \/ \E w \in Workers : EditToken(w, t)
    \/ \E s \in Servers : DeleteServer(s)

Serve(w) == SaveToken(w) \/ Refuse(w) \/ Open(w) \/ Commit(w) \/ WorkerDies(w)

Bootstrap(a) ==
    \/ \E t \in Tokens, w \in Workers : Enroll(a, t, w)
    \/ Skip(a) \/ GiveUp(a) \/ WriteCert(a) \/ WriteCA(a) \/ SaveConfig(a)
    \/ AgentDies(a)

Next ==
    \/ Administer
    \/ \E w \in Workers : Serve(w)
    \/ \E a \in Agents : Bootstrap(a)

Spec == Init /\ [][Next]_vars

-----------------------------------------------------------------------------
(***************************************************************************)
(* Properties.                                                             *)
(***************************************************************************)

\* A token is "one-time" and "single-use" (routers/agent.py:121, 128), also if
\* the reply was lost, a transaction was rolled back or the server was deleted
\* since.  The code breaks that promise in two races: an enrollment that checks
\* the token while another is between its check and its commit, and a form that
\* read the token unspent and saves it after it was spent.  These tokens are
\* left out: nothing else enrolls a second server with a token.
TokenSingleUse == \A t \in Tokens \ raced : Cardinality(enrolled[t]) <= 1

\* A token that is marked has enrolled a server: an enrollment that fails or dies
\* after it marked the token takes the mark back, and a form saves no mark of an
\* enrollment that was rolled back.  (The other half fails: a form may take the
\* mark of an enrollment back.)
TokensSpentOnServers == \A t \in Tokens : token[t].used => enrolled[t] # {}

\* A running agent presents the certificate of the server it names, as the
\* server recorded it, with the authority that issued it, although three files
\* are written one by one and an enrollment may be repeated in between.
CredentialsMatch ==
    \A a \in Agents :
        boot[a] = "running" =>
            /\ serverId[a] # None /\ cert[a] # None
            /\ cert[a].server = serverId[a]
            /\ cert[a].ca = caFile[a]
            /\ row[serverId[a]] # None => row[serverId[a]].cert = cert[a]
=============================================================================
