-------------------------- MODULE Enrollment_proofs --------------------------
(***************************************************************************)
(* Proofs about Enrollment, for any agents, tokens, servers and bounds.    *)
(***************************************************************************)
EXTENDS Enrollment, FiniteSetTheorems, TLAPS

USE HostAssumption, NoneAssumption, BoundsAssumption

\* An active authority is there.
AuthorityExists == active => ca # 0

\* What a call carries: an enrollment a token and an agent, and from the start of
\* its transaction a certificate; a form a token.  It is heard by an agent that
\* waits for it and for no other call.
CallsWellFormed ==
    /\ \A w \in Workers :
          /\ call[w].pc \in {"checked", "open"} =>
                call[w].tok \in Tokens /\ call[w].agent \in Agents
          /\ call[w].pc = "edit" => call[w].tok \in Tokens
          /\ call[w].pc = "open" <=> call[w].cert # None
          /\ call[w].heard => /\ call[w].agent \in Agents
                              /\ boot[call[w].agent] = "waiting"
                              /\ call[w].pc \in {"checked", "open"}
    /\ \A v, w \in Workers :
          call[v].heard /\ call[w].heard /\ call[v].agent = call[w].agent => v = w

\* An agent that is about to write a file has an answer, and one that bootstraps
\* has no server id yet.
BootstrapsOnce ==
    \A a \in Agents :
        /\ boot[a] \in {"cert", "ca", "config"} => reply[a] # None
        /\ boot[a] \in {"waiting", "cert", "ca", "config"} => serverId[a] = None
        /\ boot[a] \in {"ca", "config"} => cert[a] = reply[a]
        /\ boot[a] = "config" => caFile[a] = reply[a].ca
        /\ boot[a] = "running" => serverId[a] # None

\* The server of c was enrolled, and c is what its row records.
Recorded(c) ==
    /\ \E t \in Tokens : c.server \in enrolled[t]
    /\ row[c.server] # None => row[c.server].cert = c

\* Every certificate that an agent has is the one recorded.
AnswersRecorded ==
    \A a \in Agents :
        /\ reply[a] # None => Recorded(reply[a])
        /\ cert[a] # None => Recorded(cert[a])

\* A transaction enrolls a server that no token enrolled, and no other
\* transaction enrolls.
FreshServers ==
    \A w \in Workers :
        call[w].pc = "open" =>
            /\ \A t \in Tokens : call[w].cert.server \notin enrolled[t]
            /\ \A v \in Workers \ {w} :
                  call[v].pc = "open" => call[v].cert.server # call[w].cert.server

\* The server id is written last: with it the files are those of one enrollment.
FilesComplete ==
    \A a \in Agents :
        serverId[a] # None => /\ cert[a] # None
                              /\ cert[a].server = serverId[a]
                              /\ cert[a].ca = caFile[a]

EnrollInv ==
    /\ TypeOK
    /\ AuthorityExists
    /\ CallsWellFormed
    /\ BootstrapsOnce
    /\ AnswersRecorded
    /\ FreshServers
    /\ FilesComplete

\* What holds of a token that is not raced: one enrollment at most is past its
\* check, none once a server is enrolled, and then the mark is there.
TokensOnce ==
    \A t \in Tokens \ raced :
        /\ \A v, w \in Enrolling(t) : v = w
        /\ Enrolling(t) # {} => enrolled[t] = {}
        /\ enrolled[t] # {} => token[t].used
        /\ enrolled[t] = {} \/ \E s \in Servers : enrolled[t] = {s}

\* What holds of every token: a mark, also the copy of one, is that of a server.
MarksEnrolled ==
    /\ TokensSpentOnServers
    /\ \A w \in Workers :
          call[w].pc = "edit" /\ call[w].used => enrolled[call[w].tok] # {}

TokenInv == EnrollInv /\ MarksEnrolled /\ TokensOnce

-----------------------------------------------------------------------------
(***************************************************************************)
(* Types.                                                                  *)
(***************************************************************************)

\* The call of a worker that serves none has its type.
LEMMA IdleType == Idle \in Call
  BY DEF Idle, Call

\* A row that is marked or expires stays a row.
LEMMA TokenFields ==
  ASSUME NEW x \in TokenRow
  PROVE  /\ [x EXCEPT !.used = TRUE] \in TokenRow
         /\ [x EXCEPT !.expired = TRUE] \in TokenRow
  BY DEF TokenRow

\* What a call becomes by its transaction, and when its agent gives up.
LEMMA CallFields ==
  ASSUME NEW x \in Call
  PROVE  /\ \A c \in Cert : LET y == [x EXCEPT !.pc = "open", !.cert = c] IN
               /\ y \in Call /\ y.pc = "open" /\ y.cert = c
               /\ y.tok = x.tok /\ y.agent = x.agent /\ y.heard = x.heard
         /\ LET y == [x EXCEPT !.heard = FALSE] IN
               /\ y \in Call /\ y.heard = FALSE /\ y.pc = x.pc /\ y.cert = x.cert
               /\ y.tok = x.tok /\ y.agent = x.agent /\ y.used = x.used
<1>1. ASSUME NEW c \in Cert
      PROVE  LET y == [x EXCEPT !.pc = "open", !.cert = c] IN
               /\ y \in Call /\ y.pc = "open" /\ y.cert = c
               /\ y.tok = x.tok /\ y.agent = x.agent /\ y.heard = x.heard
  BY DEF Call
<1>2. LET y == [x EXCEPT !.heard = FALSE] IN
               /\ y \in Call /\ y.heard = FALSE /\ y.pc = x.pc /\ y.cert = x.cert
               /\ y.tok = x.tok /\ y.agent = x.agent /\ y.used = x.used
  BY DEF Call
<1> QED BY <1>1, <1>2

\* Every step keeps the types.
LEMMA NextTypes ==
  ASSUME EnrollInv, Next
  PROVE  TypeOK'
<1> USE DEF EnrollInv, TypeOK, database, authority, agent, host
<1>1. CASE NewAuthority
  BY <1>1 DEF NewAuthority
<1>2. CASE RevokeAuthority
  BY <1>2 DEF RevokeAuthority
<1>3. ASSUME NEW t \in Tokens, Expire(t) PROVE TypeOK'
  BY <1>3, TokenFields DEF Expire
<1>4. ASSUME NEW t \in Tokens, NEW w \in Workers, EditToken(w, t) PROVE TypeOK'
  <2>1. token[t].used \in BOOLEAN
    BY DEF TokenRow
  <2> DEFINE c == [Idle EXCEPT !.pc = "edit", !.tok = t, !.used = token[t].used]
  <2>2. c \in Call
    BY <2>1 DEF Idle, Call
  <2> QED BY <1>4, <2>2 DEF EditToken
<1>5. ASSUME NEW s \in Servers, DeleteServer(s) PROVE TypeOK'
  BY <1>5 DEF DeleteServer
<1>6. ASSUME NEW w \in Workers, SaveToken(w) PROVE TypeOK'
  <2>1. call[w].used \in BOOLEAN /\ call[w].tok \in Tokens
    BY <1>6 DEF SaveToken, Call, CallsWellFormed
  <2>2. PICK e \in BOOLEAN :
           token' = [token EXCEPT ![call[w].tok] = [used |-> call[w].used, expired |-> e]]
    BY <1>6 DEF SaveToken
  <2>3. [used |-> call[w].used, expired |-> e] \in TokenRow
    BY <2>1 DEF TokenRow
  <2>4. token' \in [Tokens -> TokenRow]
    BY <2>1, <2>2, <2>3
  <2> QED BY <1>6, <2>4, IdleType DEF SaveToken
<1>7. ASSUME NEW w \in Workers, Refuse(w) PROVE TypeOK'
  BY <1>7, IdleType DEF Refuse, Answer, CallsWellFormed
<1>8. ASSUME NEW w \in Workers, Open(w) PROVE TypeOK'
  <2>1. PICK s \in Servers \ InUse :
           call' = [call EXCEPT ![w].pc = "open", ![w].cert = [server |-> s, ca |-> ca]]
    BY <1>8 DEF Open
  <2> DEFINE d == [server |-> s, ca |-> ca]
             c == [call[w] EXCEPT !.pc = "open", !.cert = d]
  <2>2. d \in Cert /\ call[w] \in Call
    BY <1>8 DEF Open, AuthorityExists, Cert
  <2>4. call' = [call EXCEPT ![w] = c]
    BY <2>1
  <2> HIDE DEF d
  <2>3. c \in Call
    BY <2>2, CallFields
  <2>5. call' \in [Workers -> Call]
    BY <2>3, <2>4
  <2> QED BY <1>8, <2>5 DEF Open
<1>9. ASSUME NEW w \in Workers, Commit(w) PROVE TypeOK'
  <2> DEFINE c == call[w]
  <2>1. /\ c.pc = "open" /\ c.tok \in Tokens /\ c.agent \in Agents
        /\ c.cert \in Cert /\ c.cert.server \in Servers
        /\ c.heard => c.agent \in Agents
    BY <1>9 DEF Commit, Call, Cert, CallsWellFormed
  <2>2. [host |-> Host[c.agent], cert |-> c.cert] \in ServerRow
    BY <2>1 DEF ServerRow
  <2>3. row' \in [Servers -> ServerRow \cup {None}]
    BY <1>9, <2>1, <2>2 DEF Commit
  <2>4. token' \in [Tokens -> TokenRow] /\ enrolled' \in [Tokens -> SUBSET Servers]
    BY <1>9, <2>1, TokenFields DEF Commit
  <2>5. /\ boot' \in [Agents -> {"stopped", "waiting", "cert", "ca", "config", "running"}]
        /\ reply' \in [Agents -> Cert \cup {None}]
    BY <1>9, <2>1 DEF Commit, Answer
  <2> QED BY <1>9, <2>3, <2>4, <2>5, IdleType DEF Commit
<1>10. ASSUME NEW w \in Workers, WorkerDies(w) PROVE TypeOK'
  BY <1>10, IdleType DEF WorkerDies, Fault, Answer, CallsWellFormed
<1>11. ASSUME NEW a \in Agents, NEW t \in Tokens, NEW w \in Workers, Enroll(a, t, w)
       PROVE  TypeOK'
  <2> DEFINE c == [Idle EXCEPT !.pc = "checked", !.tok = t, !.agent = a, !.heard = TRUE]
  <2>1. c \in Call
    BY DEF Idle, Call
  <2> QED BY <1>11, <2>1 DEF Enroll
<1>12. ASSUME NEW a \in Agents, Skip(a) PROVE TypeOK'
  BY <1>12 DEF Skip
<1>13. ASSUME NEW a \in Agents, GiveUp(a) PROVE TypeOK'
  <2>1. \A w \in Workers : [call[w] EXCEPT !.heard = FALSE] \in Call
    BY CallFields
  <2> QED BY <1>13, <2>1 DEF GiveUp, Fault
<1>14. ASSUME NEW a \in Agents, WriteCert(a) PROVE TypeOK'
  BY <1>14 DEF WriteCert
<1>15. ASSUME NEW a \in Agents, WriteCA(a) PROVE TypeOK'
  BY <1>15 DEF WriteCA, BootstrapsOnce, Cert
<1>16. ASSUME NEW a \in Agents, SaveConfig(a) PROVE TypeOK'
  BY <1>16 DEF SaveConfig, BootstrapsOnce, Cert
<1>17. ASSUME NEW a \in Agents, AgentDies(a) PROVE TypeOK'
  BY <1>17 DEF AgentDies, Fault
<1> QED
  BY <1>1, <1>2, <1>3, <1>4, <1>5, <1>6, <1>7, <1>8, <1>9, <1>10, <1>11, <1>12,
     <1>13, <1>14, <1>15, <1>16, <1>17
  DEF Next, Administer, Serve, Bootstrap

-----------------------------------------------------------------------------
(***************************************************************************)
(* The steps: one lemma for what happens outside of calls, and one for each *)
(* statement of a call and of the bootstrap.                               *)
(***************************************************************************)

\* The invariant but for the types, which NextTypes keeps.
Strengthening ==
    /\ AuthorityExists
    /\ CallsWellFormed
    /\ BootstrapsOnce
    /\ AnswersRecorded
    /\ FreshServers
    /\ FilesComplete

\* The invariant holds at the start.
LEMMA EnrollInit == Init => EnrollInv
<1> SUFFICES ASSUME Init PROVE EnrollInv
  OBVIOUS
<1>1. /\ [used |-> FALSE, expired |-> FALSE] \in TokenRow
      /\ faults \in 0 .. MaxFaults /\ ca \in 0 .. MaxCAs
  BY DEF Init, TokenRow
<1>2. TypeOK
  BY <1>1, IdleType DEF Init, TypeOK
<1>3. AuthorityExists /\ CallsWellFormed /\ BootstrapsOnce
  BY DEF Init, AuthorityExists, CallsWellFormed, BootstrapsOnce, Idle
<1>4. AnswersRecorded /\ FreshServers /\ FilesComplete
  BY DEF Init, AnswersRecorded, FreshServers, FilesComplete, Idle
<1> QED BY <1>2, <1>3, <1>4 DEF EnrollInv

\* Administrators and the clock touch neither calls nor agents; a row that is
\* deleted contradicts no certificate.
LEMMA AdministrationKeeps ==
  ASSUME EnrollInv,
         \/ NewAuthority \/ RevokeAuthority
         \/ \E t \in Tokens : Expire(t)
         \/ \E s \in Servers : DeleteServer(s)
  PROVE  Strengthening'
<1> USE DEF EnrollInv, Strengthening, database, authority, agent, host
<1>1. /\ UNCHANGED <<call, boot, reply, cert, caFile, serverId, enrolled>>
      /\ row' = row \/ \E s \in Servers : row' = [row EXCEPT ![s] = None]
  BY DEF NewAuthority, RevokeAuthority, Expire, DeleteServer
<1>2. AuthorityExists'
  <2>1. ca \in Nat
    BY DEF TypeOK
  <2>2. (active' /\ active /\ ca' = ca) \/ ~active' \/ ca' = ca + 1
    BY DEF NewAuthority, RevokeAuthority, Expire, DeleteServer
  <2> QED BY <2>1, <2>2 DEF AuthorityExists
<1>3. CallsWellFormed' /\ BootstrapsOnce' /\ FreshServers' /\ FilesComplete'
  BY <1>1 DEF CallsWellFormed, BootstrapsOnce, FreshServers, FilesComplete
<1>4. \A s \in Servers : row'[s] = row[s] \/ row'[s] = None
  BY <1>1 DEF TypeOK
<1>5. AnswersRecorded'
  BY <1>1, <1>4 DEF AnswersRecorded, Recorded, TypeOK, Cert
<1> QED BY <1>2, <1>3, <1>5

\* The form of a token is a call that no agent hears.
LEMMA EditTokenKeeps ==
  ASSUME EnrollInv, NEW w \in Workers, NEW t \in Tokens, EditToken(w, t)
  PROVE  Strengthening'
<1> USE DEF EnrollInv, Strengthening, database, authority, agent, host
<1> DEFINE c == [Idle EXCEPT !.pc = "edit", !.tok = t, !.used = token[t].used]
<1>1. c.pc = "edit" /\ c.tok = t /\ c.cert = None /\ c.heard = FALSE
  BY DEF Idle
<1>2. /\ \A v \in Workers : call'[v] = IF v = w THEN c ELSE call[v]
      /\ UNCHANGED <<ca, active, row, boot, reply, cert, caFile, serverId, enrolled>>
  BY DEF EditToken, TypeOK
<1> HIDE DEF c
<1>3. CallsWellFormed'
  BY <1>1, <1>2 DEF CallsWellFormed
<1>4. FreshServers'
  BY <1>1, <1>2 DEF FreshServers
<1>5. AuthorityExists' /\ BootstrapsOnce' /\ AnswersRecorded' /\ FilesComplete'
  BY <1>2 DEF AuthorityExists, BootstrapsOnce, AnswersRecorded, Recorded, FilesComplete
<1> QED BY <1>3, <1>4, <1>5

\* A call ends without an answer that carries a certificate: a form is saved, an
\* enrollment is refused, a worker dies.
LEMMA EndKeeps ==
  ASSUME EnrollInv, NEW w \in Workers, SaveToken(w) \/ Refuse(w) \/ WorkerDies(w)
  PROVE  Strengthening'
<1> USE DEF EnrollInv, Strengthening, database, authority, agent, host
<1>1. Idle.pc = "idle" /\ Idle.cert = None /\ Idle.heard = FALSE
  BY DEF Idle
<1>2. /\ \A v \in Workers : call'[v] = IF v = w THEN Idle ELSE call[v]
      /\ UNCHANGED <<ca, active, row, cert, caFile, serverId, enrolled>>
  BY DEF SaveToken, Refuse, WorkerDies, TypeOK
<1>3. \A a \in Agents :
         IF call[w].heard /\ a = call[w].agent
         THEN boot'[a] = "stopped" /\ reply'[a] = None
         ELSE boot'[a] = boot[a] /\ reply'[a] = reply[a]
  BY DEF SaveToken, Refuse, WorkerDies, Answer, TypeOK, CallsWellFormed
<1>4. CallsWellFormed'
  BY <1>1, <1>2, <1>3 DEF CallsWellFormed
<1>5. FreshServers'
  BY <1>1, <1>2 DEF FreshServers
<1>6. BootstrapsOnce'
  BY <1>2, <1>3 DEF BootstrapsOnce
<1>7. AnswersRecorded'
  BY <1>2, <1>3 DEF AnswersRecorded, Recorded
<1>8. AuthorityExists' /\ FilesComplete'
  BY <1>2 DEF AuthorityExists, FilesComplete
<1> QED BY <1>4, <1>5, <1>6, <1>7, <1>8

\* The server of a transaction is one that nothing refers to.
LEMMA OpenKeeps ==
  ASSUME EnrollInv, NEW w \in Workers, Open(w)
  PROVE  Strengthening'
<1> USE DEF EnrollInv, Strengthening, database, authority, agent, host
<1>1. PICK s \in Servers \ InUse :
         call' = [call EXCEPT ![w].pc = "open", ![w].cert = [server |-> s, ca |-> ca]]
  BY DEF Open
<1> DEFINE d == [server |-> s, ca |-> ca]
           c == [call[w] EXCEPT !.pc = "open", !.cert = d]
<1>2. d \in Cert /\ call[w] \in Call /\ d.server = s
  BY DEF Open, AuthorityExists, Cert, TypeOK
<1>3. call' = [call EXCEPT ![w] = c]
  BY <1>1 DEF TypeOK
<1> HIDE DEF d
<1>4. /\ c.pc = "open" /\ c.cert = d
      /\ c.tok = call[w].tok /\ c.agent = call[w].agent /\ c.heard = call[w].heard
  BY <1>2, CallFields
<1>5. /\ \A v \in Workers : call'[v] = IF v = w THEN c ELSE call[v]
      /\ UNCHANGED <<ca, active, row, boot, reply, cert, caFile, serverId, enrolled>>
  BY <1>3 DEF Open, TypeOK
<1>6. /\ \A t \in Tokens : s \notin enrolled[t]
      /\ \A v \in Workers : call[v].pc = "open" => call[v].cert.server # s
  BY DEF InUse, CallsWellFormed
<1> HIDE DEF c
<1>7. CallsWellFormed'
  <2>1. call[w].pc = "checked"
    BY DEF Open
  <2> QED BY <1>2, <1>4, <1>5, <2>1 DEF CallsWellFormed
<1>8. FreshServers'
  BY <1>2, <1>4, <1>5, <1>6 DEF FreshServers
<1>9. AuthorityExists' /\ BootstrapsOnce' /\ AnswersRecorded' /\ FilesComplete'
  BY <1>5 DEF AuthorityExists, BootstrapsOnce, AnswersRecorded, Recorded, FilesComplete
<1> QED BY <1>7, <1>8, <1>9

\* The row of a server that was never enrolled is written, so that no other
\* certificate is concerned.
LEMMA CommitKeeps ==
  ASSUME EnrollInv, NEW w \in Workers, Commit(w)
  PROVE  Strengthening'
<1> USE DEF EnrollInv, Strengthening, database, authority, agent, host
<1> DEFINE c == call[w]
           x == c.cert
           t == c.tok
<1>1. /\ c.pc = "open" /\ x \in Cert /\ t \in Tokens /\ x.server \in Servers
      /\ c.heard => c.agent \in Agents /\ boot[c.agent] = "waiting"
  BY DEF Commit, CallsWellFormed, TypeOK, Call, Cert
<1>2. Idle.pc = "idle" /\ Idle.cert = None /\ Idle.heard = FALSE
  BY DEF Idle
<1>3. /\ \A v \in Workers : call'[v] = IF v = w THEN Idle ELSE call[v]
      /\ UNCHANGED <<ca, active, cert, caFile, serverId>>
  BY DEF Commit, TypeOK
<1>4. /\ \A s \in Servers \ {x.server} : row'[s] = row[s]
      /\ row'[x.server].cert = x
      /\ \A u \in Tokens : enrolled'[u] = IF u = t THEN enrolled[u] \cup {x.server}
                                          ELSE enrolled[u]
  BY <1>1 DEF Commit, TypeOK
<1>5. \A a \in Agents :
         IF c.heard /\ a = c.agent
         THEN boot'[a] = "cert" /\ reply'[a] = x
         ELSE boot'[a] = boot[a] /\ reply'[a] = reply[a]
  BY <1>1 DEF Commit, Answer, TypeOK
<1>6. /\ \A u \in Tokens : x.server \notin enrolled[u]
      /\ \A v \in Workers \ {w} : call[v].pc = "open" => call[v].cert.server # x.server
  BY <1>1 DEF FreshServers
<1> HIDE DEF x, t
<1>7. CallsWellFormed'
  BY <1>2, <1>3, <1>5 DEF CallsWellFormed
<1>8. FreshServers'
  <2>1. \A v \in Workers : call'[v].pc = "open" =>
           v # w /\ call'[v] = call[v] /\ call[v].cert.server # x.server
    BY <1>2, <1>3, <1>6
  <2>2. FreshServers
    OBVIOUS
  <2>3. ASSUME NEW v \in Workers, call'[v].pc = "open", NEW u \in Tokens
        PROVE  call'[v].cert.server \notin enrolled'[u]
    <3>1. enrolled'[u] \subseteq enrolled[u] \cup {x.server}
      BY <1>4
    <3>2. call[v].cert.server \notin enrolled[u]
      BY <2>1, <2>2, <2>3 DEF FreshServers
    <3> QED BY <2>1, <2>3, <3>1, <3>2
  <2>4. ASSUME NEW v \in Workers, call'[v].pc = "open",
               NEW z \in Workers \ {v}, call'[z].pc = "open"
        PROVE  call'[z].cert.server # call'[v].cert.server
    BY <2>1, <2>2, <2>4 DEF FreshServers
  <2> QED BY <2>3, <2>4 DEF FreshServers
<1>9. BootstrapsOnce'
  BY <1>1, <1>3, <1>5 DEF BootstrapsOnce
<1>10. AnswersRecorded'
  <2>1. \A y \in Cert : Recorded(y) =>
           /\ \E u \in Tokens : y.server \in enrolled'[u]
           /\ row'[y.server] # None => row'[y.server].cert = y
    BY <1>1, <1>4, <1>6 DEF Recorded, Cert
  <2>2. /\ \E u \in Tokens : x.server \in enrolled'[u]
        /\ row'[x.server] # None => row'[x.server].cert = x
    BY <1>1, <1>4
  <2>3. \A a \in Agents :
           /\ reply[a] # None => reply[a] \in Cert /\ Recorded(reply[a])
           /\ cert[a] # None => cert[a] \in Cert /\ Recorded(cert[a])
    BY DEF AnswersRecorded, TypeOK
  <2>4. \A a \in Agents :
           /\ reply'[a] # None =>
                 reply'[a] = x \/ (reply'[a] \in Cert /\ Recorded(reply'[a]))
           /\ cert'[a] # None => cert'[a] \in Cert /\ Recorded(cert'[a])
    BY <1>3, <1>5, <2>3
  <2>5. \A a \in Agents :
           /\ reply'[a] # None =>
                 /\ \E u \in Tokens : reply'[a].server \in enrolled'[u]
                 /\ row'[reply'[a].server] # None => row'[reply'[a].server].cert = reply'[a]
           /\ cert'[a] # None =>
                 /\ \E u \in Tokens : cert'[a].server \in enrolled'[u]
                 /\ row'[cert'[a].server] # None => row'[cert'[a].server].cert = cert'[a]
    BY <2>1, <2>2, <2>4
  <2> QED BY <2>5 DEF AnswersRecorded, Recorded
<1>11. AuthorityExists' /\ FilesComplete'
  BY <1>3 DEF AuthorityExists, FilesComplete
<1> QED BY <1>7, <1>8, <1>9, <1>10, <1>11

\* An agent that enrolls was stopped, so that no other call is heard by it.
LEMMA EnrollKeeps ==
  ASSUME EnrollInv, NEW a \in Agents, NEW t \in Tokens, NEW w \in Workers,
         Enroll(a, t, w)
  PROVE  Strengthening'
<1> USE DEF EnrollInv, Strengthening, database, authority, agent, host
<1> DEFINE c == [Idle EXCEPT !.pc = "checked", !.tok = t, !.agent = a, !.heard = TRUE]
<1>1. c.pc = "checked" /\ c.tok = t /\ c.agent = a /\ c.cert = None /\ c.heard = TRUE
  BY DEF Idle
<1>2. /\ \A v \in Workers : call'[v] = IF v = w THEN c ELSE call[v]
      /\ \A b \in Agents : boot'[b] = IF b = a THEN "waiting" ELSE boot[b]
      /\ boot[a] = "stopped"
      /\ UNCHANGED <<ca, active, row, reply, cert, caFile, serverId, enrolled>>
  BY DEF Enroll, TypeOK
<1>3. serverId[a] = None
  <2>1. caFile[a] = 0 \/ cert[a] = None \/ serverId[a] = None
    BY DEF Enroll, Enrolled
  <2>2. cert[a] # None => cert[a].ca # 0
    BY DEF TypeOK, Cert
  <2> QED BY <2>1, <2>2 DEF FilesComplete
<1> HIDE DEF c
<1>4. CallsWellFormed'
  BY <1>1, <1>2 DEF CallsWellFormed
<1>5. FreshServers'
  BY <1>1, <1>2 DEF FreshServers
<1>6. BootstrapsOnce'
  BY <1>2, <1>3 DEF BootstrapsOnce
<1>7. AuthorityExists' /\ AnswersRecorded' /\ FilesComplete'
  BY <1>2 DEF AuthorityExists, AnswersRecorded, Recorded, FilesComplete
<1> QED BY <1>4, <1>5, <1>6, <1>7

\* A call whose agent gives up is heard by none.
LEMMA GiveUpKeeps ==
  ASSUME EnrollInv, NEW a \in Agents, GiveUp(a)
  PROVE  Strengthening'
<1> USE DEF EnrollInv, Strengthening, database, authority, agent, host
<1>1. \A w \in Workers :
         /\ call'[w].pc = call[w].pc /\ call'[w].tok = call[w].tok
         /\ call'[w].agent = call[w].agent /\ call'[w].cert = call[w].cert
         /\ call'[w].heard => call[w].heard /\ call[w].agent # a
  <2> SUFFICES ASSUME NEW w \in Workers
               PROVE  /\ call'[w].pc = call[w].pc /\ call'[w].tok = call[w].tok
                      /\ call'[w].agent = call[w].agent /\ call'[w].cert = call[w].cert
                      /\ call'[w].heard => call[w].heard /\ call[w].agent # a
    OBVIOUS
  <2>1. call[w] \in Call /\ call[w].heard \in BOOLEAN
    BY DEF TypeOK, Call
  <2>2. call'[w] = IF call[w].agent = a THEN [call[w] EXCEPT !.heard = FALSE] ELSE call[w]
    BY DEF GiveUp
  <2>3. CASE call[w].agent = a
    <3> DEFINE y == [call[w] EXCEPT !.heard = FALSE]
    <3>1. /\ ~y.heard /\ y.pc = call[w].pc /\ y.cert = call[w].cert
          /\ y.tok = call[w].tok /\ y.agent = call[w].agent
      BY <2>1, CallFields
    <3>2. call'[w] = y
      BY <2>2, <2>3
    <3> HIDE DEF y
    <3> QED BY <3>1, <3>2
  <2>4. CASE call[w].agent # a
    BY <2>1, <2>2, <2>4
  <2> QED BY <2>3, <2>4
<1>2. /\ \A b \in Agents : boot'[b] = IF b = a THEN "stopped" ELSE boot[b]
      /\ UNCHANGED <<ca, active, row, reply, cert, caFile, serverId, enrolled>>
  BY DEF GiveUp, TypeOK
<1>3. CallsWellFormed'
  BY <1>1, <1>2 DEF CallsWellFormed
<1>4. FreshServers'
  BY <1>1, <1>2 DEF FreshServers
<1>5. BootstrapsOnce'
  BY <1>2 DEF BootstrapsOnce
<1>6. AuthorityExists' /\ AnswersRecorded' /\ FilesComplete'
  BY <1>2 DEF AuthorityExists, AnswersRecorded, Recorded, FilesComplete
<1> QED BY <1>3, <1>4, <1>5, <1>6

\* The agent writes what it was answered with, the server id last.
LEMMA FilesKeep ==
  ASSUME EnrollInv, NEW a \in Agents,
         Skip(a) \/ WriteCert(a) \/ WriteCA(a) \/ SaveConfig(a) \/ AgentDies(a)
  PROVE  Strengthening'
<1> USE DEF EnrollInv, Strengthening, database, authority, agent, host
<1>1. UNCHANGED <<ca, active, row, call, enrolled>>
  BY DEF Skip, WriteCert, WriteCA, SaveConfig, AgentDies
<1>2. boot[a] # "waiting" /\ \A b \in Agents \ {a} :
         /\ boot'[b] = boot[b] /\ reply'[b] = reply[b] /\ cert'[b] = cert[b]
         /\ caFile'[b] = caFile[b] /\ serverId'[b] = serverId[b]
  BY DEF Skip, WriteCert, WriteCA, SaveConfig, AgentDies, TypeOK
<1>3. \/ /\ boot'[a] = "running" /\ serverId[a] # None
         /\ reply'[a] = reply[a] /\ cert'[a] = cert[a]
         /\ caFile'[a] = caFile[a] /\ serverId'[a] = serverId[a]
      \/ /\ boot[a] = "cert" /\ boot'[a] = "ca" /\ cert'[a] = reply[a]
         /\ reply'[a] = reply[a] /\ caFile'[a] = caFile[a] /\ serverId'[a] = serverId[a]
      \/ /\ boot[a] = "ca" /\ boot'[a] = "config" /\ caFile'[a] = reply[a].ca
         /\ reply'[a] = reply[a] /\ cert'[a] = cert[a] /\ serverId'[a] = serverId[a]
      \/ /\ boot[a] = "config" /\ boot'[a] = "running" /\ serverId'[a] = reply[a].server
         /\ reply'[a] = reply[a] /\ cert'[a] = cert[a] /\ caFile'[a] = caFile[a]
      \/ /\ boot'[a] = "stopped" /\ reply'[a] = None
         /\ cert'[a] = cert[a] /\ caFile'[a] = caFile[a] /\ serverId'[a] = serverId[a]
  BY DEF Skip, Enrolled, WriteCert, WriteCA, SaveConfig, AgentDies, TypeOK
<1>4. reply[a] # None => reply[a].server # None
  BY DEF TypeOK, Cert
<1>5. AuthorityExists' /\ FreshServers'
  BY <1>1 DEF AuthorityExists, FreshServers
<1>6. CallsWellFormed'
  BY <1>1, <1>2 DEF CallsWellFormed
<1>7. BootstrapsOnce'
  BY <1>2, <1>3, <1>4 DEF BootstrapsOnce
<1>8. FilesComplete'
  BY <1>2, <1>3, <1>4 DEF FilesComplete, BootstrapsOnce
<1>9. AnswersRecorded'
  <2>1. \A b \in Agents : /\ reply'[b] \in {reply[b], None}
                          /\ cert'[b] \in {cert[b], reply[b]}
    BY <1>2, <1>3
  <2> QED BY <1>1, <2>1 DEF AnswersRecorded, Recorded
<1> QED BY <1>5, <1>6, <1>7, <1>8, <1>9

\* Every step preserves the invariant.
LEMMA EnrollNext == EnrollInv /\ [Next]_vars => EnrollInv'
<1> SUFFICES ASSUME EnrollInv, [Next]_vars PROVE EnrollInv'
  OBVIOUS
<1>1. CASE Next
  <2>1. TypeOK'
    BY <1>1, NextTypes
  <2>2. ASSUME Administer PROVE Strengthening'
    BY <2>2, AdministrationKeeps, EditTokenKeeps DEF Administer
  <2>3. ASSUME NEW w \in Workers, Serve(w) PROVE Strengthening'
    BY <2>3, EndKeeps, OpenKeeps, CommitKeeps DEF Serve
  <2>4. ASSUME NEW a \in Agents, Bootstrap(a) PROVE Strengthening'
    BY <2>4, EnrollKeeps, GiveUpKeeps, FilesKeep DEF Bootstrap
  <2>5. Strengthening'
    BY <1>1, <2>2, <2>3, <2>4 DEF Next
  <2> QED BY <2>1, <2>5 DEF EnrollInv, Strengthening
<1>2. CASE UNCHANGED vars
  BY <1>2 DEF vars, EnrollInv, TypeOK, AuthorityExists, CallsWellFormed, BootstrapsOnce,
              AnswersRecorded, Recorded, FreshServers, FilesComplete
<1> QED BY <1>1, <1>2

\* The invariant holds for ever.
LEMMA EnrollAlways == Spec => []EnrollInv
  BY EnrollInit, EnrollNext, PTL DEF Spec

\* Values stay in their types.
THEOREM EnrollmentTypeCorrect == Spec => []TypeOK
<1>1. EnrollInv => TypeOK
  BY DEF EnrollInv
<1> QED BY <1>1, EnrollAlways, PTL

\* Whatever dies and whoever gives up, a running agent has the files of one
\* enrollment, the one that its server has recorded.
THEOREM RunningAgentsMatch == Spec => []CredentialsMatch
<1>1. EnrollInv => CredentialsMatch
  BY DEF EnrollInv, CredentialsMatch, BootstrapsOnce, FilesComplete, AnswersRecorded, Recorded
<1> QED BY <1>1, EnrollAlways, PTL

-----------------------------------------------------------------------------
(***************************************************************************)
(* Tokens.                                                                 *)
(***************************************************************************)

\* No token was used at the start.
LEMMA TokenInit == Init => TokenInv
<1> SUFFICES ASSUME Init PROVE TokenInv
  OBVIOUS
<1>1. MarksEnrolled /\ TokensOnce
  BY DEF Init, MarksEnrolled, TokensSpentOnServers, TokensOnce, Enrolling, Idle
<1> QED BY <1>1, EnrollInit DEF TokenInv

\* A step that leaves the marks and the servers of tokens alone, and starts no
\* enrollment and no form but one with the mark as it is.
LEMMA TokensUntouched ==
  ASSUME TokenInv, UNCHANGED <<enrolled, raced>>,
         \A t \in Tokens : token'[t].used = token[t].used,
         \A w \in Workers :
            \/ call'[w].pc = "idle"
            \/ /\ call'[w].pc \in {"checked", "open"} <=> call[w].pc \in {"checked", "open"}
               /\ call'[w].pc = "edit" <=> call[w].pc = "edit"
               /\ call'[w].tok = call[w].tok /\ call'[w].used = call[w].used
            \/ /\ call'[w].pc = "edit" /\ call'[w].tok \in Tokens
               /\ call'[w].used = token[call'[w].tok].used
  PROVE  MarksEnrolled' /\ TokensOnce'
<1> USE DEF TokenInv
<1>1. MarksEnrolled'
  BY DEF MarksEnrolled, TokensSpentOnServers
<1>2. \A t \in Tokens : Enrolling(t)' \subseteq Enrolling(t)
  BY DEF Enrolling
<1>3. TokensOnce'
  BY <1>2 DEF TokensOnce
<1> QED BY <1>1, <1>3

\* A call that ends leaves the other enrollments.
LEMMA EndsEnrolling ==
  ASSUME EnrollInv, NEW w \in Workers, call' = [call EXCEPT ![w] = Idle]
  PROVE  /\ \A t : Enrolling(t)' = Enrolling(t) \ {w}
         /\ \A v \in Workers : call'[v] = call[v] \/ call'[v].pc = "idle"
  BY DEF EnrollInv, TypeOK, Enrolling, Idle

\* A form that takes a mark back leaves a raced token; one that saves a mark
\* saves that of a server.
LEMMA SaveTokenSpends ==
  ASSUME TokenInv, NEW w \in Workers, SaveToken(w)
  PROVE  MarksEnrolled' /\ TokensOnce'
<1> USE DEF TokenInv
<1> DEFINE t == call[w].tok
<1>1. t \in Tokens /\ call[w].used \in BOOLEAN /\ call[w].pc = "edit"
  BY DEF SaveToken, EnrollInv, CallsWellFormed, TypeOK, Call
<1>2. PICK e \in BOOLEAN :
         token' = [token EXCEPT ![t] = [used |-> call[w].used, expired |-> e]]
  BY DEF SaveToken
<1>3. \A u \in Tokens :
         token'[u].used = IF u = t THEN call[w].used ELSE token[u].used
  BY <1>1, <1>2 DEF EnrollInv, TypeOK
<1>4. /\ enrolled' = enrolled
      /\ raced' = IF token[t].used /\ ~call[w].used THEN raced \cup {t} ELSE raced
      /\ call' = [call EXCEPT ![w] = Idle]
  BY DEF SaveToken
<1>5. /\ \A u : Enrolling(u)' \subseteq Enrolling(u)
      /\ \A v \in Workers : call'[v] = call[v] \/ call'[v].pc = "idle"
  BY <1>4, EndsEnrolling
<1>6. call[w].used => enrolled[t] # {}
  BY <1>1 DEF MarksEnrolled
<1> HIDE DEF t
<1>7. MarksEnrolled'
  BY <1>3, <1>4, <1>5, <1>6 DEF MarksEnrolled, TokensSpentOnServers
<1>8. TokensOnce'
  BY <1>3, <1>4, <1>5, <1>6 DEF TokensOnce
<1> QED BY <1>7, <1>8

\* The token that a transaction marks had enrolled no server, unless it is raced.
LEMMA CommitSpends ==
  ASSUME TokenInv, NEW w \in Workers, Commit(w)
  PROVE  MarksEnrolled' /\ TokensOnce'
<1> USE DEF TokenInv
<1> DEFINE t == call[w].tok
           s == call[w].cert.server
<1>1. t \in Tokens /\ s \in Servers /\ w \in Enrolling(t)
  BY DEF Commit, EnrollInv, CallsWellFormed, TypeOK, Call, Cert, Enrolling
<1>2. \A u \in Tokens :
         enrolled'[u] = IF u = t THEN enrolled[t] \cup {s} ELSE enrolled[u]
  BY <1>1 DEF Commit, EnrollInv, TypeOK
<1>3. token[t] \in TokenRow /\ token' = [token EXCEPT ![t].used = TRUE]
  BY <1>1 DEF Commit, EnrollInv, TypeOK
<1>4. \A u \in Tokens : token'[u].used = IF u = t THEN TRUE ELSE token[u].used
  BY <1>1, <1>3 DEF EnrollInv, TypeOK, TokenRow
<1>5. raced' = raced /\ call' = [call EXCEPT ![w] = Idle]
  BY DEF Commit
<1>6. /\ \A u : Enrolling(u)' = Enrolling(u) \ {w}
      /\ \A v \in Workers : call'[v] = call[v] \/ call'[v].pc = "idle"
  BY <1>5, EndsEnrolling
<1> HIDE DEF t, s
<1>7. MarksEnrolled'
  <2>1. \A u \in Tokens : enrolled[u] # {} => enrolled'[u] # {}
    BY <1>2
  <2>2. TokensSpentOnServers'
    BY <1>1, <1>2, <1>4 DEF MarksEnrolled, TokensSpentOnServers
  <2>3. \A v \in Workers : call[v].pc = "edit" => call[v].tok \in Tokens
    BY DEF EnrollInv, CallsWellFormed
  <2> QED BY <1>6, <2>1, <2>2, <2>3 DEF MarksEnrolled
<1>8. TokensOnce'
  <2> SUFFICES ASSUME NEW u \in Tokens \ raced
               PROVE  /\ \A v, x \in Enrolling(u)' : v = x
                      /\ Enrolling(u)' # {} => enrolled'[u] = {}
                      /\ enrolled'[u] # {} => token'[u].used
                      /\ enrolled'[u] = {} \/ \E r \in Servers : enrolled'[u] = {r}
    BY <1>5 DEF TokensOnce
  <2>1. CASE u = t
    <3>1. (\A v \in Enrolling(u) : v = w) /\ enrolled[u] = {}
      BY <1>1, <2>1 DEF TokensOnce
    <3>2. Enrolling(u)' = {}
      BY <1>6, <3>1
    <3>3. enrolled'[u] = {s} /\ token'[u].used
      BY <1>2, <1>4, <2>1, <3>1
    <3> QED BY <1>1, <3>2, <3>3
  <2>2. CASE u # t
    BY <1>2, <1>4, <1>6, <2>2 DEF TokensOnce
  <2> QED BY <2>1, <2>2
<1> QED BY <1>7, <1>8

\* An enrollment checks an unmarked token; if another is past its check, the
\* token is raced.
LEMMA EnrollSpends ==
  ASSUME TokenInv, NEW a \in Agents, NEW t \in Tokens, NEW w \in Workers, Enroll(a, t, w)
  PROVE  MarksEnrolled' /\ TokensOnce'
<1> USE DEF TokenInv
<1> DEFINE c == [Idle EXCEPT !.pc = "checked", !.tok = t, !.agent = a, !.heard = TRUE]
<1>1. c.pc = "checked" /\ c.tok = t
  BY DEF Idle
<1>2. /\ \A v \in Workers : call'[v] = IF v = w THEN c ELSE call[v]
      /\ token' = token /\ enrolled' = enrolled /\ ~token[t].used
      /\ raced' = IF Enrolling(t) # {} THEN raced \cup {t} ELSE raced
      /\ call[w].pc = "idle"
  BY DEF Enroll, EnrollInv, TypeOK, IsValid
<1> HIDE DEF c
<1>3. \A u \in Tokens : Enrolling(u)' = IF u = t THEN Enrolling(u) \cup {w} ELSE Enrolling(u)
  BY <1>1, <1>2 DEF Enrolling
<1>4. MarksEnrolled'
  BY <1>1, <1>2 DEF MarksEnrolled, TokensSpentOnServers
<1>5. TokensOnce'
  BY <1>2, <1>3 DEF TokensOnce
<1> QED BY <1>4, <1>5

\* The other steps neither mark a token nor take a mark back.
LEMMA OthersSpendNothing ==
  ASSUME TokenInv, Next, \A w \in Workers : ~SaveToken(w) /\ ~Commit(w),
         \A a \in Agents, t \in Tokens, w \in Workers : ~Enroll(a, t, w)
  PROVE  MarksEnrolled' /\ TokensOnce'
<1> USE DEF TokenInv, EnrollInv, database, authority, agent, host
<1> DEFINE Goal == MarksEnrolled' /\ TokensOnce'
<1>1. ASSUME NEW t \in Tokens, Expire(t) PROVE Goal
  <2>1. token[t] \in TokenRow /\ token' = [token EXCEPT ![t].expired = TRUE]
    BY <1>1 DEF Expire, TypeOK
  <2>2. \A u \in Tokens : token'[u].used = token[u].used
    BY <2>1 DEF TypeOK, TokenRow
  <2> QED BY <1>1, <2>2, TokensUntouched DEF Expire
<1>2. ASSUME NEW t \in Tokens, NEW w \in Workers, EditToken(w, t) PROVE Goal
  <2>1. \A v \in Workers :
           \/ call'[v] = call[v]
           \/ /\ call'[v].pc = "edit" /\ call'[v].tok = t
              /\ call'[v].used = token[t].used
    BY <1>2 DEF EditToken, TypeOK, Idle
  <2> QED BY <1>2, <2>1, TokensUntouched DEF EditToken
<1>3. ASSUME NEW w \in Workers, Refuse(w) \/ WorkerDies(w) PROVE Goal
  <2>1. UNCHANGED <<token, enrolled, raced>>
        /\ \A v \in Workers : call'[v] = call[v] \/ call'[v].pc = "idle"
    BY <1>3 DEF Refuse, WorkerDies, TypeOK, Idle
  <2> QED BY <2>1, TokensUntouched
<1>4. ASSUME NEW w \in Workers, Open(w) PROVE Goal
  <2>1. UNCHANGED <<token, enrolled, raced>> /\ call[w].pc = "checked"
    BY <1>4 DEF Open
  <2>2. \A v \in Workers :
           \/ call'[v] = call[v]
           \/ v = w /\ call'[v].pc = "open" /\ call'[v].tok = call[v].tok
                    /\ call'[v].used = call[v].used
    BY <1>4 DEF Open, TypeOK, Call
  <2> QED BY <2>1, <2>2, TokensUntouched
<1>6. ASSUME NEW a \in Agents, GiveUp(a) PROVE Goal
  <2>1. \A v \in Workers : /\ call'[v].pc = call[v].pc /\ call'[v].tok = call[v].tok
                           /\ call'[v].used = call[v].used
    <3> SUFFICES ASSUME NEW v \in Workers
                 PROVE  /\ call'[v].pc = call[v].pc /\ call'[v].tok = call[v].tok
                        /\ call'[v].used = call[v].used
      OBVIOUS
    <3> DEFINE y == [call[v] EXCEPT !.heard = FALSE]
    <3>1. call'[v] = call[v] \/ call'[v] = y
      BY <1>6 DEF GiveUp
    <3>2. y.pc = call[v].pc /\ y.tok = call[v].tok /\ y.used = call[v].used
      BY CallFields DEF TypeOK
    <3> HIDE DEF y
    <3> QED BY <3>1, <3>2
  <2> QED BY <1>6, <2>1, TokensUntouched DEF GiveUp
<1>7. ASSUME UNCHANGED <<token, enrolled, raced, call>> PROVE Goal
  BY <1>7, TokensUntouched
<1>8. ASSUME NewAuthority \/ RevokeAuthority \/ \E s \in Servers : DeleteServer(s)
      PROVE  Goal
  BY <1>7, <1>8 DEF NewAuthority, RevokeAuthority, DeleteServer
<1>9. ASSUME NEW a \in Agents,
             Skip(a) \/ WriteCert(a) \/ WriteCA(a) \/ SaveConfig(a) \/ AgentDies(a)
      PROVE  Goal
  BY <1>7, <1>9 DEF Skip, WriteCert, WriteCA, SaveConfig, AgentDies
<1> HIDE DEF Goal
<1>10. Goal
  BY <1>1, <1>2, <1>3, <1>4, <1>6, <1>8, <1>9
  DEF Next, Administer, Serve, Bootstrap
<1> QED BY <1>10 DEF Goal

\* Every step preserves the invariant.
LEMMA TokenNext == TokenInv /\ [Next]_vars => TokenInv'
<1> SUFFICES ASSUME TokenInv, [Next]_vars PROVE TokenInv'
  OBVIOUS
<1>1. EnrollInv'
  BY EnrollNext DEF TokenInv
<1>2. CASE Next
  BY <1>1, <1>2, SaveTokenSpends, CommitSpends, EnrollSpends, OthersSpendNothing DEF TokenInv
<1>3. CASE UNCHANGED vars
  BY <1>1, <1>3 DEF vars, TokenInv, MarksEnrolled, TokensSpentOnServers, TokensOnce, Enrolling
<1> QED BY <1>2, <1>3

\* However calls and forms overlap and however often a transaction is rolled
\* back, a token that is marked has enrolled a server.
THEOREM TokensBuyServers == Spec => []TokensSpentOnServers
<1>1. TokenInv => TokensSpentOnServers
  BY DEF TokenInv, MarksEnrolled
<1> QED BY <1>1, TokenInit, TokenNext, PTL DEF Spec

\* The two races, overlapping enrollments and a form that takes a mark back, are
\* the only ways in which a token enrolls two servers, for any number of workers.
THEOREM TokensUsedOnce == Spec => []TokenSingleUse
<1>1. TokenInv => TokenSingleUse
  <2>1. Cardinality({}) = 0 /\ \A s \in Servers : Cardinality({s}) = 1
    BY FS_EmptySet, FS_Singleton
  <2> QED BY <2>1 DEF TokenInv, TokensOnce, TokenSingleUse
<1> QED BY <1>1, TokenInit, TokenNext, PTL DEF Spec
=============================================================================
