------------------------------ MODULE HostTrust ------------------------------
(***************************************************************************)
(* The user authority on the hosts: EnsureCA of                            *)
(* agent/internal/accounts/sync.go, at the head of every account           *)
(* synchronisation, composed with the server of KeyCertificates that       *)
(* answers the agents and gives users their certificates.                  *)
(*                                                                         *)
(* sshd reads its configuration when it starts or reloads, and the file    *)
(* that TrustedUserCAKeys names whenever a user logs in.                   *)
(***************************************************************************)
EXTENDS KeyCertificates

VARIABLES
    at,         \* the next statement of EnsureCA on each host
    changed,    \* whether it wrote the authority
    file,       \* the authority in the file, 0 if there is none
    conf,       \* whether the configuration names the file
    loaded      \* whether the running sshd has that configuration

host == <<at, changed, file, conf, loaded>>
vars == <<keyVars, host>>

-----------------------------------------------------------------------------
TypeOK ==
    /\ KeyTypeOK
    /\ \A k \in Keys : cert[k].on => cert[k].ca # 0
    /\ at \in [Hosts -> {"key", "conf", "reload"}]
    /\ changed \in [Hosts -> BOOLEAN]
    /\ file \in [Hosts -> 0 .. MaxCAs]
    /\ conf \in [Hosts -> BOOLEAN]
    /\ loaded \in [Hosts -> BOOLEAN]

Init ==
    /\ KeyInit
    /\ at = [h \in Hosts |-> "key"]
    /\ changed = [h \in Hosts |-> FALSE]
    /\ file = [h \in Hosts |-> 0]
    /\ conf = [h \in Hosts |-> FALSE]
    /\ loaded = [h \in Hosts |-> FALSE]

server == <<rows, authorities, call, held, edits>>

\* EnsureCA returns.
Return(h) ==
    /\ told' = [told EXCEPT ![h] = 0]
    /\ at' = [at EXCEPT ![h] = "key"]
    /\ changed' = [changed EXCEPT ![h] = FALSE]

-----------------------------------------------------------------------------
\* Variant of WriteKey: a file that is there is left alone.
WriteKey_Once(h) ==
    /\ told[h] # 0 /\ at[h] = "key"
    /\ file' = [file EXCEPT ![h] = IF @ = 0 THEN told[h] ELSE @]
    /\ changed' = [changed EXCEPT ![h] = file[h] = 0]
    /\ at' = [at EXCEPT ![h] = "conf"]
    /\ UNCHANGED <<server, told, faults, conf, loaded>>

WriteKey(h) ==
    /\ told[h] # 0 /\ at[h] = "key"
    /\ file' = [file EXCEPT ![h] = told[h]]
    /\ changed' = [changed EXCEPT ![h] = file[h] # told[h]]
    /\ at' = [at EXCEPT ![h] = "conf"]
    /\ UNCHANGED <<server, told, faults, conf, loaded>>

WriteConf(h) ==
    /\ at[h] = "conf"
    /\ conf' = [conf EXCEPT ![h] = TRUE]
    /\ IF changed[h] \/ ~conf[h]
       THEN at' = [at EXCEPT ![h] = "reload"] /\ UNCHANGED <<told, changed>>
       ELSE Return(h)
    /\ UNCHANGED <<server, faults, file, loaded>>

Reload(h) ==
    /\ at[h] = "reload"
    /\ loaded' = [loaded EXCEPT ![h] = conf[h]]
    /\ Return(h)
    /\ UNCHANGED <<server, faults, file, conf>>

\* A write or the reload fails, or the agent dies.
EnsureFails(h) ==
    /\ told[h] # 0
    /\ Fault
    /\ Return(h)
    /\ UNCHANGED <<server, file, conf, loaded>>

\* The agent dies in a write that has truncated the file.
Truncate(h) ==
    /\ told[h] # 0
    /\ Fault
    /\ \/ /\ at[h] = "key" /\ file[h] # told[h]
          /\ file' = [file EXCEPT ![h] = 0]
          /\ UNCHANGED conf
       \/ /\ at[h] = "conf" /\ ~conf[h]
          /\ UNCHANGED <<file, conf>>
    /\ Return(h)
    /\ UNCHANGED <<server, loaded>>

\* sshd starts again, with the host or by hand.
Restart(h) ==
    /\ loaded[h] # conf[h]
    /\ loaded' = [loaded EXCEPT ![h] = conf[h]]
    /\ UNCHANGED <<keyVars, at, changed, file, conf>>

-----------------------------------------------------------------------------
EnsureCA(h) == WriteKey(h) \/ WriteConf(h) \/ Reload(h)

Next ==
    \/ KeyNext /\ UNCHANGED host
    \/ \E h \in Hosts : EnsureCA(h) \/ EnsureFails(h) \/ Truncate(h) \/ Restart(h)

Spec == Init /\ [][Next]_vars

\* Calls run to their end, and the queue of the workers keeps no call out for
\* ever: agents ask in every cycle, and users download when they must.
\* Certificates come to their end.
Fairness ==
    /\ \A w \in Workers : WF_vars(Serve(w) /\ UNCHANGED host)
    /\ \A k \in Keys : SF_vars(\E w \in Workers : Load(w, k, "download") /\ UNCHANGED host)
    /\ \A h \in Hosts : SF_vars(\E w \in Workers : Ask(w, h) /\ UNCHANGED host)
    /\ \A h \in Hosts : WF_vars(EnsureCA(h))
    /\ \A k \in Keys : WF_vars(Lapse(k) /\ UNCHANGED host)

FairSpec == Spec /\ Fairness

-----------------------------------------------------------------------------
\* sshd lets the user of a key in with the certificate downloaded last.
LetsIn(h, k) ==
    /\ loaded[h]
    /\ file[h] # 0 /\ held[k].ca = file[h] /\ ~held[k].lapsed

\* Certificates are signed, agents answered and hosts configured with
\* authorities that are in the database: one that a worker constructed is saved
\* before it is used, whatever fails in between.
AuthoritiesRecorded ==
    /\ \A k \in Keys : \A c \in {cert[k].ca, held[k].ca} : c # 0 => cas[c] # "none"
    /\ \A h \in Hosts : \A c \in {told[h], file[h]} : c # 0 => cas[c] # "none"

\* A user whose key stays active is let in by every host time and again:
\* authorities that workers construct at the same time, edits of authorities
\* while others are saved, and writes that fail on the host end in agreement of
\* signers and hosts.  Until then a certificate that a former authority signed
\* is handed out to its end; and a host counts only if its sshd has loaded the
\* configuration, since EnsureCA does not repeat a reload that failed.
UsersGetIn ==
    \A k \in Keys, h \in Hosts :
        <>[](key[k] = "on" /\ (conf[h] => loaded[h])) => []<>LetsIn(h, k)

\* A user whose key stays revoked is shut out by every host in the end: hosts
\* know nothing of revoked certificates, but no call that overlaps, or follows,
\* the revocation goes on handing out fresh ones.
RevokedKeptOut ==
    \A k \in Keys, h \in Hosts : <>[](key[k] = "off") => <>[]~LetsIn(h, k)
=============================================================================
