------------------------- MODULE ShellSession_proofs -------------------------
(***************************************************************************)
(* Proofs about ShellSession, for every number of changes and of consumers *)
(* that daphne cancels.                                                    *)
(***************************************************************************)
EXTENDS ShellSession, TLAPS

USE BoundsAssumption

\* The stages of connect(): before _start_ssh, inside it, and after.
Before == {"view", "shell", "name", "accept"}
Inside == {"keys", "spawn", "remove"}

\* What the user held when the checks that were passed were made.
Checked ==
    /\ perms \subseteq held
    /\ pc \in {"shell"} => "view" \in held
    /\ pc \in {"name", "accept"} \cup Inside => held = {"view", "shell"}
    /\ ssh # "none" => held = {"view", "shell"}

\* Which of the things that a session is made of exist at which stage.
Staged ==
    /\ pc \in Before => ssh = "none" /\ ~dir /\ ~keys /\ ~thread /\ reader = "none"
    /\ pc = "keys" => ssh = "none" /\ reader = "none"
    /\ pc = "spawn" => ssh = "none" /\ reader = "none"
    /\ pc = "remove" => ssh # "none" /\ reader = "none"
    /\ pc \in {"write", "reap"} => ssh # "none"
    /\ thread => reader = "none" /\ (pc = "keys" \/ (pc = "dead" /\ kills > 0))
    /\ reader # "none" => ~keys

\* What a consumer leaves that was not cut off.
Cleaned ==
    /\ pc \in {"open", "write", "audit", "reap"} /\ ssh # "none" => ~keys
    /\ pc = "done" => ~keys /\ ~Alive
    /\ pc = "dead" /\ kills = 0 => ~keys /\ ssh = "exited"

SessionInv == TypeOK /\ Checked /\ Staged /\ Cleaned

LEMMA SessionInit == Init => SessionInv
<1> SUFFICES ASSUME Init PROVE SessionInv
  OBVIOUS
<1>1. TypeOK
  <2>1. held \in SUBSET {"view", "shell"} /\ perms \in SUBSET {"view", "shell"}
    BY DEF Init
  <2>2. changes \in 0 .. MaxChanges /\ kills \in 0 .. MaxKills
    BY DEF Init
  <2>3. dir \in BOOLEAN /\ keys \in BOOLEAN /\ thread \in BOOLEAN /\ inbox \in BOOLEAN
    BY DEF Init
  <2>4. ssh = "none" /\ reader = "none" /\ pc = "view" /\ socket = "connecting"
    BY DEF Init
  <2> QED BY <2>1, <2>2, <2>3, <2>4 DEF TypeOK
<1>2. Checked
  BY DEF Init, Checked, Inside
<1>3. Staged /\ Cleaned
  BY DEF Init, Staged, Cleaned, Before
<1> QED BY <1>1, <1>2, <1>3 DEF SessionInv

\* Every step keeps the stages, the checks and the remains apart.
LEMMA NextSession ==
  ASSUME SessionInv, Next
  PROVE  SessionInv'
<1>1. ASSUME CheckView PROVE SessionInv'
  <2>1. TypeOK'
    BY <1>1 DEF CheckView, Pass, Refuse, SessionInv, TypeOK, Checked,
       Staged, Cleaned, Before, Inside, Alive, files, counters
  <2>2. Checked'
    BY <1>1 DEF CheckView, Pass, Refuse, SessionInv, TypeOK, Checked,
       Staged, Cleaned, Before, Inside, Alive, files, counters
  <2>3. Staged'
    BY <1>1 DEF CheckView, Pass, Refuse, SessionInv, TypeOK, Checked,
       Staged, Cleaned, Before, Inside, Alive, files, counters
  <2>4. Cleaned'
    BY <1>1 DEF CheckView, Pass, Refuse, SessionInv, TypeOK, Checked,
       Staged, Cleaned, Before, Inside, Alive, files, counters
  <2> QED BY <2>1, <2>2, <2>3, <2>4 DEF SessionInv
<1>2. ASSUME CheckShell PROVE SessionInv'
  <2>1. TypeOK'
    BY <1>2 DEF CheckShell, Pass, Refuse, SessionInv, TypeOK, Checked,
       Staged, Cleaned, Before, Inside, Alive, files, counters
  <2>2. Checked'
    BY <1>2 DEF CheckShell, Pass, Refuse, SessionInv, TypeOK, Checked,
       Staged, Cleaned, Before, Inside, Alive, files, counters
  <2>3. Staged'
    BY <1>2 DEF CheckShell, Pass, Refuse, SessionInv, TypeOK, Checked,
       Staged, Cleaned, Before, Inside, Alive, files, counters
  <2>4. Cleaned'
    BY <1>2 DEF CheckShell, Pass, Refuse, SessionInv, TypeOK, Checked,
       Staged, Cleaned, Before, Inside, Alive, files, counters
  <2> QED BY <2>1, <2>2, <2>3, <2>4 DEF SessionInv
<1>3. ASSUME FindTarget PROVE SessionInv'
  <2>1. TypeOK'
    BY <1>3 DEF FindTarget, Pass, Refuse, SessionInv, TypeOK, Checked,
       Staged, Cleaned, Before, Inside, Alive, files, counters
  <2>2. Checked'
    BY <1>3 DEF FindTarget, Pass, Refuse, SessionInv, TypeOK, Checked,
       Staged, Cleaned, Before, Inside, Alive, files, counters
  <2>3. Staged'
    BY <1>3 DEF FindTarget, Pass, Refuse, SessionInv, TypeOK, Checked,
       Staged, Cleaned, Before, Inside, Alive, files, counters
  <2>4. Cleaned'
    BY <1>3 DEF FindTarget, Pass, Refuse, SessionInv, TypeOK, Checked,
       Staged, Cleaned, Before, Inside, Alive, files, counters
  <2> QED BY <2>1, <2>2, <2>3, <2>4 DEF SessionInv
<1>4. ASSUME Accept PROVE SessionInv'
  <2>1. TypeOK'
    BY <1>4 DEF Accept, SessionInv, TypeOK, Checked, Staged, Cleaned,
       Before, Inside, Alive, files, counters
  <2>2. Checked'
    BY <1>4 DEF Accept, SessionInv, TypeOK, Checked, Staged, Cleaned,
       Before, Inside, Alive, files, counters
  <2>3. Staged'
    BY <1>4 DEF Accept, SessionInv, TypeOK, Checked, Staged, Cleaned,
       Before, Inside, Alive, files, counters
  <2>4. Cleaned'
    BY <1>4 DEF Accept, SessionInv, TypeOK, Checked, Staged, Cleaned,
       Before, Inside, Alive, files, counters
  <2> QED BY <2>1, <2>2, <2>3, <2>4 DEF SessionInv
<1>5. ASSUME SpawnFails PROVE SessionInv'
  <2>1. TypeOK'
    BY <1>5 DEF SpawnFails, StartFails, SessionInv, TypeOK, Checked, Staged,
       Cleaned, Before, Inside, Alive, files, counters
  <2>2. Checked'
    BY <1>5 DEF SpawnFails, StartFails, SessionInv, TypeOK, Checked, Staged,
       Cleaned, Before, Inside, Alive, files, counters
  <2>3. Staged'
    BY <1>5 DEF SpawnFails, StartFails, SessionInv, TypeOK, Checked, Staged,
       Cleaned, Before, Inside, Alive, files, counters
  <2>4. Cleaned'
    BY <1>5 DEF SpawnFails, StartFails, SessionInv, TypeOK, Checked, Staged,
       Cleaned, Before, Inside, Alive, files, counters
  <2> QED BY <2>1, <2>2, <2>3, <2>4 DEF SessionInv
<1>6. ASSUME Spawn PROVE SessionInv'
  <2>1. TypeOK'
    BY <1>6 DEF Spawn, SessionInv, TypeOK, Checked, Staged, Cleaned, Before,
       Inside, Alive, files, counters
  <2>2. Checked'
    BY <1>6 DEF Spawn, SessionInv, TypeOK, Checked, Staged, Cleaned, Before,
       Inside, Alive, files, counters
  <2>3. Staged'
    BY <1>6 DEF Spawn, SessionInv, TypeOK, Checked, Staged, Cleaned, Before,
       Inside, Alive, files, counters
  <2>4. Cleaned'
    BY <1>6 DEF Spawn, SessionInv, TypeOK, Checked, Staged, Cleaned, Before,
       Inside, Alive, files, counters
  <2> QED BY <2>1, <2>2, <2>3, <2>4 DEF SessionInv
<1>7. ASSUME RemoveKeys PROVE SessionInv'
  <2>1. TypeOK'
    BY <1>7 DEF RemoveKeys, SessionInv, TypeOK, Checked, Staged, Cleaned,
       Before, Inside, Alive, files, counters
  <2>2. Checked'
    BY <1>7 DEF RemoveKeys, SessionInv, TypeOK, Checked, Staged, Cleaned,
       Before, Inside, Alive, files, counters
  <2>3. Staged'
    BY <1>7 DEF RemoveKeys, SessionInv, TypeOK, Checked, Staged, Cleaned,
       Before, Inside, Alive, files, counters
  <2>4. Cleaned'
    BY <1>7 DEF RemoveKeys, SessionInv, TypeOK, Checked, Staged, Cleaned,
       Before, Inside, Alive, files, counters
  <2> QED BY <2>1, <2>2, <2>3, <2>4 DEF SessionInv
<1>8. ASSUME Receive PROVE SessionInv'
  <2>1. TypeOK'
    BY <1>8 DEF Receive, SessionInv, TypeOK, Checked, Staged, Cleaned,
       Before, Inside, Alive, files, counters
  <2>2. Checked'
    BY <1>8 DEF Receive, SessionInv, TypeOK, Checked, Staged, Cleaned,
       Before, Inside, Alive, files, counters
  <2>3. Staged'
    BY <1>8 DEF Receive, SessionInv, TypeOK, Checked, Staged, Cleaned,
       Before, Inside, Alive, files, counters
  <2>4. Cleaned'
    BY <1>8 DEF Receive, SessionInv, TypeOK, Checked, Staged, Cleaned,
       Before, Inside, Alive, files, counters
  <2> QED BY <2>1, <2>2, <2>3, <2>4 DEF SessionInv
<1>9. ASSUME Drain PROVE SessionInv'
  <2>1. TypeOK'
    BY <1>9 DEF Drain, SessionInv, TypeOK, Checked, Staged, Cleaned, Before,
       Inside, Alive, files, counters
  <2>2. Checked'
    BY <1>9 DEF Drain, SessionInv, TypeOK, Checked, Staged, Cleaned, Before,
       Inside, Alive, files, counters
  <2>3. Staged'
    BY <1>9 DEF Drain, SessionInv, TypeOK, Checked, Staged, Cleaned, Before,
       Inside, Alive, files, counters
  <2>4. Cleaned'
    BY <1>9 DEF Drain, SessionInv, TypeOK, Checked, Staged, Cleaned, Before,
       Inside, Alive, files, counters
  <2> QED BY <2>1, <2>2, <2>3, <2>4 DEF SessionInv
<1>10. ASSUME DrainFails PROVE SessionInv'
  <2>1. TypeOK'
    BY <1>10 DEF DrainFails, SessionInv, TypeOK, Checked, Staged, Cleaned,
       Before, Inside, Alive, files, counters
  <2>2. Checked'
    BY <1>10 DEF DrainFails, SessionInv, TypeOK, Checked, Staged, Cleaned,
       Before, Inside, Alive, files, counters
  <2>3. Staged'
    BY <1>10 DEF DrainFails, SessionInv, TypeOK, Checked, Staged, Cleaned,
       Before, Inside, Alive, files, counters
  <2>4. Cleaned'
    BY <1>10 DEF DrainFails, SessionInv, TypeOK, Checked, Staged, Cleaned,
       Before, Inside, Alive, files, counters
  <2> QED BY <2>1, <2>2, <2>3, <2>4 DEF SessionInv
<1>11. ASSUME Disconnect PROVE SessionInv'
  <2>1. TypeOK'
    BY <1>11 DEF Disconnect, SessionInv, TypeOK, Checked, Staged, Cleaned,
       Before, Inside, Alive, files, counters
  <2>2. Checked'
    BY <1>11 DEF Disconnect, SessionInv, TypeOK, Checked, Staged, Cleaned,
       Before, Inside, Alive, files, counters
  <2>3. Staged'
    BY <1>11 DEF Disconnect, SessionInv, TypeOK, Checked, Staged, Cleaned,
       Before, Inside, Alive, files, counters
  <2>4. Cleaned'
    BY <1>11 DEF Disconnect, SessionInv, TypeOK, Checked, Staged, Cleaned,
       Before, Inside, Alive, files, counters
  <2> QED BY <2>1, <2>2, <2>3, <2>4 DEF SessionInv
<1>12. ASSUME StopReader PROVE SessionInv'
  <2>1. TypeOK'
    BY <1>12 DEF StopReader, Alive, SessionInv, TypeOK, Checked, Staged,
       Cleaned, Before, Inside, files, counters
  <2>2. Checked'
    BY <1>12 DEF StopReader, Alive, SessionInv, TypeOK, Checked, Staged,
       Cleaned, Before, Inside, files, counters
  <2>3. Staged'
    BY <1>12 DEF StopReader, Alive, SessionInv, TypeOK, Checked, Staged,
       Cleaned, Before, Inside, files, counters
  <2>4. Cleaned'
    BY <1>12 DEF StopReader, Alive, SessionInv, TypeOK, Checked, Staged,
       Cleaned, Before, Inside, files, counters
  <2> QED BY <2>1, <2>2, <2>3, <2>4 DEF SessionInv
<1>13. ASSUME Reap PROVE SessionInv'
  <2>1. TypeOK'
    BY <1>13 DEF Reap, SessionInv, TypeOK, Checked, Staged, Cleaned, Before,
       Inside, Alive, files, counters
  <2>2. Checked'
    BY <1>13 DEF Reap, SessionInv, TypeOK, Checked, Staged, Cleaned, Before,
       Inside, Alive, files, counters
  <2>3. Staged'
    BY <1>13 DEF Reap, SessionInv, TypeOK, Checked, Staged, Cleaned, Before,
       Inside, Alive, files, counters
  <2>4. Cleaned'
    BY <1>13 DEF Reap, SessionInv, TypeOK, Checked, Staged, Cleaned, Before,
       Inside, Alive, files, counters
  <2> QED BY <2>1, <2>2, <2>3, <2>4 DEF SessionInv
<1>14. ASSUME MakeKeys PROVE SessionInv'
  <2>1. TypeOK'
    BY <1>14 DEF MakeKeys, SessionInv, TypeOK, Checked, Staged, Cleaned,
       Before, Inside, Alive, files, counters
  <2>2. Checked'
    BY <1>14 DEF MakeKeys, SessionInv, TypeOK, Checked, Staged, Cleaned,
       Before, Inside, Alive, files, counters
  <2>3. Staged'
    BY <1>14 DEF MakeKeys, SessionInv, TypeOK, Checked, Staged, Cleaned,
       Before, Inside, Alive, files, counters
  <2>4. Cleaned'
    BY <1>14 DEF MakeKeys, SessionInv, TypeOK, Checked, Staged, Cleaned,
       Before, Inside, Alive, files, counters
  <2> QED BY <2>1, <2>2, <2>3, <2>4 DEF SessionInv
<1>15. ASSUME KeysFail PROVE SessionInv'
  <2>1. TypeOK'
    BY <1>15 DEF KeysFail, StartFails, SessionInv, TypeOK, Checked, Staged,
       Cleaned, Before, Inside, Alive, files, counters
  <2>2. Checked'
    BY <1>15 DEF KeysFail, StartFails, SessionInv, TypeOK, Checked, Staged,
       Cleaned, Before, Inside, Alive, files, counters
  <2>3. Staged'
    BY <1>15 DEF KeysFail, StartFails, SessionInv, TypeOK, Checked, Staged,
       Cleaned, Before, Inside, Alive, files, counters
  <2>4. Cleaned'
    BY <1>15 DEF KeysFail, StartFails, SessionInv, TypeOK, Checked, Staged,
       Cleaned, Before, Inside, Alive, files, counters
  <2> QED BY <2>1, <2>2, <2>3, <2>4 DEF SessionInv
<1>16. ASSUME ReadEof PROVE SessionInv'
  <2>1. TypeOK'
    BY <1>16 DEF ReadEof, SessionInv, TypeOK, Checked, Staged, Cleaned,
       Before, Inside, Alive, files, counters
  <2>2. Checked'
    BY <1>16 DEF ReadEof, SessionInv, TypeOK, Checked, Staged, Cleaned,
       Before, Inside, Alive, files, counters
  <2>3. Staged'
    BY <1>16 DEF ReadEof, SessionInv, TypeOK, Checked, Staged, Cleaned,
       Before, Inside, Alive, files, counters
  <2>4. Cleaned'
    BY <1>16 DEF ReadEof, SessionInv, TypeOK, Checked, Staged, Cleaned,
       Before, Inside, Alive, files, counters
  <2> QED BY <2>1, <2>2, <2>3, <2>4 DEF SessionInv
<1>17. ASSUME Collect PROVE SessionInv'
  <2>1. TypeOK'
    BY <1>17 DEF Collect, SessionInv, TypeOK, Checked, Staged, Cleaned,
       Before, Inside, Alive, files, counters
  <2>2. Checked'
    BY <1>17 DEF Collect, SessionInv, TypeOK, Checked, Staged, Cleaned,
       Before, Inside, Alive, files, counters
  <2>3. Staged'
    BY <1>17 DEF Collect, SessionInv, TypeOK, Checked, Staged, Cleaned,
       Before, Inside, Alive, files, counters
  <2>4. Cleaned'
    BY <1>17 DEF Collect, SessionInv, TypeOK, Checked, Staged, Cleaned,
       Before, Inside, Alive, files, counters
  <2> QED BY <2>1, <2>2, <2>3, <2>4 DEF SessionInv
<1>18. ASSUME NEW p \in {"view", "shell"}, Change(p) PROVE SessionInv'
  <2>1. TypeOK'
    BY <1>18 DEF Change, SessionInv, TypeOK, Checked, Staged, Cleaned,
       Before, Inside, Alive, files, counters
  <2>2. Checked'
    BY <1>18 DEF Change, SessionInv, TypeOK, Checked, Staged, Cleaned,
       Before, Inside, Alive, files, counters
  <2>3. Staged'
    BY <1>18 DEF Change, SessionInv, TypeOK, Checked, Staged, Cleaned,
       Before, Inside, Alive, files, counters
  <2>4. Cleaned'
    BY <1>18 DEF Change, SessionInv, TypeOK, Checked, Staged, Cleaned,
       Before, Inside, Alive, files, counters
  <2> QED BY <2>1, <2>2, <2>3, <2>4 DEF SessionInv
<1>19. ASSUME Type PROVE SessionInv'
  <2>1. TypeOK'
    BY <1>19 DEF Type, SessionInv, TypeOK, Checked, Staged, Cleaned, Before,
       Inside, Alive, files, counters
  <2>2. Checked'
    BY <1>19 DEF Type, SessionInv, TypeOK, Checked, Staged, Cleaned, Before,
       Inside, Alive, files, counters
  <2>3. Staged'
    BY <1>19 DEF Type, SessionInv, TypeOK, Checked, Staged, Cleaned, Before,
       Inside, Alive, files, counters
  <2>4. Cleaned'
    BY <1>19 DEF Type, SessionInv, TypeOK, Checked, Staged, Cleaned, Before,
       Inside, Alive, files, counters
  <2> QED BY <2>1, <2>2, <2>3, <2>4 DEF SessionInv
<1>20. ASSUME Leave PROVE SessionInv'
  <2>1. TypeOK'
    BY <1>20 DEF Leave, SessionInv, TypeOK, Checked, Staged, Cleaned,
       Before, Inside, Alive, files, counters
  <2>2. Checked'
    BY <1>20 DEF Leave, SessionInv, TypeOK, Checked, Staged, Cleaned,
       Before, Inside, Alive, files, counters
  <2>3. Staged'
    BY <1>20 DEF Leave, SessionInv, TypeOK, Checked, Staged, Cleaned,
       Before, Inside, Alive, files, counters
  <2>4. Cleaned'
    BY <1>20 DEF Leave, SessionInv, TypeOK, Checked, Staged, Cleaned,
       Before, Inside, Alive, files, counters
  <2> QED BY <2>1, <2>2, <2>3, <2>4 DEF SessionInv
<1>21. ASSUME LoadKeys PROVE SessionInv'
  <2>1. TypeOK'
    BY <1>21 DEF LoadKeys, SessionInv, TypeOK, Checked, Staged, Cleaned,
       Before, Inside, Alive, files, counters
  <2>2. Checked'
    BY <1>21 DEF LoadKeys, SessionInv, TypeOK, Checked, Staged, Cleaned,
       Before, Inside, Alive, files, counters
  <2>3. Staged'
    BY <1>21 DEF LoadKeys, SessionInv, TypeOK, Checked, Staged, Cleaned,
       Before, Inside, Alive, files, counters
  <2>4. Cleaned'
    BY <1>21 DEF LoadKeys, SessionInv, TypeOK, Checked, Staged, Cleaned,
       Before, Inside, Alive, files, counters
  <2> QED BY <2>1, <2>2, <2>3, <2>4 DEF SessionInv
<1>22. ASSUME Exit PROVE SessionInv'
  <2>1. TypeOK'
    BY <1>22 DEF Exit, SessionInv, TypeOK, Checked, Staged, Cleaned, Before,
       Inside, Alive, files, counters
  <2>2. Checked'
    BY <1>22 DEF Exit, SessionInv, TypeOK, Checked, Staged, Cleaned, Before,
       Inside, Alive, files, counters
  <2>3. Staged'
    BY <1>22 DEF Exit, SessionInv, TypeOK, Checked, Staged, Cleaned, Before,
       Inside, Alive, files, counters
  <2>4. Cleaned'
    BY <1>22 DEF Exit, SessionInv, TypeOK, Checked, Staged, Cleaned, Before,
       Inside, Alive, files, counters
  <2> QED BY <2>1, <2>2, <2>3, <2>4 DEF SessionInv
<1>23. ASSUME Kill PROVE SessionInv'
  <2>1. TypeOK'
    BY <1>23 DEF Kill, SessionInv, TypeOK, Checked, Staged, Cleaned, Before,
       Inside, Alive, files, counters
  <2>2. Checked'
    BY <1>23 DEF Kill, SessionInv, TypeOK, Checked, Staged, Cleaned, Before,
       Inside, Alive, files, counters
  <2>3. Staged'
    BY <1>23 DEF Kill, SessionInv, TypeOK, Checked, Staged, Cleaned, Before,
       Inside, Alive, files, counters
  <2>4. Cleaned'
    BY <1>23 DEF Kill, SessionInv, TypeOK, Checked, Staged, Cleaned, Before,
       Inside, Alive, files, counters
  <2> QED BY <2>1, <2>2, <2>3, <2>4 DEF SessionInv
<1> QED
  BY <1>1, <1>2, <1>3, <1>4, <1>5, <1>6, <1>7, <1>8, <1>9, <1>10, <1>11,
     <1>12, <1>13, <1>14, <1>15, <1>16, <1>17, <1>18, <1>19, <1>20, <1>21,
     <1>22, <1>23 DEF Next, Consume, Background

LEMMA SessionNext == SessionInv /\ [Next]_vars => SessionInv'
<1> SUFFICES ASSUME SessionInv, [Next]_vars PROVE SessionInv'
  OBVIOUS
<1>1. CASE Next
  BY <1>1, NextSession
<1>2. CASE UNCHANGED vars
  BY <1>2 DEF vars, SessionInv, TypeOK, Checked, Staged, Cleaned, Before,
     Inside, Alive, files, counters
<1> QED BY <1>1, <1>2

LEMMA SessionAlways == Spec => []SessionInv
  BY SessionInit, SessionNext, PTL DEF Spec

\* Values stay in their types.
THEOREM SessionTypeCorrect == Spec => []TypeOK
<1>1. SessionInv => TypeOK
  BY DEF SessionInv
<1> QED BY <1>1, SessionAlways, PTL

\* No permission, no ssh: whenever permissions come and go during the checks, a
\* process is started only if both were held while the connection lasted.
THEOREM NoShellWithoutPermissions == Spec => []ShellNeedsPermissions
<1>1. SessionInv => ShellNeedsPermissions
  BY DEF SessionInv, Checked, ShellNeedsPermissions
<1> QED BY <1>1, SessionAlways, PTL

\* The key files are gone when the session streams and when its consumer ended,
\* unless daphne cut it off.
THEOREM KeysDoNotStay == Spec => []KeysAreTransient
<1>1. SessionInv => KeysAreTransient
  BY DEF SessionInv, TypeOK, Staged, Cleaned, KeysAreTransient, Ended
<1> QED BY <1>1, SessionAlways, PTL

\* A consumer that ended on its own has no process running.
THEOREM ConsumersReapTheirProcess == Spec => []NoOrphanedProcess
<1>1. SessionInv => NoOrphanedProcess
  BY DEF SessionInv, Cleaned, NoOrphanedProcess, Ended, Alive
<1> QED BY <1>1, SessionAlways, PTL
=============================================================================
