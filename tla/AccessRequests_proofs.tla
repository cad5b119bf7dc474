----------------------- MODULE AccessRequests_proofs ------------------------
(***************************************************************************)
(* Proofs about AccessRequests and AccessControl, for every number of      *)
(* users, servers, requests and processes, every overlap of the calls,     *)
(* every crash and every edit of a request: the state of the calls and the *)
(* rows; the agreement of permissions and approvals; AccessControl as an   *)
(* implementation of ServerAccess; the accounts the agent opens.           *)
(***************************************************************************)
EXTENDS AccessControl, TLAPS

\* Statements about a request are made by calls that have one, for a requester
\* and a server; only rows with a real status are written; the task writes no
\* other requester or server into a row, and a row is locked by one call.
CallsWellFormed ==
    /\ \A r \in Requests : Exists(r) => row[r].pair \in Pairs
    /\ \A a \in Processes :
        LET c == local[a] IN
        /\ c.pc \notin {"idle", "pick"} => c.req \in Requests /\ c.pair \in Pairs
        /\ c.pc \in {"save", "form", "commit"} =>
              c.new.status \in Status /\ c.new.pair \in Pairs
        /\ c.pc \in {"save", "form"} => c.new.pair = c.pair
        /\ a \in Workers /\ c.pc = "commit" => c.new.pair = c.pair
        /\ a \in Sweepers /\ c.pc = "commit" =>
              Exists(c.req) /\ c.new.pair = row[c.req].pair /\ c.new.status = "expired"
    /\ \A a, b \in Processes :
        local[a].pc = "commit" /\ local[b].pc = "commit" /\ local[a].req = local[b].req
        => a = b

\* What the rows, the answers of the query and the rows about to be written
\* say of approvals has been recorded, or is recorded by the commit.
ApprovalsRecorded ==
    /\ \A r \in Requests :
          row[r].status = "approved" => row[r].pair \in everApproved
    /\ \A a \in Processes :
          LET c == local[a] IN
          /\ c.pc = "assign" /\ c.valid => c.pair \in everApproved
          /\ c.pc = "commit" /\ c.valid =>
                \/ c.pair \in everApproved
                \/ c.new.status = "approved" /\ c.new.pair = c.pair

\* Copies that say approved name who decided, as the rows do.
CopiesAttributed ==
    \A a \in Processes :
        /\ local[a].pc \in {"save", "form", "commit"}
        /\ local[a].new.status = "approved"
        => local[a].new.decided

IInv == /\ TypeOK
        /\ CallsWellFormed
        /\ GrantsNeedApproval /\ ApprovalsRecorded
        /\ ApprovalsAttributed /\ CopiesAttributed
        /\ OwnersSeeTheirRequests

\* The assumptions on the constants, cited by every proof below.
USE RequestsAssumption, TimeAssumption, InputsAssumption, BoundsAssumption

LEMMA CallType ==
  ASSUME NEW at \in {"idle", "save", "own", "check", "assign", "form", "commit", "pick"},
         NEW r \in Requests \cup {NoRequest}, NEW p \in Pairs \cup {NoPair}, NEW x \in Row,
         NEW valid \in BOOLEAN, NEW n \in 0 .. 2
  PROVE  /\ Call(at, r, p, x, valid, n) \in Local
         /\ Call(at, r, p, x, valid, n).pc = at /\ Call(at, r, p, x, valid, n).req = r
         /\ Call(at, r, p, x, valid, n).pair = p /\ Call(at, r, p, x, valid, n).new = x
         /\ Call(at, r, p, x, valid, n).valid = valid
BY DEF Call, Local

LEMMA RowTypes ==
  /\ NoRow \in Row /\ GoneRow \in Row
  /\ \A x \in Row : /\ Expired(x) \in Row /\ Expired(x).status = "expired"
                     /\ Expired(x).pair = x.pair
BY DEF NoRow, GoneRow, Row, Expired, Status

\* The parts of a pair.
LEMMA PairTypes ==
  /\ \A p \in Pairs : p[1] \in Users
  /\ \A u \in Users, r \in Requests : <<u, r>> \in Users \X Requests
BY DEF Pairs

LEMMA InitIInv == Init => IInv
<1> SUFFICES ASSUME Init PROVE IInv
  OBVIOUS
<1>1. NoRow \in Row /\ Idle \in Local /\ Idle.pc = "idle"
  BY RowTypes DEF Idle, Call, Local
<1>2. TypeOK
  BY <1>1 DEF Init, TypeOK, Times
<1>3. \A r \in Requests : row[r].status = "unborn" /\ ~Exists(r)
  BY DEF Init, NoRow, Exists, Status
<1> QED
  BY <1>1, <1>2, <1>3
     DEF Init, IInv, CallsWellFormed, GrantsNeedApproval, ApprovalsRecorded,
         ApprovalsAttributed, CopiesAttributed, OwnersSeeTheirRequests

LEMMA StutterIInv == IInv /\ UNCHANGED vars => IInv'
BY DEF vars, table, perms, world, trail, IInv, TypeOK, CallsWellFormed,
       GrantsNeedApproval, ApprovalsRecorded, ApprovalsAttributed,
       CopiesAttributed, OwnersSeeTheirRequests, Exists

-----------------------------------------------------------------------------
\* A copy of row r that the API has changed.
Copied(r, x) ==
    /\ x \in Row /\ x.status \in Status /\ x.pair = row[r].pair
    /\ x.status = "approved" => x.decided

\* What users and administrators ask for: a new row, a changed copy, or a form.
LEMMA AskCases ==
  ASSUME IInv, NEW w \in Workers, Ask(w)
  PROVE  \/ \E r \in Requests, p \in Pairs, e \in Expiries : CreateRequest(w, r, p, e)
         \/ \E r \in Requests : \E x : Copied(r, x) /\ Patch(w, r, x)
         \/ \E r \in Requests, p \in Pairs, s \in FormStatuses, e \in Expiries :
               AdminForm(w, r, p, s, e)
<1> USE DEF Copied
<1>0. row \in [Requests -> Row] /\ ApprovalsAttributed
  BY DEF IInv, TypeOK
<1>1. ASSUME NEW r \in Requests, NEW s \in Decisions,
             NEW e \in (Expiries \ {Never}) \cup {row[r].expires}, AdminDecide(w, r, s, e)
      PROVE  \E x : Copied(r, x) /\ Patch(w, r, x)
  <2> DEFINE x == [row[r] EXCEPT !.status = s, !.expires = e, !.decided = TRUE]
  <2>1. row[r] \in Row /\ e \in Times \cup {Never} /\ s \in Status
    BY <1>0 DEF Row, Times, Status
  <2>2. x \in Row /\ x.status = s /\ x.decided /\ x.pair = row[r].pair
    BY <2>1 DEF Row
  <2>3. Patch(w, r, x)
    BY <1>1 DEF AdminDecide
  <2> QED BY <2>1, <2>2, <2>3
<1>2. ASSUME NEW r \in Requests, NEW e \in Expiries \ {Never}, AdminReschedule(w, r, e)
      PROVE  \E x : Copied(r, x) /\ Patch(w, r, x)
  <2> DEFINE x == [row[r] EXCEPT !.expires = e]
  <2>1. row[r] \in Row /\ e \in Times \cup {Never}
    BY <1>0 DEF Times
  <2>2. /\ x \in Row /\ x.status = row[r].status /\ x.decided = row[r].decided
        /\ x.pair = row[r].pair
    BY <2>1 DEF Row
  <2>3. Patch(w, r, x) /\ row[r].status \in Status
    BY <1>2 DEF AdminReschedule, Patch, Exists
  <2> QED BY <1>0, <2>2, <2>3 DEF ApprovalsAttributed
<1>3. ASSUME NEW r \in Requests, OwnerCancel(w, r)
      PROVE  \E x : Copied(r, x) /\ Patch(w, r, x)
  <2> DEFINE x == [row[r] EXCEPT !.status = "cancelled", !.decided = FALSE]
  <2>1. x \in Row /\ x.status = "cancelled" /\ x.pair = row[r].pair
    BY <1>0 DEF Row, Status
  <2>2. Patch(w, r, x)
    BY <1>3 DEF OwnerCancel
  <2> QED BY <2>1, <2>2 DEF Status
<1> QED BY <1>1, <1>2, <1>3 DEF Ask

\* Every step keeps the types.
LEMMA NextTypes ==
  ASSUME IInv, Next
  PROVE  TypeOK'
<1> USE DEF IInv
<1>1. ASSUME NEW w \in Workers, NEW r \in Requests, NEW p \in Pairs, NEW e \in
      Expiries, CreateRequest(w, r, p, e)  PROVE  TypeOK'
  <2>1. row' \in [Requests -> Row]
    BY <1>1 DEF CreateRequest, Commit, TypeOK, Row, Status, Times
  <2>2. local' \in [Processes -> Local]
    BY <1>1, RowTypes DEF CreateRequest, Goto, TypeOK, Processes, Call, Local
  <2>3. overtaken' \in SUBSET Processes
    BY <1>1 DEF CreateRequest, Commit, Asking, TypeOK
  <2>4. everApproved' \in SUBSET Pairs /\ handed' \in SUBSET (Users \X Requests)
    BY <1>1, PairTypes DEF CreateRequest, Commit, TypeOK
  <2> QED BY <1>1, <2>1, <2>2, <2>3, <2>4
          DEF CreateRequest, Commit, TypeOK, perms, world
<1>2. ASSUME NEW w \in Workers, NEW r \in Requests, NEW x, Copied(r, x), Patch(w, r,
      x)  PROVE  TypeOK'
  <2>1. local' \in [Processes -> Local]
    BY <1>2 DEF Copied, Patch, TypeOK, CallsWellFormed, Exists, Processes, Call, Local
  <2> QED BY <1>2, <2>1 DEF Patch, TypeOK, table, perms, world, trail
<1>3. ASSUME NEW w \in Workers, NEW r \in Requests, NEW p \in Pairs, NEW s \in
      FormStatuses, NEW e \in Expiries, AdminForm(w, r, p, s, e)  PROVE  TypeOK'
  <2>1. FormRow(row[r], p, s, e) \in Row
    BY DEF FormRow, TypeOK, Row, Status, Times
  <2>2. local' \in [Processes -> Local]
    BY <1>3, <2>1 DEF AdminForm, TypeOK, Processes, Call, Local
  <2> QED BY <1>3, <2>2 DEF AdminForm, TypeOK, table, perms, world, trail
<1>4. ASSUME NEW w \in Workers, AssignOwner(w)  PROVE  TypeOK'
  <2>1. local' \in [Processes -> Local]
    BY <1>4, RowTypes DEF AssignOwner, Goto, TypeOK, CallsWellFormed, Local, Processes, Call
  <2> QED BY <1>4, <2>1, PairTypes
          DEF AssignOwner, TypeOK, CallsWellFormed, Processes, table, world, trail
<1>5. ASSUME NEW w \in Workers, Save(w)  PROVE  TypeOK'
  <2> DEFINE c == local[w]
  <2>1. /\ c \in Local /\ c.req \in Requests /\ c.pair \in Pairs /\ c.new \in Row
        /\ c.new.pair \in Pairs
    BY <1>5 DEF Save, TypeOK, CallsWellFormed, Processes, Local
  <2>2. local' \in [Processes -> Local]
    BY <1>5, <2>1, RowTypes DEF Save, Goto, TypeOK, Local, Processes, Call
  <2>3. Shaken(c.req, c.new) \subseteq Pairs
    BY <2>1 DEF Shaken, CallsWellFormed, Exists, Status
  <2>4. astray' \in SUBSET Pairs
    BY <1>5, <2>3 DEF Save, TypeOK
  <2>5. overtaken' \in SUBSET Processes
    BY <1>5 DEF Save, Commit, Asking, TypeOK
  <2> QED BY <1>5, <2>1, <2>2, <2>4, <2>5, PairTypes
          DEF Save, Commit, TypeOK, perms, world
<1>6. ASSUME NEW a \in Processes, SyncCheck(a)  PROVE  TypeOK'
  <2>1. local' \in [Processes -> Local]
    <3>1. local[a] \in Local /\ HasValidAccess(row, local[a].pair) \in BOOLEAN
      BY DEF TypeOK, HasValidAccess
    <3> QED BY <1>6, <3>1, RowTypes DEF SyncCheck, TypeOK, Local, Call
  <2> QED BY <1>6, <2>1 DEF SyncCheck, TypeOK, table, perms, world, trail
<1>7. ASSUME NEW a \in Processes, SyncAssign(a)  PROVE  TypeOK'
  <2>1. local[a] \in Local /\ local[a].req \in Requests /\ local[a].pair \in Pairs
    BY <1>7 DEF SyncAssign, TypeOK, CallsWellFormed
  <2>2. \E k \in {"check", "idle", "pick"}, r \in Requests \cup {NoRequest},
           p \in Pairs \cup {NoPair}, n \in 0 .. 2 : Goto(a, k, r, p, n)
    BY <1>7, <2>1 DEF SyncAssign, Return
  <2>3. local' \in [Processes -> Local]
    BY <2>2, RowTypes DEF Goto, TypeOK, Call, Local
  <2>4. grants' \in SUBSET Pairs /\ astray' \in SUBSET Pairs
    BY <1>7, <2>1 DEF SyncAssign, SetGrant, Astray, TypeOK
  <2> QED BY <1>7, <2>3, <2>4 DEF SyncAssign, TypeOK, table, world
<1>8. ASSUME NEW w \in Workers, FormUpdate(w)  PROVE  TypeOK'
  <2>1. local' \in [Processes -> Local]
    <3>1. /\ local[w] \in Local
          /\ HasValidAccess([row EXCEPT ![local[w].req] = local[w].new], local[w].pair) \in BOOLEAN
      BY DEF TypeOK, HasValidAccess, Processes
    <3>2. local[w].req \in Requests /\ local[w].new \in Row /\ local[w].pair \in Pairs
      BY <1>8, <3>1 DEF FormUpdate, CallsWellFormed, Processes, Local
    <3> QED BY <1>8, <3>1, <3>2 DEF FormUpdate, TypeOK, Local, Call, Processes
  <2> QED BY <1>8, <2>1 DEF FormUpdate, TypeOK, table, perms, world, trail
<1>9. ASSUME NEW w \in Workers, FormCommit(w)  PROVE  TypeOK'
  <2> DEFINE c == local[w]
  <2>1. /\ c \in Local /\ c.req \in Requests /\ c.pair \in Pairs /\ c.new \in Row
        /\ c.new.pair \in Pairs
    BY <1>9 DEF FormCommit, TypeOK, CallsWellFormed, Processes, Local
  <2>2. local' \in [Processes -> Local]
    BY <1>9, <2>1, RowTypes DEF FormCommit, Goto, Return, TypeOK, Local, Processes, Call
  <2>3. Shaken(c.req, c.new) \subseteq Pairs
    BY <2>1 DEF Shaken, CallsWellFormed, Exists, Status
  <2>4. grants' \in SUBSET Pairs /\ astray' \in SUBSET Pairs
    BY <1>9, <2>1, <2>3 DEF FormCommit, SetGrant, Astray, TypeOK
  <2>5. overtaken' \in SUBSET Processes
    BY <1>9 DEF FormCommit, Commit, Asking, TypeOK
  <2> QED BY <1>9, <2>1, <2>2, <2>4, <2>5, PairTypes
          DEF FormCommit, Commit, TypeOK, world
<1>10. ASSUME NEW s \in Sweepers, SweepStart(s)  PROVE  TypeOK'
  <2>1. local' \in [Processes -> Local]
    BY <1>10, RowTypes DEF SweepStart, Goto, TypeOK, Processes, Call, Local
  <2>2. {<<r, row[r].pair>> : r \in {q \in Requests : Overdue(row[q])}}
        \subseteq Requests \X Pairs
    BY DEF Overdue, CallsWellFormed, Exists, Status
  <2> QED BY <1>10, <2>1, <2>2 DEF SweepStart, TypeOK, table, perms, world, trail
<1>11. ASSUME NEW s \in Sweepers, NEW r \in Requests, NEW p \in Pairs, SweepUpdate(s,
      r, p)  PROVE  TypeOK'
  <2> DEFINE x == Expired(row[r])
  <2>1. x \in Row /\ HasValidAccess([row EXCEPT ![r] = x], p) \in BOOLEAN
    BY RowTypes DEF TypeOK, HasValidAccess
  <2>2. local' = [local EXCEPT ![s] =
           Call("commit", r, p, x, HasValidAccess([row EXCEPT ![r] = x], p), 1)]
    BY <1>11 DEF SweepUpdate
  <2> HIDE DEF x
  <2>3. local' \in [Processes -> Local]
    BY <2>1, <2>2 DEF TypeOK, Processes, Call, Local
  <2> QED BY <1>11, <2>3 DEF SweepUpdate, TypeOK, table, perms, world, trail
<1>12. ASSUME NEW s \in Sweepers, NEW r \in Requests, NEW p \in Pairs, SweepMissing(s,
      r, p)  PROVE  TypeOK'
  <2>1. local' \in [Processes -> Local]
    BY <1>12, RowTypes DEF SweepMissing, Goto, Return, TypeOK, Processes, Call, Local
  <2> QED BY <1>12, <2>1 DEF SweepMissing, TypeOK, table, perms, world, trail
<1>13. ASSUME NEW s \in Sweepers, SweepCommit(s)  PROVE  TypeOK'
  <2> DEFINE c == local[s]
  <2>1. /\ c \in Local /\ c.req \in Requests /\ c.pair \in Pairs /\ c.new \in Row
        /\ c.new.pair \in Pairs
    BY <1>13 DEF SweepCommit, TypeOK, CallsWellFormed, Processes, Local
  <2>2. local' \in [Processes -> Local]
    BY <1>13, <2>1, RowTypes DEF SweepCommit, Goto, Return, TypeOK, Local, Processes, Call
  <2>3. Shaken(c.req, c.new) \subseteq Pairs
    BY <2>1 DEF Shaken, CallsWellFormed, Exists, Status
  <2>4. grants' \in SUBSET Pairs /\ astray' \in SUBSET Pairs
    BY <1>13, <2>1, <2>3 DEF SweepCommit, SetGrant, Astray, TypeOK
  <2>5. overtaken' \in SUBSET Processes
    BY <1>13 DEF SweepCommit, Commit, Asking, TypeOK
  <2> QED BY <1>13, <2>1, <2>2, <2>4, <2>5, PairTypes
          DEF SweepCommit, Commit, TypeOK, world
<1>14. ASSUME NEW s \in Sweepers, SweepEnd(s)  PROVE  TypeOK'
  <2>1. local' \in [Processes -> Local]
    BY <1>14, RowTypes DEF SweepEnd, Goto, Return, TypeOK, Processes, Call, Local
  <2> QED BY <1>14, <2>1 DEF SweepEnd, TypeOK, table, perms, world, trail
<1>15. ASSUME NEW r \in Requests, DeleteRequest(r)  PROVE  TypeOK'
  <2>1. GoneRow \in Row /\ Shaken(r, GoneRow) \subseteq Pairs
    BY RowTypes DEF Shaken, GoneRow, NoRow, CallsWellFormed, Exists, Status
  <2> QED BY <1>15, <2>1 DEF DeleteRequest, Asking, TypeOK, perms, world
<1>16. ASSUME NEW u \in Users, Erase(u)  PROVE  TypeOK'
  <2>1. row' \in [Requests -> Row]
    <3> DEFINE y(r) == [row[r] EXCEPT !.status = "revoked", !.expires = now, !.decided = TRUE]
    <3>1. \A r \in Requests : row[r] \in Row /\ y(r) \in Row
      <4>1. \A r \in Requests : row[r] \in Row
        BY DEF TypeOK
      <4> QED BY <4>1 DEF TypeOK, Row, Status, Times
    <3>2. \E o \in SUBSET Requests :
            row' = [r \in Requests |-> IF r \in o THEN y(r) ELSE row[r]]
      BY <1>16 DEF Erase
    <3> HIDE DEF y
    <3> QED BY <3>1, <3>2
  <2> QED BY <1>16, <2>1 DEF Erase, Asking, TypeOK
<1>17. ASSUME NEW a \in Processes, Crash(a)  PROVE  TypeOK'
  <2>1. local' \in [Processes -> Local]
    BY <1>17, RowTypes DEF Crash, Goto, Return, TypeOK, Processes, Call, Local
  <2>2. astray' \in SUBSET Pairs
    BY <1>17 DEF Crash, TypeOK, CallsWellFormed
  <2> QED BY <1>17, <2>1, <2>2 DEF Crash, TypeOK, table, perms
<1>18. ASSUME Tick  PROVE  TypeOK'
  BY <1>18 DEF Tick, TypeOK, Times, table, perms, trail
<1> QED BY <1>1, <1>2, <1>3, <1>4, <1>5, <1>6, <1>7, <1>8, <1>9, <1>10, <1>11, <1>12,
     <1>13, <1>14, <1>15, <1>16, <1>17, <1>18, AskCases DEF IInv, Next, Serve, Sweep,
     Processes

-----------------------------------------------------------------------------
\* An erasure revokes open requests of the user, and changes nothing else in them.
Erased(u) ==
    /\ \A r \in Requests :
          /\ row'[r].pair = row[r].pair
          /\ row'[r] = row[r] \/ /\ row'[r].status = "revoked" /\ row[r].pair[1] = u
                                 /\ row[r].status \in {"pending", "approved"}
                                 /\ ~Locked(r)
          /\ (Exists(r)' <=> Exists(r))
          /\ row'[r].status = "approved" => row[r].pair[1] # u
    /\ erased' = erased \cup {u}
    /\ ownerPerm' = {o \in ownerPerm : o[1] # u}
    /\ grants' = grants \ ({u} \X Servers)
    /\ overtaken' = overtaken \cup Asking({u} \X Servers)
    /\ astray' = astray \ ({u} \X Servers)
    /\ UNCHANGED <<now, local, todo, crashes, everApproved, handed>>

LEMMA EraseEffect ==
  ASSUME IInv, NEW u \in Users, Erase(u)
  PROVE  Erased(u)
<1>1. row \in [Requests -> Row]
  BY DEF IInv, TypeOK
<1> DEFINE y(r) == [row[r] EXCEPT !.status = "revoked", !.expires = now, !.decided = TRUE]
<1>2. ASSUME NEW r \in Requests
      PROVE  \/ /\ row'[r] = row[r]
                /\ ~(row[r].status = "approved" /\ row[r].pair[1] = u)
             \/ /\ row'[r] = y(r) /\ ~Locked(r)
                /\ row[r].status \in {"pending", "approved"} /\ row[r].pair[1] = u
  BY <1>1 DEF Erase
<1>3. ASSUME NEW r \in Requests
      PROVE  y(r).status = "revoked" /\ y(r).pair = row[r].pair
  <2>1. row[r] \in Row
    BY <1>1
  <2> QED BY <2>1 DEF Row
<1>4. /\ erased' = erased \cup {u}
      /\ ownerPerm' = {o \in ownerPerm : o[1] # u}
      /\ grants' = grants \ ({u} \X Servers)
      /\ overtaken' = overtaken \cup Asking({u} \X Servers)
      /\ astray' = astray \ ({u} \X Servers)
      /\ UNCHANGED <<now, local, todo, crashes, everApproved, handed>>
  BY Zenon DEF Erase
<1> HIDE DEF y
<1> QED BY <1>2, <1>3, <1>4 DEF Erased, Exists, Status

\* The update of the task.
ExpiryWritten(s, r, p, x, v) ==
    /\ x \in Row /\ x.status = "expired" /\ x.pair = row[r].pair
    /\ local' = [local EXCEPT ![s] = Call("commit", r, p, x, v, 1)]
    /\ v = HasValidAccess([row EXCEPT ![r] = x], p)
    /\ Exists(r) /\ ~Locked(r) /\ local[s].pc = "pick"
    /\ UNCHANGED <<table, perms, world, trail>>

LEMMA SweepUpdateEffect ==
  ASSUME IInv, NEW s \in Sweepers, NEW r \in Requests, NEW p \in Pairs, SweepUpdate(s, r, p)
  PROVE  \E x, v : ExpiryWritten(s, r, p, x, v)
BY RowTypes DEF ExpiryWritten, SweepUpdate, IInv, TypeOK

\* The requesters who saw their rows do so as long as these rows, their
\* permissions and the calls that assign them stay.
LEMMA OwnersKept ==
  ASSUME IInv,
         \A r \in Requests : Exists(r)' => Exists(r) /\ row'[r].pair = row[r].pair,
         erased \subseteq erased', handed \subseteq handed', crashes' = 0 => crashes = 0,
         \A u \in Users \ erased', r \in Requests :
            <<u, r>> \in ownerPerm => <<u, r>> \in ownerPerm',
         crashes' = 0 =>
            \A a \in Processes : local[a].pc = "own" => local'[a] = local[a]
  PROVE  OwnersSeeTheirRequests'
<1>1. \A r \in Requests : Exists(r) => row[r].pair[1] \in Users
  BY PairTypes DEF IInv, CallsWellFormed
<1> QED BY <1>1 DEF IInv, OwnersSeeTheirRequests

\* Every step keeps the calls well formed.
LEMMA NextCalls ==
  ASSUME IInv, Next
  PROVE  CallsWellFormed'
<1>0. /\ row \in [Requests -> Row] /\ local \in [Processes -> Local]
      /\ \A r \in Requests : row[r] \in Row
      /\ \A a \in Processes : local[a] \in Local
  BY DEF IInv, TypeOK
<1>1. ASSUME NEW w \in Workers, NEW r \in Requests, NEW p \in Pairs, NEW e \in
      Expiries, CreateRequest(w, r, p, e)  PROVE  CallsWellFormed'
  BY <1>0, <1>1 DEF CreateRequest, Commit, Goto, CallsWellFormed, Exists, Processes, IInv,
         Locked, NoRow, Fresh, Status, Free, table, perms, world, trail, Call
<1>2. ASSUME NEW w \in Workers, NEW r \in Requests, NEW x, Copied(r, x), Patch(w, r,
      x)  PROVE  CallsWellFormed'
  BY <1>0, <1>2 DEF Copied, Patch, CallsWellFormed, Exists, Processes, IInv, Locked, NoRow,
         Fresh, Status, Free, table, perms, world, trail, Call
<1>3. ASSUME NEW w \in Workers, NEW r \in Requests, NEW p \in Pairs, NEW s \in
      FormStatuses, NEW e \in Expiries, AdminForm(w, r, p, s, e)  PROVE
      CallsWellFormed'
  BY <1>0, <1>3 DEF AdminForm, FormRow, AdminStatus, CallsWellFormed, Exists, Processes,
         IInv, Locked, NoRow, Fresh, Status, Free, table, perms, world, trail, Call
<1>4. ASSUME NEW w \in Workers, AssignOwner(w)  PROVE  CallsWellFormed'
  BY <1>0, <1>4 DEF AssignOwner, Goto, CallsWellFormed, Exists, Processes, IInv, Locked,
         NoRow, Fresh, Status, Free, table, perms, world, trail, Call
<1>5. ASSUME NEW w \in Workers, Save(w)  PROVE  CallsWellFormed'
  BY <1>0, <1>5 DEF Save, Commit, Goto, CallsWellFormed, Exists, Processes, IInv, Locked,
         NoRow, Fresh, Status, Free, table, perms, world, trail, Call
<1>6. ASSUME NEW a \in Processes, SyncCheck(a)  PROVE  CallsWellFormed'
  BY <1>0, <1>6 DEF SyncCheck, CallsWellFormed, Exists, Processes, IInv, Locked, NoRow,
         Fresh, Status, Free, table, perms, world, trail, Call
<1>7. ASSUME NEW a \in Processes, SyncAssign(a)  PROVE  CallsWellFormed'
  BY <1>0, <1>7 DEF SyncAssign, SetGrant, Goto, Return, CallsWellFormed, Exists, Processes,
         IInv, Locked, NoRow, Fresh, Status, Free, table, perms, world, trail, Call
<1>8. ASSUME NEW w \in Workers, FormUpdate(w)  PROVE  CallsWellFormed'
  BY <1>0, <1>8 DEF FormUpdate, CallsWellFormed, Exists, Processes, IInv, Locked, NoRow,
         Fresh, Status, Free, table, perms, world, trail, Call
<1>9. ASSUME NEW w \in Workers, FormCommit(w)  PROVE  CallsWellFormed'
  BY <1>0, <1>9 DEF FormCommit, Commit, SetGrant, Goto, Return, CallsWellFormed, Exists,
         Processes, IInv, Locked, NoRow, Fresh, Status, Free, table, perms, world,
         trail, Call
<1>10. ASSUME NEW s \in Sweepers, SweepStart(s)  PROVE  CallsWellFormed'
  BY <1>0, <1>10, RowTypes DEF SweepStart, Goto, CallsWellFormed, Exists, Processes, IInv,
         Locked, NoRow, Fresh, Status, Free, table, perms, world, trail, Call
<1>11. ASSUME NEW s \in Sweepers, NEW r \in Requests, NEW p \in Pairs, SweepUpdate(s,
      r, p)  PROVE  CallsWellFormed'
  <2>1. PICK x, v : ExpiryWritten(s, r, p, x, v)
    BY <1>0, <1>11, SweepUpdateEffect
  <2> QED BY <1>0, <2>1
          DEF ExpiryWritten, CallsWellFormed, Exists, Processes, IInv, Locked, Status,
              table, Call
<1>12. ASSUME NEW s \in Sweepers, NEW r \in Requests, NEW p \in Pairs, SweepMissing(s,
      r, p)  PROVE  CallsWellFormed'
  BY <1>0, <1>12 DEF SweepMissing, Goto, Return, CallsWellFormed, Exists, Processes, IInv,
         Locked, NoRow, Fresh, Status, Free, table, perms, world, trail, Call
<1>13. ASSUME NEW s \in Sweepers, SweepCommit(s)  PROVE  CallsWellFormed'
  BY <1>0, <1>13 DEF SweepCommit, Commit, SetGrant, Goto, CallsWellFormed, Exists,
         Processes, IInv, Locked, NoRow, Fresh, Status, Free, table, perms, world,
         trail, Call
<1>14. ASSUME NEW s \in Sweepers, SweepEnd(s)  PROVE  CallsWellFormed'
  BY <1>0, <1>14 DEF SweepEnd, Goto, Return, CallsWellFormed, Exists, Processes, IInv,
         Locked, NoRow, Fresh, Status, Free, table, perms, world, trail, Call
<1>15. ASSUME NEW r \in Requests, DeleteRequest(r)  PROVE  CallsWellFormed'
  BY <1>0, <1>15 DEF DeleteRequest, GoneRow, CallsWellFormed, Exists, Processes, IInv,
         Locked, NoRow, Fresh, Status, Free, table, perms, world, trail, Call
<1>16. ASSUME NEW u \in Users, Erase(u)  PROVE  CallsWellFormed'
  <2>1. /\ UNCHANGED <<local, everApproved>> /\ grants' \subseteq grants
        /\ \A r \in Requests :
              /\ row'[r].pair = row[r].pair /\ (Exists(r)' <=> Exists(r))
              /\ row'[r] = row[r] \/ row'[r].status = "revoked"
    <3>1. Erased(u)
      BY <1>0, <1>16, EraseEffect
    <3> QED BY <3>1 DEF Erased
  <2> QED BY <1>0, <2>1 DEF CallsWellFormed, Processes, IInv, Exists
<1>17. ASSUME NEW a \in Processes, Crash(a)  PROVE  CallsWellFormed'
  BY <1>0, <1>17 DEF Crash, Goto, Return, CallsWellFormed, Exists, Processes, IInv, Locked,
         NoRow, Fresh, Status, Free, table, perms, world, trail, Call
<1>18. ASSUME Tick  PROVE  CallsWellFormed'
  BY <1>0, <1>18 DEF Tick, CallsWellFormed, Exists, Processes, IInv, Locked, NoRow, Fresh,
         Status, Free, table, perms, world, trail, Call
<1> QED BY <1>1, <1>2, <1>3, <1>4, <1>5, <1>6, <1>7, <1>8, <1>9, <1>10, <1>11, <1>12,
     <1>13, <1>14, <1>15, <1>16, <1>17, <1>18, AskCases DEF IInv, Next, Serve, Sweep,
     Processes

\* A permission is assigned on recorded approvals only.
LEMMA NextApprovals ==
  ASSUME IInv, Next
  PROVE  (GrantsNeedApproval /\ ApprovalsRecorded)'
<1>0. /\ row \in [Requests -> Row] /\ local \in [Processes -> Local]
      /\ \A r \in Requests : row[r] \in Row
      /\ \A a \in Processes : local[a] \in Local
  BY DEF IInv, TypeOK
<1>1. ASSUME NEW w \in Workers, NEW r \in Requests, NEW p \in Pairs, NEW e \in
      Expiries, CreateRequest(w, r, p, e)  PROVE  (GrantsNeedApproval /\
      ApprovalsRecorded)'
  BY <1>0, <1>1 DEF CreateRequest, Commit, Goto, GrantsNeedApproval, ApprovalsRecorded,
         Processes, IInv, NoRow, table, perms, world, trail, Call
<1>2. ASSUME NEW w \in Workers, NEW r \in Requests, NEW x, Copied(r, x), Patch(w, r,
      x)  PROVE  (GrantsNeedApproval /\ ApprovalsRecorded)'
  BY <1>0, <1>2 DEF Copied, Patch, GrantsNeedApproval, ApprovalsRecorded, Processes, IInv,
         NoRow, table, perms, world, trail, Call
<1>3. ASSUME NEW w \in Workers, NEW r \in Requests, NEW p \in Pairs, NEW s \in
      FormStatuses, NEW e \in Expiries, AdminForm(w, r, p, s, e)  PROVE
      (GrantsNeedApproval /\ ApprovalsRecorded)'
  BY <1>0, <1>3 DEF AdminForm, FormRow, AdminStatus, GrantsNeedApproval, ApprovalsRecorded,
         Processes, IInv, NoRow, table, perms, world, trail, Call
<1>4. ASSUME NEW w \in Workers, AssignOwner(w)  PROVE  (GrantsNeedApproval /\
      ApprovalsRecorded)'
  BY <1>0, <1>4 DEF AssignOwner, Goto, GrantsNeedApproval, ApprovalsRecorded, Processes,
         IInv, NoRow, table, perms, world, trail, Call
<1>5. ASSUME NEW w \in Workers, Save(w)  PROVE  (GrantsNeedApproval /\
      ApprovalsRecorded)'
  BY <1>0, <1>5 DEF Save, Commit, Goto, CallsWellFormed, GrantsNeedApproval,
         ApprovalsRecorded, Processes, IInv, NoRow, table, perms, world, trail, Call
<1>6. ASSUME NEW a \in Processes, SyncCheck(a)  PROVE  (GrantsNeedApproval /\
      ApprovalsRecorded)'
  BY <1>0, <1>6 DEF SyncCheck, HasValidAccess, Valid, GrantsNeedApproval, ApprovalsRecorded,
         Processes, IInv, NoRow, table, perms, world, trail, Call
<1>7. ASSUME NEW a \in Processes, SyncAssign(a)  PROVE  (GrantsNeedApproval /\
      ApprovalsRecorded)'
  BY <1>0, <1>7 DEF SyncAssign, SetGrant, Goto, Return, GrantsNeedApproval,
         ApprovalsRecorded, Processes, IInv, NoRow, table, perms, world, trail, Call
<1>8. ASSUME NEW w \in Workers, FormUpdate(w)  PROVE  (GrantsNeedApproval /\
      ApprovalsRecorded)'
  BY <1>0, <1>8 DEF FormUpdate, HasValidAccess, Valid, CallsWellFormed, GrantsNeedApproval,
         ApprovalsRecorded, Processes, IInv, NoRow, table, perms, world, trail, Call
<1>9. ASSUME NEW w \in Workers, FormCommit(w)  PROVE  (GrantsNeedApproval /\
      ApprovalsRecorded)'
  BY <1>0, <1>9 DEF FormCommit, Commit, SetGrant, Goto, Return, CallsWellFormed,
         GrantsNeedApproval, ApprovalsRecorded, Processes, IInv, NoRow, table, perms,
         world, trail, Call
<1>10. ASSUME NEW s \in Sweepers, SweepStart(s)  PROVE  (GrantsNeedApproval /\
      ApprovalsRecorded)'
  BY <1>0, <1>10 DEF SweepStart, Goto, GrantsNeedApproval, ApprovalsRecorded, Processes,
         IInv, NoRow, table, perms, world, trail, Call
<1>11. ASSUME NEW s \in Sweepers, NEW r \in Requests, NEW p \in Pairs, SweepUpdate(s,
      r, p)  PROVE  (GrantsNeedApproval /\ ApprovalsRecorded)'
  <2>1. PICK x, v : ExpiryWritten(s, r, p, x, v)
    BY <1>0, <1>11, SweepUpdateEffect
  <2>2. v => p \in everApproved
    BY <1>0, <2>1
       DEF ExpiryWritten, HasValidAccess, Valid, IInv, ApprovalsRecorded
  <2> QED BY <1>0, <2>1, <2>2
          DEF ExpiryWritten, GrantsNeedApproval, ApprovalsRecorded, Processes, IInv, table,
              perms, Call
<1>12. ASSUME NEW s \in Sweepers, NEW r \in Requests, NEW p \in Pairs, SweepMissing(s,
      r, p)  PROVE  (GrantsNeedApproval /\ ApprovalsRecorded)'
  BY <1>0, <1>12 DEF SweepMissing, Goto, Return, GrantsNeedApproval, ApprovalsRecorded,
         Processes, IInv, NoRow, table, perms, world, trail, Call
<1>13. ASSUME NEW s \in Sweepers, SweepCommit(s)  PROVE  (GrantsNeedApproval /\
      ApprovalsRecorded)'
  BY <1>0, <1>13 DEF SweepCommit, Commit, SetGrant, Goto, CallsWellFormed,
         GrantsNeedApproval, ApprovalsRecorded, Processes, IInv, NoRow, table, perms,
         world, trail, Call
<1>14. ASSUME NEW s \in Sweepers, SweepEnd(s)  PROVE  (GrantsNeedApproval /\
      ApprovalsRecorded)'
  BY <1>0, <1>14 DEF SweepEnd, Goto, Return, GrantsNeedApproval, ApprovalsRecorded,
         Processes, IInv, NoRow, table, perms, world, trail, Call
<1>15. ASSUME NEW r \in Requests, DeleteRequest(r)  PROVE  (GrantsNeedApproval /\
      ApprovalsRecorded)'
  BY <1>0, <1>15 DEF DeleteRequest, GoneRow, GrantsNeedApproval, ApprovalsRecorded,
         Processes, IInv, NoRow, table, perms, world, trail, Call
<1>16. ASSUME NEW u \in Users, Erase(u)  PROVE  (GrantsNeedApproval /\
      ApprovalsRecorded)'
  <2>1. /\ UNCHANGED <<local, everApproved>> /\ grants' \subseteq grants
        /\ \A r \in Requests :
              /\ row'[r].pair = row[r].pair /\ (Exists(r)' <=> Exists(r))
              /\ row'[r] = row[r] \/ row'[r].status = "revoked"
    <3>1. Erased(u)
      BY <1>0, <1>16, EraseEffect
    <3> QED BY <3>1 DEF Erased
  <2> QED BY <1>0, <2>1 DEF GrantsNeedApproval, ApprovalsRecorded, Processes, IInv, Exists
<1>17. ASSUME NEW a \in Processes, Crash(a)  PROVE  (GrantsNeedApproval /\
      ApprovalsRecorded)'
  BY <1>0, <1>17 DEF Crash, Goto, Return, GrantsNeedApproval, ApprovalsRecorded, Processes,
         IInv, NoRow, table, perms, world, trail, Call
<1>18. ASSUME Tick  PROVE  (GrantsNeedApproval /\ ApprovalsRecorded)'
  BY <1>0, <1>18 DEF Tick, GrantsNeedApproval, ApprovalsRecorded, Processes, IInv, NoRow,
         table, perms, world, trail, Call
<1> QED BY <1>1, <1>2, <1>3, <1>4, <1>5, <1>6, <1>7, <1>8, <1>9, <1>10, <1>11, <1>12,
     <1>13, <1>14, <1>15, <1>16, <1>17, <1>18, AskCases DEF IInv, Next, Serve, Sweep,
     Processes

\* Every writer of an approved row names who decided.
LEMMA NextAttributed ==
  ASSUME IInv, Next
  PROVE  (ApprovalsAttributed /\ CopiesAttributed)'
<1>0. /\ row \in [Requests -> Row] /\ local \in [Processes -> Local]
      /\ \A r \in Requests : row[r] \in Row
      /\ \A a \in Processes : local[a] \in Local
  BY DEF IInv, TypeOK
<1>1. ASSUME NEW w \in Workers, NEW r \in Requests, NEW p \in Pairs, NEW e \in
      Expiries, CreateRequest(w, r, p, e)  PROVE  (ApprovalsAttributed /\
      CopiesAttributed)'
  BY <1>0, <1>1 DEF CreateRequest, Commit, Goto, ApprovalsAttributed, CopiesAttributed,
         Processes, IInv, NoRow, table, perms, world, trail, Call
<1>2. ASSUME NEW w \in Workers, NEW r \in Requests, NEW x, Copied(r, x), Patch(w, r,
      x)  PROVE  (ApprovalsAttributed /\ CopiesAttributed)'
  BY <1>0, <1>2 DEF Copied, Patch, ApprovalsAttributed, CopiesAttributed, Processes, IInv,
         NoRow, table, perms, world, trail, Call
<1>3. ASSUME NEW w \in Workers, NEW r \in Requests, NEW p \in Pairs, NEW s \in
      FormStatuses, NEW e \in Expiries, AdminForm(w, r, p, s, e)  PROVE
      (ApprovalsAttributed /\ CopiesAttributed)'
  BY <1>0, <1>3 DEF AdminForm, FormRow, AdminStatus, ApprovalsAttributed, CopiesAttributed,
         Processes, IInv, NoRow, table, perms, world, trail, Call
<1>4. ASSUME NEW w \in Workers, AssignOwner(w)  PROVE  (ApprovalsAttributed /\
      CopiesAttributed)'
  BY <1>0, <1>4 DEF AssignOwner, Goto, ApprovalsAttributed, CopiesAttributed, Processes,
         IInv, NoRow, table, perms, world, trail, Call
<1>5. ASSUME NEW w \in Workers, Save(w)  PROVE  (ApprovalsAttributed /\
      CopiesAttributed)'
  BY <1>0, <1>5 DEF Save, Commit, Goto, CallsWellFormed, ApprovalsAttributed,
         CopiesAttributed, Processes, IInv, NoRow, table, perms, world, trail, Call
<1>6. ASSUME NEW a \in Processes, SyncCheck(a)  PROVE  (ApprovalsAttributed /\
      CopiesAttributed)'
  BY <1>0, <1>6 DEF SyncCheck, ApprovalsAttributed, CopiesAttributed, Processes, IInv,
         NoRow, table, perms, world, trail, Call
<1>7. ASSUME NEW a \in Processes, SyncAssign(a)  PROVE  (ApprovalsAttributed /\
      CopiesAttributed)'
  BY <1>0, <1>7 DEF SyncAssign, SetGrant, Goto, Return, ApprovalsAttributed,
         CopiesAttributed, Processes, IInv, NoRow, table, perms, world, trail, Call
<1>8. ASSUME NEW w \in Workers, FormUpdate(w)  PROVE  (ApprovalsAttributed /\
      CopiesAttributed)'
  BY <1>0, <1>8 DEF FormUpdate, ApprovalsAttributed, CopiesAttributed, Processes, IInv,
         NoRow, table, perms, world, trail, Call
<1>9. ASSUME NEW w \in Workers, FormCommit(w)  PROVE  (ApprovalsAttributed /\
      CopiesAttributed)'
  BY <1>0, <1>9 DEF FormCommit, Commit, SetGrant, Goto, Return, CallsWellFormed,
         ApprovalsAttributed, CopiesAttributed, Processes, IInv, NoRow, table, perms,
         world, trail, Call
<1>10. ASSUME NEW s \in Sweepers, SweepStart(s)  PROVE  (ApprovalsAttributed /\
      CopiesAttributed)'
  BY <1>0, <1>10 DEF SweepStart, Goto, ApprovalsAttributed, CopiesAttributed, Processes,
         IInv, NoRow, table, perms, world, trail, Call
<1>11. ASSUME NEW s \in Sweepers, NEW r \in Requests, NEW p \in Pairs, SweepUpdate(s,
      r, p)  PROVE  (ApprovalsAttributed /\ CopiesAttributed)'
  BY <1>0, <1>11, RowTypes DEF SweepUpdate, Expired, CallsWellFormed, ApprovalsAttributed,
         CopiesAttributed, Processes, IInv, NoRow, table, perms, world, trail, Call
<1>12. ASSUME NEW s \in Sweepers, NEW r \in Requests, NEW p \in Pairs, SweepMissing(s,
      r, p)  PROVE  (ApprovalsAttributed /\ CopiesAttributed)'
  BY <1>0, <1>12 DEF SweepMissing, Goto, Return, ApprovalsAttributed, CopiesAttributed,
         Processes, IInv, NoRow, table, perms, world, trail, Call
<1>13. ASSUME NEW s \in Sweepers, SweepCommit(s)  PROVE  (ApprovalsAttributed /\
      CopiesAttributed)'
  BY <1>0, <1>13 DEF SweepCommit, Commit, SetGrant, Goto, CallsWellFormed,
         ApprovalsAttributed, CopiesAttributed, Processes, IInv, NoRow, table, perms,
         world, trail, Call
<1>14. ASSUME NEW s \in Sweepers, SweepEnd(s)  PROVE  (ApprovalsAttributed /\
      CopiesAttributed)'
  BY <1>0, <1>14 DEF SweepEnd, Goto, Return, ApprovalsAttributed, CopiesAttributed,
         Processes, IInv, NoRow, table, perms, world, trail, Call
<1>15. ASSUME NEW r \in Requests, DeleteRequest(r)  PROVE  (ApprovalsAttributed /\
      CopiesAttributed)'
  BY <1>0, <1>15 DEF DeleteRequest, GoneRow, ApprovalsAttributed, CopiesAttributed,
         Processes, IInv, NoRow, table, perms, world, trail, Call
<1>16. ASSUME NEW u \in Users, Erase(u)  PROVE  (ApprovalsAttributed /\
      CopiesAttributed)'
  <2>1. /\ UNCHANGED <<local, everApproved>> /\ grants' \subseteq grants
        /\ \A r \in Requests :
              /\ row'[r].pair = row[r].pair /\ (Exists(r)' <=> Exists(r))
              /\ row'[r] = row[r] \/ row'[r].status = "revoked"
    <3>1. Erased(u)
      BY <1>0, <1>16, EraseEffect
    <3> QED BY <3>1 DEF Erased
  <2> QED BY <1>0, <2>1 DEF ApprovalsAttributed, CopiesAttributed, Processes, IInv, Exists
<1>17. ASSUME NEW a \in Processes, Crash(a)  PROVE  (ApprovalsAttributed /\
      CopiesAttributed)'
  BY <1>0, <1>17 DEF Crash, Goto, Return, ApprovalsAttributed, CopiesAttributed, Processes,
         IInv, NoRow, table, perms, world, trail, Call
<1>18. ASSUME Tick  PROVE  (ApprovalsAttributed /\ CopiesAttributed)'
  BY <1>0, <1>18 DEF Tick, ApprovalsAttributed, CopiesAttributed, Processes, IInv, NoRow,
         table, perms, world, trail, Call
<1> QED BY <1>1, <1>2, <1>3, <1>4, <1>5, <1>6, <1>7, <1>8, <1>9, <1>10, <1>11, <1>12,
     <1>13, <1>14, <1>15, <1>16, <1>17, <1>18, AskCases DEF IInv, Next, Serve, Sweep,
     Processes

\* The requester of a row keeps sight of it.
LEMMA NextOwners ==
  ASSUME IInv, Next
  PROVE  OwnersSeeTheirRequests'
<1>0. /\ row \in [Requests -> Row] /\ local \in [Processes -> Local]
      /\ \A r \in Requests : row[r] \in Row
      /\ \A a \in Processes : local[a] \in Local
  BY DEF IInv, TypeOK
<1>1. ASSUME NEW w \in Workers, NEW r \in Requests, NEW p \in Pairs, NEW e \in
      Expiries, CreateRequest(w, r, p, e)  PROVE  OwnersSeeTheirRequests'
  <2>1. ~Exists(r) /\ local[w].pc = "idle"
    BY <1>0, <1>1 DEF CreateRequest, Fresh, Exists, Status, Free
  <2>2. /\ row' = [row EXCEPT ![r] = [status |-> "pending", expires |-> e,
                                      decided |-> FALSE, pair |-> p]]
        /\ local' = [local EXCEPT ![w] = Call("own", r, p, NoRow, FALSE, 1)]
        /\ handed' = handed /\ UNCHANGED <<erased, crashes, ownerPerm>>
    BY <1>0, <1>1, <2>1 DEF CreateRequest, Commit, Goto, perms, world
  <2>3. row'[r].pair = p /\ local'[w].pc = "own" /\ local'[w].req = r /\ local'[w].pair = p
    BY <1>0, <2>2 DEF Call, Processes
  <2>4. \A q \in Requests \ {r} : row'[q] = row[q]
    BY <1>0, <2>2
  <2>5. \A b \in Processes \ {w} : local'[b] = local[b]
    BY <1>0, <2>2
  <2>6. w \in Processes
    BY DEF Processes
  <2>7. ASSUME NEW q \in Requests, Exists(q)', row'[q].pair[1] \notin erased', crashes' = 0,
               <<row'[q].pair[1], q>> \notin handed', q # r
        PROVE  \/ <<row'[q].pair[1], q>> \in ownerPerm'
               \/ \E b \in Processes :
                     /\ local'[b].pc = "own" /\ local'[b].req = q
                     /\ local'[b].pair[1] = row'[q].pair[1]
    <3> DEFINE v == row[q].pair[1]
    <3>1. /\ row'[q] = row[q] /\ Exists(q) /\ v \notin erased /\ crashes = 0
          /\ <<v, q>> \notin handed
      BY <2>2, <2>4, <2>7 DEF Exists
    <3>2. \/ <<v, q>> \in ownerPerm
          \/ \E b \in Processes :
                local[b].pc = "own" /\ local[b].req = q /\ local[b].pair[1] = v
      BY <3>1 DEF OwnersSeeTheirRequests, IInv
    <3>3. ASSUME NEW b \in Processes, local[b].pc = "own"
          PROVE  local'[b] = local[b]
      BY <2>1, <2>5, <3>3
    <3>4. row'[q].pair[1] = v /\ ownerPerm' = ownerPerm
      BY <2>2, <3>1
    <3> HIDE DEF v
    <3> QED BY <3>2, <3>3, <3>4
  <2> QED BY <2>3, <2>6, <2>7 DEF OwnersSeeTheirRequests
<1>2. ASSUME NEW w \in Workers, NEW r \in Requests, NEW x, Copied(r, x), Patch(w, r,
      x)  PROVE  OwnersSeeTheirRequests'
  BY <1>0, <1>2, OwnersKept
     DEF Patch, Exists, Free, Processes, table, perms, world, Call, IInv
<1>3. ASSUME NEW w \in Workers, NEW r \in Requests, NEW p \in Pairs, NEW s \in
      FormStatuses, NEW e \in Expiries, AdminForm(w, r, p, s, e)  PROVE
      OwnersSeeTheirRequests'
  BY <1>0, <1>3, OwnersKept
     DEF AdminForm, Exists, Free, Processes, table, perms, world, Call, IInv
<1>4. ASSUME NEW w \in Workers, AssignOwner(w)  PROVE  OwnersSeeTheirRequests'
  BY <1>0, <1>4 DEF AssignOwner, Goto, OwnersSeeTheirRequests, CallsWellFormed, Exists,
         Processes, IInv, NoRow, Fresh, table, perms, world, trail, Call
<1>5. ASSUME NEW w \in Workers, Save(w)  PROVE  OwnersSeeTheirRequests'
  BY <1>0, <1>5 DEF Save, Commit, Goto, OwnersSeeTheirRequests, CallsWellFormed, Exists,
         Processes, IInv, NoRow, Fresh, table, perms, world, trail, Call
<1>6. ASSUME NEW a \in Processes, SyncCheck(a)  PROVE  OwnersSeeTheirRequests'
  BY <1>0, <1>6 DEF SyncCheck, OwnersSeeTheirRequests, CallsWellFormed, Exists, Processes,
         IInv, NoRow, Fresh, table, perms, world, trail, Call
<1>7. ASSUME NEW a \in Processes, SyncAssign(a)  PROVE  OwnersSeeTheirRequests'
  BY <1>0, <1>7 DEF SyncAssign, SetGrant, Goto, Return, OwnersSeeTheirRequests,
         CallsWellFormed, Exists, Processes, IInv, NoRow, Fresh, table, perms, world,
         trail, Call
<1>8. ASSUME NEW w \in Workers, FormUpdate(w)  PROVE  OwnersSeeTheirRequests'
  BY <1>0, <1>8 DEF FormUpdate, OwnersSeeTheirRequests, CallsWellFormed, Exists, Processes,
         IInv, NoRow, Fresh, table, perms, world, trail, Call
<1>9. ASSUME NEW w \in Workers, FormCommit(w)  PROVE  OwnersSeeTheirRequests'
  BY <1>0, <1>9 DEF FormCommit, Commit, SetGrant, Goto, Return, OwnersSeeTheirRequests,
         CallsWellFormed, Exists, Processes, IInv, NoRow, Fresh, table, perms, world,
         trail, Call
<1>10. ASSUME NEW s \in Sweepers, SweepStart(s)  PROVE  OwnersSeeTheirRequests'
  BY <1>0, <1>10, OwnersKept
     DEF SweepStart, Goto, Exists, Free, Processes, table, perms, world, Call, IInv
<1>11. ASSUME NEW s \in Sweepers, NEW r \in Requests, NEW p \in Pairs, SweepUpdate(s,
      r, p)  PROVE  OwnersSeeTheirRequests'
  BY <1>0, <1>11, RowTypes DEF SweepUpdate, Expired, OwnersSeeTheirRequests,
         CallsWellFormed, Exists, Processes, IInv, NoRow, Fresh, table, perms, world,
         trail, Call
<1>12. ASSUME NEW s \in Sweepers, NEW r \in Requests, NEW p \in Pairs, SweepMissing(s,
      r, p)  PROVE  OwnersSeeTheirRequests'
  BY <1>0, <1>12 DEF SweepMissing, Goto, Return, OwnersSeeTheirRequests, CallsWellFormed,
         Exists, Processes, IInv, NoRow, Fresh, table, perms, world, trail, Call
<1>13. ASSUME NEW s \in Sweepers, SweepCommit(s)  PROVE  OwnersSeeTheirRequests'
  BY <1>0, <1>13 DEF SweepCommit, Commit, SetGrant, Goto, OwnersSeeTheirRequests,
         CallsWellFormed, Exists, Processes, IInv, NoRow, Fresh, table, perms, world,
         trail, Call
<1>14. ASSUME NEW s \in Sweepers, SweepEnd(s)  PROVE  OwnersSeeTheirRequests'
  BY <1>0, <1>14 DEF SweepEnd, Goto, Return, OwnersSeeTheirRequests, CallsWellFormed,
         Exists, Processes, IInv, NoRow, Fresh, table, perms, world, trail, Call
<1>15. ASSUME NEW r \in Requests, DeleteRequest(r)  PROVE  OwnersSeeTheirRequests'
  BY <1>0, <1>15, OwnersKept
     DEF DeleteRequest, GoneRow, NoRow, Exists, Status, perms, world, IInv
<1>16. ASSUME NEW u \in Users, Erase(u)  PROVE  OwnersSeeTheirRequests'
  <2>1. /\ UNCHANGED <<local, handed, crashes>> /\ erased' = erased \cup {u}
        /\ \A r \in Requests : row'[r].pair = row[r].pair /\ (Exists(r)' <=> Exists(r))
        /\ \A v \in Users \ {u}, r \in Requests :
              <<v, r>> \in ownerPerm => <<v, r>> \in ownerPerm'
    <3>1. Erased(u)
      BY <1>0, <1>16, EraseEffect
    <3> QED BY <3>1 DEF Erased
  <2>2. \A r \in Requests : Exists(r)' => Exists(r) /\ row'[r].pair = row[r].pair
    BY <2>1
  <2> QED BY <2>1, <2>2, OwnersKept
<1>17. ASSUME NEW a \in Processes, Crash(a)  PROVE  OwnersSeeTheirRequests'
  BY <1>0, <1>17, OwnersKept
     DEF Crash, TypeOK, Exists, table, perms, IInv
<1>18. ASSUME Tick  PROVE  OwnersSeeTheirRequests'
  BY <1>0, <1>18 DEF Tick, OwnersSeeTheirRequests, CallsWellFormed, Exists, Processes, IInv,
         NoRow, Fresh, table, perms, world, trail, Call
<1> QED BY <1>1, <1>2, <1>3, <1>4, <1>5, <1>6, <1>7, <1>8, <1>9, <1>10, <1>11, <1>12,
     <1>13, <1>14, <1>15, <1>16, <1>17, <1>18, AskCases DEF IInv, Next, Serve, Sweep,
     Processes

LEMMA NextIInv == IInv /\ [Next]_vars => IInv'
BY NextTypes, NextCalls, NextApprovals, NextAttributed, NextOwners, StutterIInv DEF IInv

THEOREM Invariance == Spec => []IInv
<1>1. IInv /\ [Next]_vars => IInv'
  BY NextIInv
<1> QED BY <1>1, InitIInv, PTL DEF Spec

\* Type correctness of the request module, for every number of users, servers,
\* requests and processes, with any overlap, crashes and deletions.
THEOREM TypeCorrect == Spec => []TypeOK
<1>1. IInv => TypeOK
  BY DEF IInv
<1> QED BY <1>1, Invariance, PTL

\* No interleaving of the API, the forms, the task and the erasure leads to view
\* on a server for which the user never had an approved request.
THEOREM NoGrantWithoutApproval == Spec => []GrantsNeedApproval
<1>1. IInv => GrantsNeedApproval
  BY DEF IInv
<1> QED BY <1>1, Invariance, PTL

\* Whole rows saved from stale copies never leave an approval without a decider.
THEOREM ApprovalsNameDecider == Spec => []ApprovalsAttributed
<1>1. IInv => ApprovalsAttributed
  BY DEF IInv
<1> QED BY <1>1, Invariance, PTL

\* The requester sees the rows that were created for him, whatever is served
\* meanwhile, as long as no process is killed; a requester whom an edit gave the
\* row is left out, and the trail of such edits is kept by every writer of a row.
THEOREM OwnersKeepSight == Spec => []OwnersSeeTheirRequests
<1>1. IInv => OwnersSeeTheirRequests
  BY DEF IInv
<1> QED BY <1>1, Invariance, PTL

-----------------------------------------------------------------------------
(***************************************************************************)
(* The agreement of permissions and approvals, with any overlap of calls.  *)
(***************************************************************************)

\* HasValidAccess at time t, and its first line without the clock.
ValidAt(x, t) == x.status = "approved" /\ (x.expires = Never \/ x.expires > t)
HasAccessAt(rows, p, t) == \E r \in Requests : rows[r].pair = p /\ ValidAt(rows[r], t)
HasApproval(rows, p) ==
    \E r \in Requests : rows[r].pair = p /\ rows[r].status = "approved"

\* What the answer of the query is worth at time t: an approval that counted
\* may have run out since, but none was made.
Answers(rows, p, valid, t) ==
    /\ valid => HasApproval(rows, p)
    /\ ~valid => ~HasAccessAt(rows, p, t)

\* The same, of the answer that call c acts on.
AnswerOf(c, rows, t) ==
    /\ c.pc = "assign" => Answers(rows, c.pair, c.valid, t)
    /\ c.pc = "commit" => Answers([rows EXCEPT ![c.req] = c.new], c.pair, c.valid, t)

AnswersHold == \A a \in Processes \ overtaken : AnswerOf(local[a], row, now)

Agreement ==
    \A p \in Pairs \ astray : InProgress(p) \/ Answers(row, p, p \in grants, now)

\* A row stands for approvals of p no more and no less than before.
SameFor(x, y, p) ==
    \/ x = y
    \/ /\ ~(x.status = "approved" /\ x.pair = p)
       /\ ~(y.status = "approved" /\ y.pair = p)

Unshaken(p) == \A r \in Requests : SameFor(row[r], row'[r], p)

LEMMA SameQuery ==
  \A rows, p : HasValidAccess(rows, p) = HasAccessAt(rows, p, now)
BY DEF HasValidAccess, HasAccessAt, Valid, ValidAt, Unexpired

\* What counts later, counts now.
LEMMA AccessLapses ==
  ASSUME NEW rows \in [Requests -> Row], NEW p, NEW t \in Nat, NEW later \in Nat,
         t <= later, HasAccessAt(rows, p, later)
  PROVE  HasAccessAt(rows, p, t)
<1>1. PICK r \in Requests : rows[r].pair = p /\ ValidAt(rows[r], later)
  BY DEF HasAccessAt
<1>2. rows[r].expires = Never \/ rows[r].expires \in Nat
  BY DEF Row, Times
<1>3. CASE rows[r].expires = Never
  BY <1>1, <1>3 DEF ValidAt, HasAccessAt
<1>4. CASE rows[r].expires \in Nat /\ rows[r].expires # Never
  <2>1. rows[r].expires > t
    BY <1>1, <1>4 DEF ValidAt
  <2> QED BY <1>1, <2>1 DEF ValidAt, HasAccessAt
<1> QED BY <1>2, <1>3, <1>4

LEMMA FreshAnswer ==
  ASSUME NEW rows, NEW p, NEW t
  PROVE  Answers(rows, p, HasAccessAt(rows, p, t), t)
BY DEF Answers, HasAccessAt, HasApproval, ValidAt

LEMMA AnswerLater ==
  ASSUME NEW rows \in [Requests -> Row], NEW p, NEW t \in Nat, NEW later \in Nat,
         t <= later, NEW valid, Answers(rows, p, valid, t)
  PROVE  Answers(rows, p, valid, later)
BY AccessLapses DEF Answers

\* Rows that are the same for p give the same answer.
LEMMA SameAnswers ==
  ASSUME NEW rows, NEW after, NEW p, NEW t, NEW valid,
         \A r \in Requests : SameFor(rows[r], after[r], p),
         Answers(rows, p, valid, t)
  PROVE  Answers(after, p, valid, t)
<1>1. HasApproval(rows, p) => HasApproval(after, p)
  BY DEF HasApproval, SameFor
<1>2. HasAccessAt(after, p, t) => HasAccessAt(rows, p, t)
  BY DEF HasAccessAt, ValidAt, SameFor
<1> QED BY <1>1, <1>2 DEF Answers

\* An answer stays true of rows that are the same for its pair.
LEMMA AnswerOfKept ==
  ASSUME IInv, NEW c \in Local, c.pc = "commit" => c.req \in Requests,
         row' \in [Requests -> Row], now' \in Nat, now <= now',
         c.pc \in {"assign", "commit"} => Unshaken(c.pair), AnswerOf(c, row, now)
  PROVE  AnswerOf(c, row', now')
<1>1. row \in [Requests -> Row] /\ now \in Nat
  BY DEF IInv, TypeOK, Times
<1>2. CASE c.pc = "assign"
  <2>1. Answers(row', c.pair, c.valid, now)
    BY <1>2, SameAnswers DEF AnswerOf, Unshaken
  <2> QED BY <1>1, <1>2, <2>1, AnswerLater DEF AnswerOf
<1>3. CASE c.pc = "commit"
  <2> DEFINE rows == [row EXCEPT ![c.req] = c.new]
             after == [row' EXCEPT ![c.req] = c.new]
  <2>1. after \in [Requests -> Row] /\ Answers(rows, c.pair, c.valid, now)
    BY <1>3 DEF AnswerOf, Local
  <2>2. \A r \in Requests : SameFor(rows[r], after[r], c.pair)
    BY <1>1, <1>3 DEF Unshaken, SameFor
  <2> HIDE DEF rows
  <2>3. after = [row' EXCEPT ![c.req] = c.new]
    OBVIOUS
  <2> HIDE DEF after
  <2>4. Answers(after, c.pair, c.valid, now)
    BY <2>1, <2>2, SameAnswers
  <2>5. Answers(after, c.pair, c.valid, now')
    BY <1>1, <2>1, <2>4, AnswerLater
  <2> QED BY <1>3, <2>3, <2>5 DEF AnswerOf
<1> QED BY <1>2, <1>3 DEF AnswerOf

\* Answers that nobody has overtaken hold, and so does a new one.
LEMMA AnswersKept ==
  ASSUME IInv, AnswersHold, NEW B \in SUBSET Processes,
         row' \in [Requests -> Row], now' \in Nat, now <= now',
         \A b \in B : AnswerOf(local'[b], row', now'),
         \A b \in Processes \ (overtaken' \cup B) :
            /\ local'[b] = local[b] /\ b \notin overtaken
            /\ local[b].pc \in {"assign", "commit"} => Unshaken(local[b].pair)
  PROVE  AnswersHold'
<1> SUFFICES ASSUME NEW b \in Processes, b \notin overtaken', b \notin B
             PROVE  AnswerOf(local'[b], row', now')
  BY DEF AnswersHold
<1>1. /\ local[b] \in Local /\ local'[b] = local[b] /\ AnswerOf(local[b], row, now)
      /\ local[b].pc = "commit" => local[b].req \in Requests
      /\ local[b].pc \in {"assign", "commit"} => Unshaken(local[b].pair)
  BY DEF AnswersHold, IInv, TypeOK, CallsWellFormed
<1> QED BY <1>1, AnswerOfKept

\* A pair whose rows and permission are the same agrees as before; a call in
\* progress may have ended where the permission agrees.
LEMMA AgreementKept ==
  ASSUME IInv, Agreement, row' \in [Requests -> Row], now' \in Nat, now <= now',
         \A p \in Pairs \ astray' :
            \/ InProgress(p)'
            \/ Answers(row', p, p \in grants', now')
            \/ /\ p \notin astray /\ Unshaken(p) /\ (p \in grants' <=> p \in grants)
               /\ InProgress(p) => InProgress(p)'
  PROVE  Agreement'
<1> SUFFICES ASSUME NEW p \in Pairs, p \notin astray', ~InProgress(p)'
             PROVE  Answers(row', p, p \in grants', now')
  BY DEF Agreement
<1>1. row \in [Requests -> Row] /\ now \in Nat
  BY DEF IInv, TypeOK, Times
<1>2. ASSUME p \notin astray, Unshaken(p), p \in grants' <=> p \in grants,
             InProgress(p) => InProgress(p)'
      PROVE  Answers(row', p, p \in grants', now')
  <2>1. Answers(row, p, p \in grants', now)
    BY <1>2 DEF Agreement, Answers
  <2>2. Answers(row', p, p \in grants', now)
    BY <1>2, <2>1, SameAnswers DEF Unshaken
  <2> QED BY <1>1, <2>2, AnswerLater
<1> QED BY <1>2

-----------------------------------------------------------------------------
\* What a commit leaves alone.
LEMMA CommitEffect ==
  ASSUME IInv, NEW a \in Processes, NEW r \in Requests, NEW x, Commit(a, r, x)
  PROVE  /\ row' = [row EXCEPT ![r] = x]
         /\ \A p : p \notin Shaken(r, x) => Unshaken(p)
         /\ \A b \in Processes \ {a} :
               b \notin overtaken' =>
                  /\ b \notin overtaken
                  /\ local[b].pc \in {"assign", "commit"} => Unshaken(local[b].pair)
<1>1. row \in [Requests -> Row] /\ row' = [row EXCEPT ![r] = x]
  BY DEF IInv, TypeOK, Commit
<1>2. ASSUME NEW p, p \notin Shaken(r, x)
      PROVE  Unshaken(p)
  BY <1>1, <1>2 DEF Shaken, Unshaken, SameFor
<1>3. ASSUME NEW b \in Processes \ {a}, b \notin overtaken'
      PROVE  /\ b \notin overtaken
             /\ local[b].pc \in {"assign", "commit"} => local[b].pair \notin Shaken(r, x)
  BY <1>3 DEF Commit, Asking
<1> QED BY <1>1, <1>2, <1>3

LEMMA QuietAnswers ==
  ASSUME IInv, AnswersHold, NEW a \in Processes, NEW c, local' = [local EXCEPT ![a] = c],
         row' = row, now' = now, overtaken \subseteq overtaken' \cup {a},
         AnswerOf(c, row, now)
  PROVE  AnswersHold'
<1>1. /\ row \in [Requests -> Row] /\ now \in Nat /\ local \in [Processes -> Local]
  BY DEF IInv, TypeOK, Times
<1>2. \A p : Unshaken(p)
  BY DEF Unshaken, SameFor
<1> DEFINE B == {a}
<1>3. /\ B \in SUBSET Processes
      /\ \A b \in B : AnswerOf(local'[b], row', now')
      /\ \A b \in Processes \ (overtaken' \cup B) :
            /\ local'[b] = local[b] /\ b \notin overtaken
            /\ local[b].pc \in {"assign", "commit"} => Unshaken(local[b].pair)
  BY <1>1, <1>2
<1> HIDE DEF B
<1> QED BY <1>1, <1>3, AnswersKept

LEMMA CommitAnswers ==
  ASSUME IInv, AnswersHold, NEW a \in Processes, NEW r \in Requests, NEW x \in Row,
         Commit(a, r, x), NEW c, local' = [local EXCEPT ![a] = c],
         c.pc \notin {"assign", "commit"}, now' = now
  PROVE  AnswersHold'
<1>1. /\ row \in [Requests -> Row] /\ now \in Nat /\ local \in [Processes -> Local]
  BY DEF IInv, TypeOK, Times
<1>2. row' \in [Requests -> Row]
  BY <1>1, CommitEffect
<1> DEFINE B == {a}
<1>3. B \in SUBSET Processes /\ \A b \in B : AnswerOf(local'[b], row', now')
  BY <1>1 DEF AnswerOf
<1>4. \A b \in Processes \ (overtaken' \cup B) :
         /\ local'[b] = local[b] /\ b \notin overtaken
         /\ local[b].pc \in {"assign", "commit"} => Unshaken(local[b].pair)
  BY <1>1, CommitEffect
<1> HIDE DEF B
<1> QED BY <1>1, <1>2, <1>3, <1>4, AnswersKept

LEMMA NextClock ==
  ASSUME IInv, Next
  PROVE  now' \in Nat /\ now <= now' /\ row' \in [Requests -> Row]
<1>1. now \in Nat /\ TypeOK'
  BY NextTypes DEF IInv, TypeOK, Times
<1>2. now' = now \/ now' = now + 1
  <2>1. ASSUME NEW w \in Workers, Ask(w) PROVE now' = now
    BY <2>1 DEF Ask, CreateRequest, AdminDecide, AdminReschedule, OwnerCancel, Patch,
                AdminForm, world
  <2>2. ASSUME NEW a \in Processes, Serve(a) PROVE now' = now
    BY <2>2 DEF Serve, AssignOwner, Save, SyncCheck, SyncAssign, FormUpdate, FormCommit,
                world
  <2>3. ASSUME NEW s \in Sweepers, SweepStart(s) \/ Sweep(s) PROVE now' = now
    BY <2>3 DEF SweepStart, Sweep, SweepUpdate, SweepMissing, SweepCommit, SyncCheck,
                SyncAssign, SweepEnd, world
  <2> QED BY <2>1, <2>2, <2>3
          DEF Next, Processes, DeleteRequest, Erase, Crash, Tick, world
<1> QED BY <1>1, <1>2 DEF TypeOK, Times

\* Rows of other users are the same after an erasure.
LEMMA ErasedElsewhere ==
  ASSUME IInv, NEW u \in Users, Erased(u)
  PROVE  /\ \A p : p \notin {u} \X Servers => Unshaken(p)
         /\ \A r \in Requests :
               row'[r].status = "approved" => row'[r].pair \notin {u} \X Servers
<1>1. \A r \in Requests : Exists(r) => row[r].pair \in Pairs
  BY DEF IInv, CallsWellFormed
<1>2. \A p \in Pairs : p[1] = u => p \in {u} \X Servers
  BY DEF Pairs
<1>3. \A p \in {u} \X Servers : p[1] = u
  OBVIOUS
<1>4. ASSUME NEW r \in Requests
      PROVE  /\ row'[r].pair = row[r].pair
             /\ row'[r] = row[r] \/ /\ row'[r].status = "revoked" /\ row[r].pair[1] = u
                                    /\ row[r].status \in {"pending", "approved"}
             /\ row'[r].status = "approved" => row[r].pair[1] # u
  BY DEF Erased
<1>5. ASSUME NEW p, p \notin {u} \X Servers, NEW r \in Requests
      PROVE  SameFor(row[r], row'[r], p)
  BY <1>1, <1>2, <1>4, <1>5 DEF SameFor, Exists, Status
<1> QED BY <1>3, <1>4, <1>5 DEF Unshaken
\* Answers that nobody has overtaken hold.
LEMMA NextAnswers ==
  ASSUME IInv, AnswersHold, Next
  PROVE  AnswersHold'
<1>0. /\ now' \in Nat /\ now <= now' /\ row' \in [Requests -> Row]
      /\ row \in [Requests -> Row]
  BY NextClock DEF IInv, TypeOK
<1>1. ASSUME NEW w \in Workers, NEW r \in Requests, NEW p \in Pairs, NEW e \in
      Expiries, CreateRequest(w, r, p, e)  PROVE  AnswersHold'
  <2> DEFINE x == [status |-> "pending", expires |-> e, decided |-> FALSE, pair |-> p]
             c == Call("own", r, p, NoRow, FALSE, 1)
  <2>1. Commit(w, r, x) /\ local' = [local EXCEPT ![w] = c] /\ now' = now
    BY <1>1 DEF CreateRequest, Goto, world
  <2>2. x \in Row /\ c.pc \notin {"assign", "commit"} /\ w \in Processes
    BY DEF Row, Status, Times, Call, Processes
  <2> HIDE DEF x, c
  <2> QED BY <2>1, <2>2, CommitAnswers
<1>2. ASSUME NEW w \in Workers, NEW r \in Requests, NEW x, Copied(r, x), Patch(w, r,
      x)  PROVE  AnswersHold'
  <2>1. PICK c : /\ local' = [local EXCEPT ![w] = c] /\ AnswerOf(c, row, now)
                 /\ UNCHANGED <<row, now>> /\ overtaken \subseteq overtaken' \cup {w}
    BY <1>2 DEF Patch, AnswerOf, Call, table, world, trail
  <2> QED BY <2>1, QuietAnswers DEF Processes
<1>3. ASSUME NEW w \in Workers, NEW r \in Requests, NEW p \in Pairs, NEW s \in
      FormStatuses, NEW e \in Expiries, AdminForm(w, r, p, s, e)  PROVE  AnswersHold'
  <2>1. PICK c : /\ local' = [local EXCEPT ![w] = c] /\ AnswerOf(c, row, now)
                 /\ UNCHANGED <<row, now>> /\ overtaken \subseteq overtaken' \cup {w}
    BY <1>3 DEF AdminForm, AnswerOf, Call, table, world, trail
  <2> QED BY <2>1, QuietAnswers DEF Processes
<1>4. ASSUME NEW w \in Workers, AssignOwner(w)  PROVE  AnswersHold'
  <2>1. PICK c : /\ local' = [local EXCEPT ![w] = c] /\ AnswerOf(c, row, now)
                 /\ UNCHANGED <<row, now>> /\ overtaken \subseteq overtaken' \cup {w}
    BY <1>4 DEF AssignOwner, Goto, AnswerOf, Call, table, world, trail
  <2> QED BY <2>1, QuietAnswers DEF Processes
<1>5. ASSUME NEW w \in Workers, Save(w)  PROVE  AnswersHold'
  <2> DEFINE r == local[w].req
             x == local[w].new
  <2>1. r \in Requests /\ x \in Row /\ w \in Processes
    BY <1>5 DEF Save, IInv, TypeOK, CallsWellFormed, Processes, Local
  <2>2. Commit(w, r, x) /\ now' = now
    BY <1>5 DEF Save, world
  <2>3. PICK k \in {"own", "check"} :
           local' = [local EXCEPT ![w] = Call(k, r, x.pair, NoRow, FALSE, local[w].syncs)]
    BY <1>5 DEF Save, Goto
  <2>4. Call(k, r, x.pair, NoRow, FALSE, local[w].syncs).pc \notin {"assign", "commit"}
    BY DEF Call
  <2> HIDE DEF r, x
  <2> QED BY <2>1, <2>2, <2>3, <2>4, CommitAnswers
<1>6. ASSUME NEW a \in Processes, SyncCheck(a)  PROVE  AnswersHold'
  <2> DEFINE v == HasValidAccess(row, local[a].pair)
             c == Call("assign", local[a].req, local[a].pair, NoRow, v, local[a].syncs)
  <2>1. local' = [local EXCEPT ![a] = c] /\ UNCHANGED <<row, now, overtaken>>
    BY <1>6 DEF SyncCheck, table, world, trail
  <2>2. c.pc = "assign" /\ c.pair = local[a].pair /\ c.valid = v
    BY DEF Call
  <2>3. Answers(row, local[a].pair, v, now)
    BY FreshAnswer, SameQuery
  <2> HIDE DEF v, c
  <2>4. AnswerOf(c, row, now)
    BY <2>2, <2>3 DEF AnswerOf
  <2> QED BY <2>1, <2>4, QuietAnswers
<1>7. ASSUME NEW a \in Processes, SyncAssign(a)  PROVE  AnswersHold'
  <2>1. PICK c : /\ local' = [local EXCEPT ![a] = c] /\ AnswerOf(c, row, now)
                 /\ UNCHANGED <<row, now>> /\ overtaken \subseteq overtaken' \cup {a}
    BY <1>7 DEF SyncAssign, Goto, Return, AnswerOf, Call, table, world, trail
  <2> QED BY <2>1, QuietAnswers DEF Processes
<1>8. ASSUME NEW w \in Workers, FormUpdate(w)  PROVE  AnswersHold'
  <2> DEFINE r == local[w].req
             p == local[w].pair
             x == local[w].new
             v == HasValidAccess([row EXCEPT ![r] = x], p)
  <2>1. /\ local' = [local EXCEPT ![w] = Call("commit", r, p, x, v, 0)]
        /\ v = HasAccessAt([row EXCEPT ![r] = x], p, now)
        /\ UNCHANGED <<row, now, overtaken>>
    BY <1>8, SameQuery DEF FormUpdate, table, world, trail
  <2> HIDE DEF r, p, x, v
  <2> DEFINE rows == [row EXCEPT ![r] = x]
             c == Call("commit", r, p, x, v, 0)
  <2>2. c.pc = "commit" /\ c.pair = p /\ c.valid = v /\ c.req = r /\ c.new = x
    BY DEF Call
  <2>3. Answers(rows, p, v, now)
    BY <2>1, FreshAnswer, SameQuery
  <2>4. rows = [row EXCEPT ![r] = x]
    OBVIOUS
  <2> HIDE DEF rows, c
  <2>5. AnswerOf(c, row, now)
    BY <2>2, <2>3, <2>4 DEF AnswerOf
  <2> QED BY <2>1, <2>5, QuietAnswers DEF Processes, c
<1>9. ASSUME NEW w \in Workers, FormCommit(w)  PROVE  AnswersHold'
  <2> DEFINE r == local[w].req
             x == local[w].new
  <2>1. r \in Requests /\ x \in Row /\ w \in Processes
    BY <1>9 DEF FormCommit, IInv, TypeOK, CallsWellFormed, Processes, Local
  <2>2. Commit(w, r, x) /\ now' = now
    BY <1>9 DEF FormCommit, world
  <2>3. local' = [local EXCEPT ![w] = Call("idle", NoRequest, NoPair, NoRow, FALSE, 0)]
    BY <1>9 DEF FormCommit, Goto, Return
  <2>4. Call("idle", NoRequest, NoPair, NoRow, FALSE, 0).pc \notin {"assign", "commit"}
    BY DEF Call
  <2> HIDE DEF r, x
  <2> QED BY <2>1, <2>2, <2>3, <2>4, CommitAnswers
<1>10. ASSUME NEW s \in Sweepers, SweepStart(s)  PROVE  AnswersHold'
  <2>1. PICK c : /\ local' = [local EXCEPT ![s] = c] /\ AnswerOf(c, row, now)
                 /\ UNCHANGED <<row, now>> /\ overtaken \subseteq overtaken' \cup {s}
    BY <1>10 DEF SweepStart, Goto, AnswerOf, Call, table, world, trail
  <2> QED BY <2>1, QuietAnswers DEF Processes
<1>11. ASSUME NEW s \in Sweepers, NEW r \in Requests, NEW p \in Pairs, SweepUpdate(s,
      r, p)  PROVE  AnswersHold'
  <2>0. PICK x, v : ExpiryWritten(s, r, p, x, v)
    BY <1>11, SweepUpdateEffect
  <2>1. /\ local' = [local EXCEPT ![s] = Call("commit", r, p, x, v, 1)]
        /\ v = HasAccessAt([row EXCEPT ![r] = x], p, now)
        /\ UNCHANGED <<row, now, overtaken>>
    BY <2>0, SameQuery DEF ExpiryWritten, table, world, trail
  <2> DEFINE rows == [row EXCEPT ![r] = x]
             c == Call("commit", r, p, x, v, 1)
  <2>2. c.pc = "commit" /\ c.pair = p /\ c.valid = v /\ c.req = r /\ c.new = x
    BY DEF Call
  <2>3. Answers(rows, p, v, now)
    BY <2>1, FreshAnswer, SameQuery
  <2>4. rows = [row EXCEPT ![r] = x]
    OBVIOUS
  <2> HIDE DEF rows, c
  <2>5. AnswerOf(c, row, now)
    BY <2>2, <2>3, <2>4 DEF AnswerOf
  <2> QED BY <2>1, <2>5, QuietAnswers DEF Processes, c
<1>12. ASSUME NEW s \in Sweepers, NEW r \in Requests, NEW p \in Pairs, SweepMissing(s,
      r, p)  PROVE  AnswersHold'
  <2>1. PICK c : /\ local' = [local EXCEPT ![s] = c] /\ AnswerOf(c, row, now)
                 /\ UNCHANGED <<row, now>> /\ overtaken \subseteq overtaken' \cup {s}
    BY <1>12 DEF SweepMissing, Goto, Return, AnswerOf, Call, table, world, trail
  <2> QED BY <2>1, QuietAnswers DEF Processes
<1>13. ASSUME NEW s \in Sweepers, SweepCommit(s)  PROVE  AnswersHold'
  <2> DEFINE r == local[s].req
             x == local[s].new
  <2>1. r \in Requests /\ x \in Row /\ s \in Processes
    BY <1>13 DEF SweepCommit, IInv, TypeOK, CallsWellFormed, Processes, Local
  <2>2. Commit(s, r, x) /\ now' = now
    BY <1>13 DEF SweepCommit, world
  <2>3. local' = [local EXCEPT ![s] = Call("check", r, local[s].pair, NoRow, FALSE, 1)]
    BY <1>13 DEF SweepCommit, Goto, Return
  <2>4. Call("check", r, local[s].pair, NoRow, FALSE, 1).pc \notin {"assign", "commit"}
    BY DEF Call
  <2> HIDE DEF r, x
  <2> QED BY <2>1, <2>2, <2>3, <2>4, CommitAnswers
<1>14. ASSUME NEW s \in Sweepers, SweepEnd(s)  PROVE  AnswersHold'
  <2>1. PICK c : /\ local' = [local EXCEPT ![s] = c] /\ AnswerOf(c, row, now)
                 /\ UNCHANGED <<row, now>> /\ overtaken \subseteq overtaken' \cup {s}
    BY <1>14 DEF SweepEnd, Goto, Return, AnswerOf, Call, table, world, trail
  <2> QED BY <2>1, QuietAnswers DEF Processes
<1>15. ASSUME NEW r \in Requests, DeleteRequest(r)  PROVE  AnswersHold'
  <2>1. row' = [row EXCEPT ![r] = GoneRow] /\ local' = local /\ now' = now
    BY <1>15 DEF DeleteRequest, world
  <2>2. \A b \in Processes \ overtaken' :
           b \notin overtaken /\ (b \in Asking(Shaken(r, GoneRow)) => FALSE)
    BY <1>15 DEF DeleteRequest
  <2>3. \A p : p \notin Shaken(r, GoneRow) => Unshaken(p)
    BY <1>0, <2>1 DEF Shaken, Unshaken, SameFor
  <2>4. \A b \in Processes \ (overtaken' \cup {}) :
           /\ local'[b] = local[b] /\ b \notin overtaken
           /\ local[b].pc \in {"assign", "commit"} => Unshaken(local[b].pair)
    BY <2>1, <2>2, <2>3 DEF Asking
  <2> QED BY <1>0, <2>1, <2>4, AnswersKept
<1>16. ASSUME NEW u \in Users, Erase(u)  PROVE  AnswersHold'
  <2>1. Erased(u)
    BY <1>16, EraseEffect
  <2>2. UNCHANGED <<local, now>> /\ overtaken' = overtaken \cup Asking({u} \X Servers)
    BY <2>1 DEF Erased
  <2>3. \A p : p \notin {u} \X Servers => Unshaken(p)
    BY <2>1, ErasedElsewhere
  <2>4. \A b \in Processes \ (overtaken' \cup {}) :
           /\ local'[b] = local[b] /\ b \notin overtaken
           /\ local[b].pc \in {"assign", "commit"} => Unshaken(local[b].pair)
    BY <2>2, <2>3 DEF Asking
  <2> QED BY <1>0, <2>2, <2>4, AnswersKept
<1>17. ASSUME NEW a \in Processes, Crash(a)  PROVE  AnswersHold'
  <2>1. PICK c : /\ local' = [local EXCEPT ![a] = c] /\ AnswerOf(c, row, now)
                 /\ UNCHANGED <<row, now>> /\ overtaken \subseteq overtaken' \cup {a}
    BY <1>17 DEF Crash, Goto, Return, AnswerOf, Call, table, world, trail
  <2> QED BY <2>1, QuietAnswers DEF Processes
<1>18. ASSUME Tick  PROVE  AnswersHold'
  <2>1. UNCHANGED <<row, local, overtaken>>
    BY <1>18 DEF Tick, table, trail
  <2>2. \A b \in Processes \ (overtaken' \cup {}) :
           /\ local'[b] = local[b] /\ b \notin overtaken
           /\ local[b].pc \in {"assign", "commit"} => Unshaken(local[b].pair)
    BY <2>1 DEF Unshaken, SameFor
  <2> QED BY <1>0, <2>1, <2>2, AnswersKept
<1> QED BY <1>1, <1>2, <1>3, <1>4, <1>5, <1>6, <1>7, <1>8, <1>9, <1>10, <1>11, <1>12,
     <1>13, <1>14, <1>15, <1>16, <1>17, <1>18, AskCases DEF IInv, Next, Serve, Sweep,
     Processes

-----------------------------------------------------------------------------
\* A call that has written a row and has the sync for pair p still to do.
Syncing(c, p) == c.pc \in {"own", "check", "assign"} /\ c.pair = p

LEMMA SyncingIs ==
  \A p : /\ InProgress(p) <=> \E a \in Processes : Syncing(local[a], p)
         /\ InProgress(p)' <=> \E a \in Processes : Syncing(local'[a], p)
BY DEF InProgress, Syncing

\* A sync in progress goes on, unless it is the one of the process that acts.
LEMMA SyncsGoOn ==
  ASSUME IInv, NEW a \in Processes, NEW c, local' = [local EXCEPT ![a] = c], NEW p,
         Syncing(local[a], p) => Syncing(c, p)
  PROVE  InProgress(p) => InProgress(p)'
<1>1. local \in [Processes -> Local]
  BY DEF IInv, TypeOK
<1> QED BY <1>1, SyncingIs

\* A step of one process that touches neither rows nor permissions.
LEMMA QuietAgreement ==
  ASSUME IInv, Agreement, NEW a \in Processes, NEW c, local' = [local EXCEPT ![a] = c],
         UNCHANGED <<row, now, grants, astray>>,
         \A p : Syncing(local[a], p) => Syncing(c, p)
  PROVE  Agreement'
<1>1. row \in [Requests -> Row] /\ now \in Nat
  BY DEF IInv, TypeOK, Times
<1>2. \A p : Unshaken(p) /\ (InProgress(p) => InProgress(p)')
  BY SyncsGoOn DEF Unshaken, SameFor
<1>3. \A p \in Pairs \ astray' :
         /\ p \notin astray /\ Unshaken(p) /\ (p \in grants' <=> p \in grants)
         /\ InProgress(p) => InProgress(p)'
  BY <1>2
<1> QED BY <1>1, <1>3, AgreementKept

\* A step of a process that leaves the permission of p as its answer says, after
\* approvals of the pairs in ps have changed.
LEMMA SyncedAgreement ==
  ASSUME IInv, AnswersHold, Agreement, NEW a \in Processes, NEW p \in Pairs, NEW ps,
         NEW c, local' = [local EXCEPT ![a] = c], ~(\E q : Syncing(local[a], q) /\ q # p),
         row' \in [Requests -> Row], now' = now,
         SetGrant(p, local[a].valid), astray' = Astray(a, p, ps),
         \A q : q \notin ps \cup {p} => Unshaken(q),
         a \notin overtaken => Answers(row', p, local[a].valid, now)
  PROVE  Agreement'
<1>1. row \in [Requests -> Row] /\ now \in Nat
  BY DEF IInv, TypeOK, Times
<1>2. ASSUME p \notin astray'
      PROVE  Answers(row', p, p \in grants', now')
  <2>1. a \notin overtaken
    BY <1>2 DEF Astray
  <2>2. (p \in grants') <=> local[a].valid
    BY DEF SetGrant
  <2> QED BY <2>1, <2>2 DEF Answers
<1>3. ASSUME NEW q \in Pairs, q \notin astray', q # p
      PROVE  /\ q \notin astray /\ Unshaken(q) /\ (q \in grants' <=> q \in grants)
             /\ InProgress(q) => InProgress(q)'
  <2>1. q \notin astray /\ q \notin ps
    BY <1>3 DEF Astray
  <2>2. q \in grants' <=> q \in grants
    BY <1>3 DEF SetGrant
  <2>3. InProgress(q) => InProgress(q)'
    BY <1>3, SyncsGoOn
  <2> QED BY <1>3, <2>1, <2>2, <2>3
<1> QED BY <1>1, <1>2, <1>3, AgreementKept

\* The permission follows the approvals, or has gone astray.
LEMMA NextAgreement ==
  ASSUME IInv, AnswersHold, Agreement, Next
  PROVE  Agreement'
<1>0. /\ now' \in Nat /\ now <= now' /\ row' \in [Requests -> Row]
      /\ row \in [Requests -> Row] /\ local \in [Processes -> Local] /\ now \in Nat
  BY NextClock DEF IInv, TypeOK, Times
<1>1. ASSUME NEW w \in Workers, NEW r \in Requests, NEW p \in Pairs, NEW e \in
      Expiries, CreateRequest(w, r, p, e)  PROVE  Agreement'
  <2> DEFINE x == [status |-> "pending", expires |-> e, decided |-> FALSE, pair |-> p]
             c == Call("own", r, p, NoRow, FALSE, 1)
  <2>1. /\ Commit(w, r, x) /\ local' = [local EXCEPT ![w] = c]
        /\ UNCHANGED <<grants, astray>> /\ local[w].pc = "idle" /\ row[r].status = "unborn"
    BY <1>1 DEF CreateRequest, Goto, perms, Free, Fresh
  <2>2. w \in Processes /\ x.status = "pending"
    BY DEF Processes
  <2>3. \A q : ~Syncing(local[w], q) /\ q \notin Shaken(r, x)
    BY <2>1, <2>2 DEF Syncing, Shaken
  <2> HIDE DEF x, c
  <2>4. \A q \in Pairs \ astray' :
           /\ q \notin astray /\ Unshaken(q) /\ (q \in grants' <=> q \in grants)
           /\ InProgress(q) => InProgress(q)'
    BY <2>1, <2>2, <2>3, CommitEffect, SyncsGoOn
  <2> QED BY <1>0, <2>4, AgreementKept
<1>2. ASSUME NEW w \in Workers, NEW r \in Requests, NEW x, Copied(r, x), Patch(w, r,
      x)  PROVE  Agreement'
  <2>1. PICK c : /\ local' = [local EXCEPT ![w] = c] /\ UNCHANGED <<row, now, grants, astray>>
                 /\ \A p1 : Syncing(local[w], p1) => Syncing(c, p1)
    BY <1>2 DEF Patch, Free, Syncing, Call, table, perms, world, trail
  <2> QED BY <2>1, QuietAgreement DEF Processes
<1>3. ASSUME NEW w \in Workers, NEW r \in Requests, NEW p \in Pairs, NEW s \in
      FormStatuses, NEW e \in Expiries, AdminForm(w, r, p, s, e)  PROVE  Agreement'
  <2>1. PICK c : /\ local' = [local EXCEPT ![w] = c] /\ UNCHANGED <<row, now, grants, astray>>
                 /\ \A p1 : Syncing(local[w], p1) => Syncing(c, p1)
    BY <1>3 DEF AdminForm, Free, Syncing, Call, table, perms, world, trail
  <2> QED BY <2>1, QuietAgreement DEF Processes
<1>4. ASSUME NEW w \in Workers, AssignOwner(w)  PROVE  Agreement'
  <2>1. PICK q1, x, v, n :
           /\ local' = [local EXCEPT ![w] = Call("check", q1, local[w].pair, x, v, n)]
           /\ UNCHANGED <<row, now, grants, astray>>
    BY <1>4 DEF AssignOwner, Goto, table, perms, world, trail
  <2> DEFINE c == Call("check", q1, local[w].pair, x, v, n)
  <2>2. \A q : Syncing(local[w], q) => Syncing(c, q)
    BY DEF Syncing, Call
  <2> HIDE DEF c
  <2> QED BY <2>1, <2>2, QuietAgreement DEF Processes, c
<1>5. ASSUME NEW w \in Workers, Save(w)  PROVE  Agreement'
  <2> DEFINE r == local[w].req
             x == local[w].new
             c == Call(IF Exists(r) THEN "check" ELSE "own", r, x.pair, NoRow, FALSE,
                       local[w].syncs)
  <2>1. /\ Commit(w, r, x) /\ local' = [local EXCEPT ![w] = c] /\ grants' = grants
        /\ astray' = astray \cup (Shaken(r, x) \ {x.pair}) /\ local[w].pc = "save"
    BY <1>5 DEF Save, Goto, perms
  <2>2. w \in Processes /\ r \in Requests
    BY <1>5 DEF Save, IInv, CallsWellFormed, Processes
  <2>3. Syncing(c, x.pair) /\ \A q : ~Syncing(local[w], q)
    BY <2>1 DEF Syncing, Call
  <2>4. local'[w] = c
    BY <1>0, <2>1, <2>2
  <2> HIDE DEF r, x, c
  <2>5. ASSUME NEW q \in Pairs, q = x.pair
        PROVE  InProgress(q)'
    BY <2>2, <2>3, <2>4, <2>5, SyncingIs
  <2>6. ASSUME NEW q \in Pairs, q \notin astray', q # x.pair
        PROVE  /\ q \notin astray /\ Unshaken(q) /\ (q \in grants' <=> q \in grants)
               /\ InProgress(q) => InProgress(q)'
    <3>1. q \notin astray /\ q \notin Shaken(r, x)
      BY <2>1, <2>6
    <3>2. Unshaken(q)
      BY <2>1, <2>2, <3>1, CommitEffect
    <3>3. InProgress(q) => InProgress(q)'
      BY <2>1, <2>2, <2>3, SyncsGoOn
    <3> QED BY <2>1, <3>1, <3>2, <3>3
  <2> QED BY <1>0, <2>5, <2>6, AgreementKept
<1>6. ASSUME NEW a \in Processes, SyncCheck(a)  PROVE  Agreement'
  <2>1. PICK q1, x, v, n :
           /\ local' = [local EXCEPT ![a] = Call("assign", q1, local[a].pair, x, v, n)]
           /\ UNCHANGED <<row, now, grants, astray>>
    BY <1>6 DEF SyncCheck, table, perms, world, trail
  <2> DEFINE c == Call("assign", q1, local[a].pair, x, v, n)
  <2>2. \A q : Syncing(local[a], q) => Syncing(c, q)
    BY DEF Syncing, Call
  <2> HIDE DEF c
  <2> QED BY <2>1, <2>2, QuietAgreement DEF Processes, c
<1>7. ASSUME NEW a \in Processes, SyncAssign(a)  PROVE  Agreement'
  <2> DEFINE p == local[a].pair
  <2>1. /\ SetGrant(p, local[a].valid) /\ astray' = Astray(a, p, {}) /\ local[a].pc = "assign"
        /\ row' = row /\ now' = now
    BY <1>7 DEF SyncAssign, table, world
  <2>2. PICK k, q1, p1, n : local' = [local EXCEPT ![a] = Call(k, q1, p1, NoRow, FALSE, n)]
    <3>1. \E k, q1, p1, n : Goto(a, k, q1, p1, n)
      BY <1>7 DEF SyncAssign, Return
    <3> QED BY <3>1 DEF Goto
  <2>3. p \in Pairs
    BY <2>1 DEF IInv, CallsWellFormed
  <2>4. ~(\E q : Syncing(local[a], q) /\ q # p)
    BY DEF Syncing
  <2>5. \A q : q \notin {} \cup {p} => Unshaken(q)
    BY <2>1 DEF Unshaken, SameFor
  <2>6. a \notin overtaken => Answers(row', p, local[a].valid, now)
    BY <2>1 DEF AnswersHold, AnswerOf
  <2> HIDE DEF p
  <2> QED BY <1>0, <2>1, <2>2, <2>3, <2>4, <2>5, <2>6, SyncedAgreement
<1>8. ASSUME NEW w \in Workers, FormUpdate(w)  PROVE  Agreement'
  <2>1. PICK c : /\ local' = [local EXCEPT ![w] = c] /\ UNCHANGED <<row, now, grants, astray>>
                 /\ \A p1 : Syncing(local[w], p1) => Syncing(c, p1)
    BY <1>8 DEF FormUpdate, Syncing, Call, table, perms, world, trail
  <2> QED BY <2>1, QuietAgreement DEF Processes
<1>9. ASSUME NEW w \in Workers, FormCommit(w)  PROVE  Agreement'
  <2> DEFINE r == local[w].req
             x == local[w].new
             p == local[w].pair
             ps == Shaken(r, x) \ {p}
  <2>1. /\ Commit(w, r, x) /\ SetGrant(p, local[w].valid) /\ astray' = Astray(w, p, ps)
        /\ local[w].pc = "commit" /\ now' = now
    BY <1>9 DEF FormCommit, world
  <2>2. PICK k, q1, p1, n : local' = [local EXCEPT ![w] = Call(k, q1, p1, NoRow, FALSE, n)]
    BY <1>9 DEF FormCommit, Goto, Return
  <2>3. p \in Pairs /\ w \in Processes /\ r \in Requests
    BY <2>1 DEF IInv, CallsWellFormed, Processes
  <2>4. ~(\E q : Syncing(local[w], q) /\ q # p)
    BY <2>1 DEF Syncing
  <2>5. row' = [row EXCEPT ![r] = x] /\ \A q : q \notin ps \cup {p} => Unshaken(q)
    BY <2>1, <2>3, CommitEffect
  <2>6. w \notin overtaken => Answers(row', p, local[w].valid, now)
    BY <2>1, <2>3, <2>5 DEF AnswersHold, AnswerOf
  <2> HIDE DEF r, x, p, ps
  <2> QED BY <1>0, <2>1, <2>2, <2>3, <2>4, <2>5, <2>6, SyncedAgreement
<1>10. ASSUME NEW s \in Sweepers, SweepStart(s)  PROVE  Agreement'
  <2>1. PICK c : /\ local' = [local EXCEPT ![s] = c] /\ UNCHANGED <<row, now, grants, astray>>
                 /\ \A p1 : Syncing(local[s], p1) => Syncing(c, p1)
    BY <1>10 DEF SweepStart, Goto, Free, Syncing, Call, table, perms, world, trail
  <2> QED BY <2>1, QuietAgreement DEF Processes
<1>11. ASSUME NEW s \in Sweepers, NEW r \in Requests, NEW p \in Pairs, SweepUpdate(s,
      r, p)  PROVE  Agreement'
  <2>1. PICK x, v : ExpiryWritten(s, r, p, x, v)
    BY <1>11, SweepUpdateEffect
  <2> DEFINE c == Call("commit", r, p, x, v, 1)
  <2>2. /\ local' = [local EXCEPT ![s] = c] /\ UNCHANGED <<row, now, grants, astray>>
        /\ local[s].pc = "pick"
    BY <2>1 DEF ExpiryWritten, table, perms, world, trail
  <2>3. \A q : ~Syncing(local[s], q)
    BY <2>2 DEF Syncing
  <2> HIDE DEF c
  <2> QED BY <2>2, <2>3, QuietAgreement DEF Processes
<1>12. ASSUME NEW s \in Sweepers, NEW r \in Requests, NEW p \in Pairs, SweepMissing(s,
      r, p)  PROVE  Agreement'
  <2>1. PICK c : /\ local' = [local EXCEPT ![s] = c] /\ UNCHANGED <<row, now, grants, astray>>
                 /\ \A p1 : Syncing(local[s], p1) => Syncing(c, p1)
    BY <1>12 DEF SweepMissing, Goto, Return, Syncing, Call, table, perms, world, trail
  <2> QED BY <2>1, QuietAgreement DEF Processes
<1>13. ASSUME NEW s \in Sweepers, SweepCommit(s)  PROVE  Agreement'
  <2> DEFINE r == local[s].req
             x == local[s].new
             p == local[s].pair
             ps == Shaken(r, x) \ {p}
  <2>1. /\ Commit(s, r, x) /\ SetGrant(p, local[s].valid) /\ astray' = Astray(s, p, ps)
        /\ local[s].pc = "commit" /\ now' = now
    BY <1>13 DEF SweepCommit, world
  <2>2. PICK k, q1, p1, n : local' = [local EXCEPT ![s] = Call(k, q1, p1, NoRow, FALSE, n)]
    BY <1>13 DEF SweepCommit, Goto, Return
  <2>3. p \in Pairs /\ s \in Processes /\ r \in Requests
    BY <2>1 DEF IInv, CallsWellFormed, Processes
  <2>4. ~(\E q : Syncing(local[s], q) /\ q # p)
    BY <2>1 DEF Syncing
  <2>5. row' = [row EXCEPT ![r] = x] /\ \A q : q \notin ps \cup {p} => Unshaken(q)
    BY <2>1, <2>3, CommitEffect
  <2>6. s \notin overtaken => Answers(row', p, local[s].valid, now)
    BY <2>1, <2>3, <2>5 DEF AnswersHold, AnswerOf
  <2> HIDE DEF r, x, p, ps
  <2> QED BY <1>0, <2>1, <2>2, <2>3, <2>4, <2>5, <2>6, SyncedAgreement
<1>14. ASSUME NEW s \in Sweepers, SweepEnd(s)  PROVE  Agreement'
  <2>1. PICK c : /\ local' = [local EXCEPT ![s] = c] /\ UNCHANGED <<row, now, grants, astray>>
                 /\ \A p1 : Syncing(local[s], p1) => Syncing(c, p1)
    BY <1>14 DEF SweepEnd, Goto, Return, Syncing, Call, table, perms, world, trail
  <2> QED BY <2>1, QuietAgreement DEF Processes
<1>15. ASSUME NEW r \in Requests, DeleteRequest(r)  PROVE  Agreement'
  <2> DEFINE ps == Shaken(r, GoneRow)
  <2>1. /\ row' = [row EXCEPT ![r] = GoneRow] /\ local' = local /\ grants' = grants
        /\ astray' = astray \cup ps
    BY <1>15 DEF DeleteRequest, perms
  <2>2. \A q : q \notin ps => Unshaken(q)
    BY <1>0, <2>1 DEF Shaken, Unshaken, SameFor
  <2>3. \A q : InProgress(q) => InProgress(q)'
    BY <2>1, SyncingIs
  <2> HIDE DEF ps
  <2>4. \A q \in Pairs \ astray' :
           /\ q \notin astray /\ Unshaken(q) /\ (q \in grants' <=> q \in grants)
           /\ InProgress(q) => InProgress(q)'
    BY <2>1, <2>2, <2>3
  <2> QED BY <1>0, <2>4, AgreementKept
<1>16. ASSUME NEW u \in Users, Erase(u)  PROVE  Agreement'
  <2> DEFINE mine == {u} \X Servers
  <2>1. Erased(u)
    BY <1>16, EraseEffect
  <2>2. /\ local' = local /\ grants' = grants \ mine /\ astray' = astray \ mine
    BY <2>1 DEF Erased
  <2>3. /\ \A q : q \notin mine => Unshaken(q)
        /\ \A q \in Requests : row'[q].status = "approved" => row'[q].pair \notin mine
    BY <2>1, ErasedElsewhere
  <2>4. \A q : InProgress(q) => InProgress(q)'
    BY <2>2, SyncingIs
  <2> HIDE DEF mine
  <2>5. ASSUME NEW q \in Pairs, q \in mine
        PROVE  Answers(row', q, q \in grants', now')
    BY <2>2, <2>3, <2>5 DEF Answers, HasAccessAt, ValidAt
  <2>6. ASSUME NEW q \in Pairs, q \notin astray', q \notin mine
        PROVE  /\ q \notin astray /\ Unshaken(q) /\ (q \in grants' <=> q \in grants)
               /\ InProgress(q) => InProgress(q)'
    BY <2>2, <2>3, <2>4, <2>6
  <2> QED BY <1>0, <2>5, <2>6, AgreementKept
<1>17. ASSUME NEW a \in Processes, Crash(a)  PROVE  Agreement'
  <2> DEFINE c == Call("idle", NoRequest, NoPair, NoRow, FALSE, 0)
  <2>1. /\ local' = [local EXCEPT ![a] = c] /\ UNCHANGED <<row, grants>>
        /\ astray' = IF local[a].pc \in {"own", "check", "assign"}
                     THEN astray \cup {local[a].pair} ELSE astray
    BY <1>17 DEF Crash, Goto, Return, table, perms
  <2>2. \A q : q \notin astray' => ~Syncing(local[a], q)
    BY <2>1 DEF Syncing
  <2> HIDE DEF c
  <2>3. \A q : Unshaken(q)
    BY <2>1 DEF Unshaken, SameFor
  <2>4. \A q \in Pairs \ astray' :
           /\ q \notin astray /\ Unshaken(q) /\ (q \in grants' <=> q \in grants)
           /\ InProgress(q) => InProgress(q)'
    BY <2>1, <2>2, <2>3, SyncsGoOn
  <2> QED BY <1>0, <2>4, AgreementKept
<1>18. ASSUME Tick  PROVE  Agreement'
  <2>1. UNCHANGED <<row, local, grants, astray>>
    BY <1>18 DEF Tick, table, perms, trail
  <2>2. \A q : Unshaken(q) /\ (InProgress(q) => InProgress(q)')
    BY <2>1, SyncingIs DEF Unshaken, SameFor
  <2> QED BY <1>0, <2>1, <2>2, AgreementKept
<1> QED BY <1>1, <1>2, <1>3, <1>4, <1>5, <1>6, <1>7, <1>8, <1>9, <1>10, <1>11, <1>12,
     <1>13, <1>14, <1>15, <1>16, <1>17, <1>18, AskCases DEF IInv, Next, Serve, Sweep,
     Processes

\* What the three parts make together.
AgreeInv == IInv /\ AnswersHold /\ Agreement

LEMMA InitAgreeInv == Init => AgreeInv
<1> SUFFICES ASSUME Init PROVE AgreeInv
  OBVIOUS
<1>1. \A r \in Requests : row[r].status = "unborn"
  BY DEF Init, NoRow
<1>2. \A a \in Processes : local[a].pc = "idle"
  BY DEF Init, Idle, Call
<1>3. AnswersHold
  BY <1>2 DEF AnswersHold, AnswerOf
<1>4. Agreement
  BY <1>1 DEF Init, Agreement, Answers, HasAccessAt, ValidAt
<1> QED BY <1>3, <1>4, InitIInv DEF AgreeInv

LEMMA NextAgreeInv == AgreeInv /\ [Next]_vars => AgreeInv'
<1>1. CASE UNCHANGED vars
  <2>1. UNCHANGED <<row, now, local, grants, overtaken, astray>>
    BY <1>1 DEF vars, table, perms, world, trail
  <2>2. AnswersHold => AnswersHold'
    BY <2>1 DEF AnswersHold
  <2>3. Agreement => Agreement'
    BY <2>1, SyncingIs DEF Agreement
  <2> QED BY <1>1, <2>2, <2>3, StutterIInv DEF AgreeInv
<1> QED BY <1>1, NextIInv, NextAnswers, NextAgreement DEF AgreeInv

LEMMA AgreeInvariance == Spec => []AgreeInv
<1>1. AgreeInv /\ [Next]_vars => AgreeInv'
  BY NextAgreeInv
<1> QED BY <1>1, InitAgreeInv, PTL DEF Spec

\* Whatever calls overlap, crash or edit, a permission follows the approvals of
\* its pair in every state in which no sync of the pair is due, an approval that
\* ran out since the last sweep included, unless it has gone astray in one of the
\* four ways that the model keeps a trail of. What makes it inductive is that an
\* answer of the query nobody has overtaken is true of the rows of its pair.
THEOREM PermissionsFollowApprovals == Spec => []SettledAgreement
<1>1. AgreeInv => SettledAgreement
  <2> SUFFICES ASSUME Agreement, NEW p \in Pairs \ astray, ~InProgress(p)
               PROVE  /\ p \in grants =>
                            \E r \in Requests : row[r].pair = p /\ row[r].status = "approved"
                      /\ HasValidAccess(row, p) => p \in grants
    BY DEF AgreeInv, SettledAgreement
  <2> QED BY SameQuery DEF Agreement, Answers, HasApproval
<1> QED BY <1>1, AgreeInvariance, PTL

-----------------------------------------------------------------------------
(***************************************************************************)
(* The server and the agent together implement ServerAccess, as far as     *)
(* safety goes.                                                            *)
(***************************************************************************)
USE AgentAssumption

\* Whom the agent opens an account for was approved; whom it closes one for had
\* no approval that counted at some time since, or a permission that went astray.
\* The agent knows by the permission, which a user tracked by the agent loses for
\* these reasons only.
Tracked ==
    /\ acct \in [A!Accounts -> {"absent", "enabled", "disabled"}]
    /\ stateFile \in A!AccountMap /\ desired \in A!AccountMap
    /\ Approved \ Entitled \subseteq lapsed
    /\ toEnsure \subseteq A!In(desired)
    /\ toRevoke \subseteq lapsed
    /\ \A u \in A!In(stateFile) \cup A!In(desired) :
          u \in Approved /\ (<<u, Agent>> \in grants \/ u \in lapsed)

LEMMA ACImplementsServer == ACSafety => Spec
<1>1. ACInit => Init
  BY DEF ACInit
<1>2. [ACNext]_avars => [Next]_vars
  BY DEF ACNext, avars, Work, Synchronise
<1> QED BY <1>1, <1>2, PTL DEF ACSafety, Spec

\* A permission goes when no approval counts for it, with the user, or astray.
LEMMA PermissionLost ==
  ASSUME AgreeInv, Next, NEW p \in Pairs, p \in grants, p \notin grants'
  PROVE  p[1] \in erased' \/ p \in astray' \/ ~HasAccessAt(row', p, now')
<1>1. IInv /\ AnswersHold /\ row \in [Requests -> Row]
  BY DEF AgreeInv, IInv, TypeOK
<1>2. ASSUME NEW a \in Processes, SyncAssign(a)
      PROVE  p \in astray' \/ ~HasAccessAt(row', p, now')
  <2>1. /\ SetGrant(local[a].pair, local[a].valid) /\ local[a].pc = "assign"
        /\ astray' = Astray(a, local[a].pair, {}) /\ row' = row /\ now' = now
    BY <1>2 DEF SyncAssign, table, world
  <2>2. p = local[a].pair /\ ~local[a].valid
    BY <2>1 DEF SetGrant
  <2>3. CASE a \in overtaken
    BY <2>1, <2>2, <2>3 DEF Astray
  <2>4. CASE a \notin overtaken
    BY <1>1, <2>1, <2>2, <2>4 DEF AnswersHold, AnswerOf, Answers
  <2> QED BY <2>3, <2>4
<1>3. ASSUME NEW a \in Processes, FormCommit(a) \/ SweepCommit(a)
      PROVE  p \in astray' \/ ~HasAccessAt(row', p, now')
  <2>1. /\ SetGrant(local[a].pair, local[a].valid) /\ local[a].pc = "commit"
        /\ \E ps : astray' = Astray(a, local[a].pair, ps)
        /\ row' = [row EXCEPT ![local[a].req] = local[a].new] /\ now' = now
    BY <1>3 DEF FormCommit, SweepCommit, Commit, world
  <2>2. p = local[a].pair /\ ~local[a].valid
    BY <2>1 DEF SetGrant
  <2>3. CASE a \in overtaken
    BY <2>1, <2>2, <2>3 DEF Astray
  <2>4. CASE a \notin overtaken
    BY <1>1, <2>1, <2>2, <2>4 DEF AnswersHold, AnswerOf, Answers
  <2> QED BY <2>3, <2>4
<1>4. ASSUME NEW u \in Users, Erase(u)
      PROVE  p[1] \in erased'
  <2>1. Erased(u)
    BY <1>1, <1>4, EraseEffect
  <2>2. p \in {u} \X Servers /\ erased' = erased \cup {u}
    BY <2>1 DEF Erased
  <2> QED BY <2>2
<1>5. ASSUME NEW w \in Workers, Ask(w) PROVE FALSE
  BY <1>5 DEF Ask, CreateRequest, AdminDecide, AdminReschedule, OwnerCancel, Patch,
              AdminForm, perms
<1>6. ASSUME NEW a \in Processes,
             AssignOwner(a) \/ Save(a) \/ SyncCheck(a) \/ FormUpdate(a)
      PROVE  FALSE
  BY <1>6 DEF AssignOwner, Save, SyncCheck, FormUpdate, perms
<1>7. ASSUME NEW s \in Sweepers,
             \/ SweepStart(s) \/ SweepEnd(s)
             \/ \E r \in Requests, q \in Pairs : SweepUpdate(s, r, q) \/ SweepMissing(s, r, q)
      PROVE  FALSE
  BY <1>7 DEF SweepStart, SweepEnd, SweepUpdate, SweepMissing, perms
<1>8. ASSUME \/ (\E r \in Requests : DeleteRequest(r))
             \/ (\E a \in Processes : Crash(a)) \/ Tick
      PROVE  FALSE
  BY <1>8 DEF DeleteRequest, Crash, Tick, perms
<1> QED BY <1>2, <1>3, <1>4, <1>5, <1>6, <1>7, <1>8
        DEF Next, Serve, Sweep, Processes

\* What was approved stays in the history.
LEMMA HistoryGrows ==
  ASSUME Next
  PROVE  everApproved \subseteq everApproved'
<1>1. ASSUME NEW w \in Workers, Ask(w) PROVE everApproved \subseteq everApproved'
  BY <1>1 DEF Ask, CreateRequest, Commit, AdminDecide, AdminReschedule, OwnerCancel,
              Patch, AdminForm, table
<1>2. ASSUME NEW w \in Workers, Serve(w) PROVE everApproved \subseteq everApproved'
  BY <1>2 DEF Serve, AssignOwner, Save, Commit, SyncCheck, SyncAssign, FormUpdate,
              FormCommit, table
<1>3. ASSUME NEW s \in Sweepers, SweepStart(s) \/ Sweep(s)
      PROVE  everApproved \subseteq everApproved'
  BY <1>3 DEF SweepStart, Sweep, SweepUpdate, SweepMissing, SweepCommit, Commit,
              SyncCheck, SyncAssign, SweepEnd, table
<1> QED BY <1>1, <1>2, <1>3 DEF Next, DeleteRequest, Erase, Crash, Tick, table

LEMMA SameEntitled ==
  /\ Entitled = {u \in Users \ erased : HasAccessAt(row, <<u, Agent>>, now)}
  /\ Entitled' = {u \in Users \ erased' : HasAccessAt(row', <<u, Agent>>, now')}
BY DEF Entitled, HasValidAccess, HasAccessAt, Valid, ValidAt, Unexpired

LEMMA TrackedInit == ACInit => Tracked
<1> SUFFICES ASSUME ACInit PROVE Tracked
  OBVIOUS
<1>1. Approved = {}
  BY DEF ACInit, Init, Approved
<1>2. A!NoAccounts \in A!AccountMap /\ A!In(A!NoAccounts) = {}
  BY DEF A!NoAccounts, A!AccountMap, A!In
<1> QED BY <1>1, <1>2 DEF ACInit, Tracked

LEMMA WorkTracked ==
  ASSUME AgreeInv, Tracked, Work
  PROVE  Tracked'
<1>1. UNCHANGED agent /\ lapsed' = lapsed \cup (Approved' \ Entitled') \cup Strayed'
  BY DEF Work
<1>2. Approved \subseteq Approved'
  BY HistoryGrows DEF Work, Approved
<1>3. ASSUME NEW u \in Users, u \in Approved, <<u, Agent>> \in grants \/ u \in lapsed
      PROVE  u \in Approved' /\ (<<u, Agent>> \in grants' \/ u \in lapsed')
  <2>1. <<u, Agent>> \in Pairs /\ <<u, Agent>>[1] = u
    BY DEF Pairs
  <2>2. CASE <<u, Agent>> \in grants /\ <<u, Agent>> \notin grants'
    <3>1. \/ u \in erased' \/ <<u, Agent>> \in astray'
          \/ ~HasAccessAt(row', <<u, Agent>>, now')
      BY <2>1, <2>2, PermissionLost DEF Work
    <3>2. u \notin Entitled' \/ u \in Strayed'
      BY <3>1, SameEntitled DEF Strayed
    <3> QED BY <1>1, <1>2, <1>3, <3>2
  <2> QED BY <1>1, <1>2, <1>3, <2>2
<1>4. A!In(stateFile) \cup A!In(desired) \subseteq Users
  BY DEF A!In
<1> QED BY <1>1, <1>3, <1>4 DEF Tracked, agent, A!In

\* What a step of the agent does, seen from the accounts.
LEMMA SyncTracked ==
  ASSUME IInv, Tracked, Synchronise
  PROVE  /\ Tracked'
         /\ \/ acct' = acct
            \/ \E u \in Users :
                  \/ /\ u \in lapsed
                     /\ acct' = [acct EXCEPT ![<<u, Version>>] = "disabled"]
                  \/ /\ u \in Approved
                     /\ acct' = [acct EXCEPT ![<<u, Version>>] = "enabled"]
<1>1. /\ UNCHANGED <<vars, lapsed>>
      /\ Approved' = Approved /\ Entitled' = Entitled
  BY SameEntitled DEF Synchronise, vars, table, perms, world, Approved
<1>2. \A u \in Users : u \in Approved <=> <<u, Agent>> \in everApproved
  BY DEF Approved
<1>3. ASSUME UNCHANGED <<acct, stateFile, desired, toEnsure>>, toRevoke' \subseteq toRevoke
      PROVE  Tracked'
  BY <1>1, <1>3 DEF Tracked, A!In, vars, perms
<1>4. CASE A!Fetch
  <2>1. /\ desired' = A!Answer /\ toEnsure' = A!In(A!Answer)
        /\ toRevoke' = A!In(stateFile) \ A!In(A!Answer)
        /\ acct' = acct /\ stateFile' = stateFile
    BY <1>4 DEF A!Fetch, A!host
  <2>2. A!Answer \in A!AccountMap /\ A!In(A!Answer) = ResolveAccessUsers
    BY AgentAssumption DEF A!Answer, A!AccountMap, A!In, ResolveAccessUsers
  <2>3. \A u \in ResolveAccessUsers : u \in Approved /\ <<u, Agent>> \in grants
    BY <1>2 DEF ResolveAccessUsers, IInv, GrantsNeedApproval
  <2>4. A!In(stateFile) \ ResolveAccessUsers \subseteq lapsed
    <3> SUFFICES ASSUME NEW u \in A!In(stateFile), u \notin ResolveAccessUsers
                 PROVE  u \in lapsed
      OBVIOUS
    <3>1. u \in Users /\ u \in Approved /\ (<<u, Agent>> \in grants \/ u \in lapsed)
      BY DEF Tracked, A!In
    <3>2. CASE u \in erased
      BY <3>1, <3>2 DEF Tracked, Entitled
    <3>3. CASE u \notin erased
      BY <3>1, <3>3 DEF ResolveAccessUsers
    <3> QED BY <3>2, <3>3
  <2>5. \A u \in A!In(stateFile') \cup A!In(desired') :
           u \in Approved /\ (<<u, Agent>> \in grants \/ u \in lapsed)
    BY <2>1, <2>2, <2>3 DEF Tracked
  <2> QED BY <1>1, <2>1, <2>2, <2>4, <2>5 DEF Tracked, vars, perms, A!In
<1>5. CASE A!FetchCorrupt
  <2>1. A!NoAccounts \in A!AccountMap /\ A!In(A!NoAccounts) = {}
    BY DEF A!NoAccounts, A!AccountMap, A!In
  <2>2. /\ desired' = A!NoAccounts /\ toEnsure' = {} /\ toRevoke' = {}
        /\ acct' = acct /\ stateFile' = stateFile
    BY <1>5 DEF A!FetchCorrupt, A!host
  <2>3. \A u \in A!In(stateFile') \cup A!In(desired') :
           u \in Approved /\ (<<u, Agent>> \in grants \/ u \in lapsed)
    BY <2>1, <2>2 DEF Tracked
  <2> QED BY <1>1, <2>1, <2>2, <2>3 DEF Tracked, vars, perms
<1>6. ASSUME NEW u \in Users, A!Revoke(u)
      PROVE  /\ Tracked'
             /\ \/ acct' = acct
                \/ /\ u \in lapsed
                   /\ acct' = [acct EXCEPT ![<<u, Version>>] = "disabled"]
  <2> DEFINE k == <<u, stateFile[u]>>
  <2>1. /\ u \in toRevoke /\ toRevoke' \subseteq toRevoke
        /\ acct' = [acct EXCEPT ![k] = A!Revoked(acct[k])]
        /\ UNCHANGED <<stateFile, desired, toEnsure>>
    BY <1>6 DEF A!Revoke, A!SetAccount
  <2>2. u \in lapsed
    BY <2>1 DEF Tracked
  <2>3. stateFile[u] \in {Version, None}
    BY DEF Tracked, A!AccountMap
  <2>4. \/ acct' = acct
        \/ stateFile[u] = Version /\ acct' = [acct EXCEPT ![k] = "disabled"]
    <3>1. CASE A!Revoked(acct[k]) = acct[k]
      BY <2>1, <3>1 DEF Tracked
    <3>2. CASE A!Revoked(acct[k]) = "disabled" /\ stateFile[u] = Version
      BY <2>1, <3>2
    <3>3. CASE stateFile[u] = None
      <4>1. k \notin A!Accounts
        BY <3>3, AgentAssumption DEF A!Accounts
      <4> QED BY <2>1, <4>1 DEF Tracked
    <3> QED BY <2>3, <3>1, <3>2, <3>3 DEF A!Revoked
  <2>5. acct' \in [A!Accounts -> {"absent", "enabled", "disabled"}]
    BY <2>4 DEF Tracked
  <2>6. Tracked'
    BY <1>1, <2>1, <2>5 DEF Tracked, A!In, vars, perms
  <2> QED BY <2>2, <2>4, <2>6
<1>7. ASSUME NEW u \in Users, A!Ensure(u)
      PROVE  /\ Tracked'
             /\ u \in Approved
             /\ acct' = [acct EXCEPT ![<<u, Version>>] = "enabled"]
  <2>1. /\ u \in toEnsure /\ toEnsure' \subseteq toEnsure
        /\ acct' = [acct EXCEPT ![<<u, desired[u]>>] = "enabled"]
        /\ UNCHANGED <<stateFile, desired, toRevoke>>
    BY <1>7 DEF A!Ensure, A!SetAccount
  <2>2. u \in Approved /\ desired[u] = Version
    BY <2>1 DEF Tracked, A!In, A!AccountMap
  <2>3. acct' \in [A!Accounts -> {"absent", "enabled", "disabled"}]
    BY <2>1 DEF Tracked
  <2>4. Tracked'
    BY <1>1, <2>1, <2>3 DEF Tracked, A!In, vars, perms
  <2> QED BY <2>1, <2>2, <2>4
<1>8. CASE A!Save
  <2>1. stateFile' = desired /\ UNCHANGED <<acct, desired, toEnsure, toRevoke>>
    BY <1>8 DEF A!Save, A!memory
  <2>2. \A u \in A!In(stateFile') \cup A!In(desired') :
           u \in Approved /\ (<<u, Agent>> \in grants \/ u \in lapsed)
    BY <2>1 DEF Tracked
  <2> QED BY <1>1, <2>1, <2>2 DEF Tracked, A!In, vars, perms
<1>9. CASE A!RevokeDone \/ A!EnsureDone \/ A!Report
  BY <1>3, <1>9 DEF A!RevokeDone, A!EnsureDone, A!Report, A!host, A!memory
<1>10. ~A!Fail
  BY DEF A!Fail
<1> QED
  BY <1>4, <1>5, <1>6, <1>7, <1>8, <1>9, <1>10
     DEF Synchronise, A!Sync, A!SaveFails, A!ReportFails, A!RevokeFails, A!EnsureFails,
         A!Fetch, A!FetchCorrupt, A!Save, A!RevokeDone, A!EnsureDone, A!Report, A!host

LEMMA ACInitImplements == ACInit => S!Init
<1> SUFFICES ASSUME ACInit PROVE S!Init
  OBVIOUS
<1>1. Approved = {}
  BY DEF ACInit, Init, Approved
<1>2. Entitled = {}
  BY DEF ACInit, Init, Entitled, HasValidAccess, Valid, NoRow
<1>3. LetIn = {}
  BY DEF ACInit, LetIn, A!Accounts
<1>4. Strayed = {}
  BY DEF ACInit, Init, Strayed
<1> QED BY <1>1, <1>2, <1>3, <1>4 DEF ACInit, S!Init

\* A step of the server decides: who is entitled was approved, and who was
\* approved stays so.
LEMMA WorkImplements ==
  ASSUME IInv', Work
  PROVE  S!Decide
<1>1. UNCHANGED agent /\ lapsed' = lapsed \cup (Approved' \ Entitled') \cup Strayed'
  BY DEF Work
<1>2. /\ Approved \subseteq Approved' /\ Approved' \in SUBSET Users
      /\ Strayed' \in SUBSET Users
  BY HistoryGrows DEF Work, Approved, Strayed
<1>3. Entitled' \in SUBSET Approved'
  <2> SUFFICES ASSUME NEW u \in Entitled'
               PROVE  u \in Approved'
    OBVIOUS
  <2>1. u \in Users /\ HasAccessAt(row', <<u, Agent>>, now')
    BY SameEntitled
  <2>2. PICK r \in Requests :
           row'[r].pair = <<u, Agent>> /\ row'[r].status = "approved"
    BY <2>1 DEF HasAccessAt, ValidAt
  <2>3. row'[r].pair \in everApproved'
    BY <2>2 DEF IInv, ApprovalsRecorded
  <2> QED BY <2>1, <2>2, <2>3 DEF Approved
<1>4. LetIn' = LetIn
  BY <1>1 DEF LetIn, agent
<1> QED BY <1>1, <1>2, <1>3, <1>4 DEF S!Decide

\* A step of the agent opens one account, closes one, or is not seen.
LEMMA SynchroniseImplements ==
  ASSUME IInv, Tracked, Synchronise
  PROVE  (\E u \in Users : S!Open(u) \/ S!Close(u)) \/ UNCHANGED S!vars
<1>1. UNCHANGED <<Entitled, Approved, Strayed, lapsed>>
  BY SameEntitled DEF Synchronise, vars, table, perms, world, trail, Approved, Strayed
<1>2. /\ acct \in [A!Accounts -> {"absent", "enabled", "disabled"}]
      /\ \A u \in Users : <<u, Version>> \in A!Accounts
  BY DEF Tracked, A!Accounts
<1>3. CASE acct' = acct
  BY <1>1, <1>3 DEF LetIn, S!vars
<1>4. ASSUME NEW u \in Users, u \in lapsed,
             acct' = [acct EXCEPT ![<<u, Version>>] = "disabled"]
      PROVE  S!Close(u)
  <2>1. LetIn' = LetIn \ {u}
    BY <1>2, <1>4 DEF LetIn
  <2> QED BY <1>1, <1>4, <2>1 DEF S!Close
<1>5. ASSUME NEW u \in Users, u \in Approved,
             acct' = [acct EXCEPT ![<<u, Version>>] = "enabled"]
      PROVE  S!Open(u)
  <2>1. LetIn' = LetIn \cup {u}
    BY <1>2, <1>5 DEF LetIn
  <2> QED BY <1>1, <1>5, <2>1 DEF S!Open
<1> QED BY <1>3, <1>4, <1>5, SyncTracked

LEMMA StutterImplements ==
  ASSUME UNCHANGED avars
  PROVE  UNCHANGED S!vars /\ (Tracked => Tracked')
<1>1. UNCHANGED <<row, now, grants, erased, everApproved, astray, acct, stateFile,
                  desired, toEnsure, toRevoke, lapsed>>
  BY DEF avars, vars, table, perms, world, trail, agent
<1>2. Approved' = Approved /\ Strayed' = Strayed
  BY <1>1 DEF Approved, Strayed
<1>3. Entitled' = Entitled
  BY <1>1, SameEntitled
<1>4. LetIn' = LetIn
  BY <1>1 DEF LetIn
<1> QED BY <1>1, <1>2, <1>3, <1>4 DEF Tracked, A!In, S!vars

\* One step of the composed system: Tracked is kept, and the step is one of
\* ServerAccess or is not seen there.
LEMMA StepImplements ==
  ASSUME AgreeInv, AgreeInv', Tracked, [ACNext]_avars
  PROVE  Tracked' /\ [S!Next]_(S!vars)
<1>1. IInv /\ IInv'
  BY DEF AgreeInv
<1>2. CASE Work
  BY <1>1, <1>2, WorkTracked, WorkImplements DEF S!Next
<1>3. CASE Synchronise
  BY <1>1, <1>3, SyncTracked, SynchroniseImplements DEF S!Next
<1>4. CASE UNCHANGED avars
  BY <1>4, StutterImplements
<1> QED BY <1>2, <1>3, <1>4 DEF ACNext

\* The workflow and the agent implement ServerAccess, as far as safety goes and
\* whatever calls overlap or crash: an account is opened only for a user who had a
\* request for the server approved, closed only for one who was not entitled or
\* whose permission had gone astray at some time since, and nothing but a step of
\* the agent opens or closes one, though the permission, the answer, the state
\* file and the account are each written from what was read earlier.
THEOREM ServerAccessImplemented == ACSafety => S!Safety
<1>1. ACInit => Tracked /\ S!Init
  BY TrackedInit, ACInitImplements
<1>2. AgreeInv /\ AgreeInv' /\ Tracked /\ [ACNext]_avars => Tracked' /\ [S!Next]_(S!vars)
  BY StepImplements
<1>3. ACSafety => []AgreeInv
  BY AgreeInvariance, ACImplementsServer, PTL
<1> QED BY <1>1, <1>2, <1>3, PTL DEF ACSafety, S!Safety

-----------------------------------------------------------------------------
(***************************************************************************)
(* The server and the agent together, whatever overlaps or crashes.        *)
(***************************************************************************)

\* What the agent holds, and the accounts it has opened, are of approved users.
Known ==
    /\ acct \in [A!Accounts -> {"absent", "enabled", "disabled"}]
    /\ stateFile \in A!AccountMap /\ desired \in A!AccountMap
    /\ toEnsure \subseteq A!In(desired)
    /\ A!In(desired) \subseteq Approved
    /\ LetIn \subseteq Approved

LEMMA KnownInit == ACInit => Known
<1> SUFFICES ASSUME ACInit PROVE Known
  OBVIOUS
<1>1. A!NoAccounts \in A!AccountMap /\ A!In(A!NoAccounts) = {}
  BY DEF A!NoAccounts, A!AccountMap, A!In
<1>2. LetIn = {}
  BY DEF ACInit, LetIn, A!Accounts
<1> QED BY <1>1, <1>2 DEF ACInit, Known

\* A step that changes none of the agent's maps but lets nobody in anew.
LEMMA KnownLater ==
  ASSUME Known, Approved \subseteq Approved', acct' = acct, stateFile' = stateFile,
         desired' = desired, toEnsure' \subseteq toEnsure
  PROVE  Known'
BY DEF Known, LetIn, A!In

LEMMA SyncKnown ==
  ASSUME IInv, Known, Synchronise
  PROVE  Known'
<1>1. Approved' = Approved
  BY DEF Synchronise, vars, table, Approved
<1>2. CASE A!Fetch
  <2>1. /\ desired' = A!Answer /\ toEnsure' = A!In(A!Answer)
        /\ acct' = acct /\ stateFile' = stateFile
    BY <1>2 DEF A!Fetch, A!host
  <2>2. A!Answer \in A!AccountMap /\ A!In(A!Answer) = ResolveAccessUsers
    BY AgentAssumption DEF A!Answer, A!AccountMap, A!In, ResolveAccessUsers
  <2>3. ResolveAccessUsers \subseteq Approved
    BY DEF ResolveAccessUsers, IInv, GrantsNeedApproval, Approved
  <2>4. LetIn' = LetIn
    BY <2>1 DEF LetIn
  <2>5. A!In(desired') = A!In(A!Answer) /\ A!In(desired)' = A!In(desired')
    BY <2>1 DEF A!In
  <2> QED BY <1>1, <2>1, <2>2, <2>3, <2>4, <2>5 DEF Known
<1>3. CASE A!FetchCorrupt
  <2>1. A!NoAccounts \in A!AccountMap /\ A!In(A!NoAccounts) = {}
    BY DEF A!NoAccounts, A!AccountMap, A!In
  <2>2. desired' = A!NoAccounts /\ toEnsure' = {} /\ acct' = acct /\ stateFile' = stateFile
    BY <1>3 DEF A!FetchCorrupt, A!host
  <2>3. LetIn' = LetIn
    BY <2>2 DEF LetIn
  <2>4. A!In(desired)' = {}
    BY <2>1, <2>2 DEF A!In
  <2> QED BY <1>1, <2>1, <2>2, <2>3, <2>4 DEF Known
<1>4. ASSUME NEW u \in Users, A!Revoke(u) PROVE Known'
  <2> DEFINE k == <<u, stateFile[u]>>
  <2>1. /\ acct' = [acct EXCEPT ![k] = A!Revoked(acct[k])]
        /\ UNCHANGED <<stateFile, desired, toEnsure>>
    BY <1>4 DEF A!Revoke, A!SetAccount
  <2>2. acct' \in [A!Accounts -> {"absent", "enabled", "disabled"}]
    BY <2>1 DEF Known, A!Revoked
  <2>3. LetIn' \subseteq LetIn
    <3> SUFFICES ASSUME NEW w \in LetIn' PROVE acct[<<w, Version>>] = "enabled"
      BY DEF LetIn
    <3>1. <<w, Version>> \in A!Accounts /\ acct'[<<w, Version>>] = "enabled"
      BY DEF LetIn, A!Accounts
    <3>2. CASE k = <<w, Version>>
      BY <2>1, <3>1, <3>2 DEF Known, A!Revoked
    <3>3. CASE k # <<w, Version>>
      BY <2>1, <3>1, <3>3 DEF Known
    <3> QED BY <3>2, <3>3
  <2> QED BY <1>1, <2>1, <2>2, <2>3 DEF Known, A!In
<1>5. ASSUME NEW u \in Users, A!Ensure(u) PROVE Known'
  <2>1. /\ u \in toEnsure /\ toEnsure' \subseteq toEnsure
        /\ acct' = [acct EXCEPT ![<<u, desired[u]>>] = "enabled"]
        /\ UNCHANGED <<stateFile, desired>>
    BY <1>5 DEF A!Ensure, A!SetAccount
  <2>2. u \in Approved /\ desired[u] = Version
    BY <2>1 DEF Known, A!In, A!AccountMap
  <2>3. acct' \in [A!Accounts -> {"absent", "enabled", "disabled"}]
    BY <2>1 DEF Known
  <2>4. LetIn' \subseteq LetIn \cup {u}
    BY <2>1, <2>2 DEF Known, LetIn, A!Accounts
  <2> QED BY <1>1, <2>1, <2>2, <2>3, <2>4 DEF Known, A!In
<1>6. CASE A!Save
  <2>1. stateFile' = desired /\ UNCHANGED <<acct, desired, toEnsure>>
    BY <1>6 DEF A!Save, A!memory
  <2>2. LetIn' = LetIn
    BY <2>1 DEF LetIn
  <2> QED BY <1>1, <2>1, <2>2 DEF Known, A!In
<1>7. CASE A!RevokeDone \/ A!EnsureDone \/ A!Report
  BY <1>1, <1>7, KnownLater DEF A!RevokeDone, A!EnsureDone, A!Report, A!host, A!memory
<1>8. ~A!Fail
  BY DEF A!Fail
<1> QED
  BY <1>2, <1>3, <1>4, <1>5, <1>6, <1>7, <1>8
     DEF Synchronise, A!Sync, A!SaveFails, A!ReportFails, A!RevokeFails, A!EnsureFails

\* However the calls overlap, whichever process is killed and whatever rows are
\* deleted, an account that lets its user in is of a user who had a request for
\* that server approved.
THEOREM NoAccountWithoutApproval == ACSafety => [](LetIn \subseteq Approved)
<1>1. IInv /\ Known /\ [ACNext]_avars => Known'
  <2> SUFFICES ASSUME IInv, Known, [ACNext]_avars PROVE Known'
    OBVIOUS
  <2>1. CASE Work
    <3>1. Approved \subseteq Approved'
      BY <2>1, HistoryGrows DEF Work, Approved
    <3> QED BY <2>1, <3>1, KnownLater DEF Work, agent
  <2>2. CASE Synchronise
    BY <2>2, SyncKnown
  <2>3. CASE UNCHANGED avars
    <3>1. Approved' = Approved
      BY <2>3 DEF avars, vars, table, Approved
    <3> QED BY <2>3, <3>1, KnownLater DEF avars, agent
  <2> QED BY <2>1, <2>2, <2>3 DEF ACNext
<1>2. Known => LetIn \subseteq Approved
  BY DEF Known
<1> QED BY <1>1, <1>2, KnownInit, ACImplementsServer, Invariance, PTL DEF ACSafety

-----------------------------------------------------------------------------
\* Who is let in, phase by phase of a cycle: from those in the state file to those
\* in the answer.
Following ==
    /\ acct \in [A!Accounts -> {"absent", "enabled", "disabled"}]
    /\ stateFile \in A!AccountMap /\ desired \in A!AccountMap
    /\ ~corrupt
    /\ toEnsure \subseteq A!In(desired)
    /\ toRevoke \subseteq A!In(stateFile) \ A!In(desired)
    /\ pc \in {"idle", "report"} => LetIn = A!In(stateFile)
    /\ pc = "revoke" =>
          /\ toEnsure = A!In(desired)
          /\ LetIn = (A!In(stateFile) \cap A!In(desired)) \cup toRevoke
    /\ pc = "ensure" =>
          /\ LetIn \subseteq A!In(desired)
          /\ A!In(desired) \ toEnsure \subseteq LetIn
    /\ pc = "save" => LetIn = A!In(desired)
    /\ pc # "revoke" => toRevoke = {}

LEMMA FollowingInit == ACInit => Following
<1> SUFFICES ASSUME ACInit PROVE Following
  OBVIOUS
<1>1. A!NoAccounts \in A!AccountMap /\ A!In(A!NoAccounts) = {}
  BY DEF A!NoAccounts, A!AccountMap, A!In
<1>2. LetIn = {}
  BY DEF ACInit, LetIn, A!Accounts
<1> QED BY <1>1, <1>2 DEF ACInit, Following

\* What a step leaves alone in the maps of the agent.
LEMMA SameMaps ==
  /\ acct' = acct => LetIn' = LetIn
  /\ stateFile' = stateFile => A!In(stateFile)' = A!In(stateFile)
  /\ desired' = desired => A!In(desired)' = A!In(desired)
BY DEF LetIn, A!In

LEMMA SyncFollows ==
  ASSUME LockOnRevoke, Following, A!Sync
  PROVE  Following'
<1>1. CASE A!Fetch
  <2>1. /\ desired' = A!Answer /\ toEnsure' = A!In(A!Answer) /\ pc = "idle" /\ pc' = "revoke"
        /\ toRevoke' = A!In(stateFile) \ A!In(A!Answer)
        /\ acct' = acct /\ stateFile' = stateFile /\ corrupt' = corrupt
    BY <1>1 DEF A!Fetch, A!host
  <2>2. A!Answer \in A!AccountMap
    BY DEF A!Answer, A!AccountMap
  <2>3. A!In(desired)' = A!In(A!Answer)
    BY <2>1 DEF A!In
  <2> QED BY <2>1, <2>2, <2>3, SameMaps DEF Following
<1>2. ~A!FetchCorrupt
  BY DEF A!FetchCorrupt, Following
<1>3. ASSUME NEW u \in Users, A!Revoke(u) PROVE Following'
  <2>1. /\ pc = "revoke" /\ u \in toRevoke /\ toRevoke' = toRevoke \ {u}
        /\ acct' = [acct EXCEPT ![<<u, stateFile[u]>>] = A!Revoked(acct[<<u, stateFile[u]>>])]
        /\ UNCHANGED <<stateFile, corrupt, pc, desired, toEnsure>>
    BY <1>3 DEF A!Revoke, A!SetAccount
  <2>2. stateFile[u] = Version /\ u \in LetIn
    BY <2>1 DEF Following, A!AccountMap, A!In
  <2>3. acct' = [acct EXCEPT ![<<u, Version>>] = "disabled"]
    BY <2>1, <2>2 DEF A!Revoked, LetIn
  <2>4. LetIn' = LetIn \ {u}
    BY <2>3 DEF LetIn, Following, A!Accounts
  <2>5. acct' \in [A!Accounts -> {"absent", "enabled", "disabled"}]
    BY <2>3 DEF Following
  <2> QED BY <2>1, <2>4, <2>5, SameMaps DEF Following
<1>4. CASE A!RevokeDone
  BY <1>4, SameMaps DEF A!RevokeDone, A!host, A!memory, Following
<1>5. ASSUME NEW u \in Users, A!Ensure(u) PROVE Following'
  <2>1. /\ pc = "ensure" /\ u \in toEnsure /\ toEnsure' = toEnsure \ {u}
        /\ acct' = [acct EXCEPT ![<<u, desired[u]>>] = "enabled"]
        /\ UNCHANGED <<stateFile, corrupt, pc, desired, toRevoke>>
    BY <1>5 DEF A!Ensure, A!SetAccount
  <2>2. desired[u] = Version /\ u \in A!In(desired)
    BY <2>1 DEF Following, A!AccountMap, A!In
  <2>3. LetIn' = LetIn \cup {u}
    BY <2>1, <2>2 DEF LetIn, Following, A!Accounts
  <2>4. acct' \in [A!Accounts -> {"absent", "enabled", "disabled"}]
    BY <2>1 DEF Following
  <2> QED BY <2>1, <2>2, <2>3, <2>4, SameMaps DEF Following
<1>6. CASE A!EnsureDone
  BY <1>6, SameMaps DEF A!EnsureDone, A!host, A!memory, Following
<1>7. CASE A!Save
  <2>1. /\ stateFile' = desired /\ pc = "save" /\ pc' = "report"
        /\ UNCHANGED <<acct, corrupt, desired, toEnsure, toRevoke>>
    BY <1>7 DEF A!Save, A!memory
  <2>2. A!In(stateFile)' = A!In(desired)
    BY <2>1 DEF A!In
  <2> QED BY <2>1, <2>2, SameMaps DEF Following
<1>8. CASE A!Report
  BY <1>8, SameMaps DEF A!Report, A!host, A!memory, Following
<1>9. ~A!Fail
  BY DEF A!Fail
<1> QED
  BY <1>1, <1>2, <1>3, <1>4, <1>5, <1>6, <1>7, <1>8, <1>9
     DEF A!Sync, A!SaveFails, A!ReportFails, A!RevokeFails, A!EnsureFails

\* An agent that locks on revoke and is not disturbed lets in, between cycles, the
\* users of its state file, however the server changes its mind during the cycles.
THEOREM AccountsMatchStateFile ==
  ASSUME LockOnRevoke
  PROVE  ACSafety => [](pc = "idle" => LetIn = A!In(stateFile))
<1>1. Following /\ [ACNext]_avars => Following'
  <2>1. ASSUME Following, UNCHANGED agent PROVE Following'
    BY <2>1, SameMaps DEF agent, Following
  <2> QED BY <2>1, SyncFollows DEF ACNext, Work, Synchronise, avars
<1>2. Following => (pc = "idle" => LetIn = A!In(stateFile))
  BY DEF Following
<1> QED BY <1>1, <1>2, FollowingInit, PTL DEF ACSafety
====
