--------------------------- MODULE HostTrust_proofs ---------------------------
(***************************************************************************)
(* Proofs about HostTrust, and so about the server of KeyCertificates, for *)
(* every set of keys, hosts and workers, every division of the handlers    *)
(* among the workers, and every bound.                                     *)
(***************************************************************************)
EXTENDS HostTrust, TLAPS

USE NothingAssumption, ServesAssumption, LimitsAssumption

\* A call past the selection has an authority, and a call that loads, signs or
\* saves has a key.
WellFormed(c) ==
    /\ c.pc \in {"keep", "sign", "commit"} => c.ca # 0
    /\ c.pc \in {"sign", "commit", "read", "revoke", "save"} => c.key \in Keys
    /\ c.pc \in {"select", "keep"} /\ c.op # "ssh_ca" => c.key \in Keys
    /\ c.op = "create" => c.pc \in {"select", "commit"}
    /\ c.op = "ssh_ca" => c.pc \in {"select", "keep"}

CallsWellFormed == \A w \in Workers : WellFormed(call[w])

\* An authority is in the database when a call is about to sign with it.
SavedBeforeUse == \A w \in Workers : call[w].pc = "sign" => cas[call[w].ca] # "none"

Bounded == TypeOK /\ CallsWellFormed

RecordedInv == Bounded /\ SavedBeforeUse /\ AuthoritiesRecorded

\* The calls that handlers begin with.
LEMMA NewCallTyped ==
  /\ Idle \in Call /\ WellFormed(Idle) /\ Idle.pc = "idle"
  /\ NewCall("none", "idle", Nothing, Nothing, "off") \in Call
  /\ WellFormed(NewCall("none", "idle", Nothing, Nothing, "off"))
  /\ \A k \in Keys, op \in {"create", "profile"} :
        LET c == NewCall(op, "select", k, Nothing, "off") IN
        c \in Call /\ WellFormed(c) /\ c.pc = "select"
  /\ \A h \in Hosts :
        LET c == NewCall("ssh_ca", "select", Nothing, h, "off") IN
        c \in Call /\ WellFormed(c) /\ c.pc = "select"
<1>1. 0 \in 0 .. MaxCAs
  OBVIOUS
<1> QED BY <1>1 DEF NewCall, Idle, Call, Ops, KeyOps, WellFormed

LEMMA LoadedCallTyped ==
  ASSUME NEW k \in Keys, NEW op \in KeyOps, NEW row \in {"on", "off"}
  PROVE  LET c == NewCall(op, AfterLoad(op), k, Nothing, row) IN
         c \in Call /\ WellFormed(c) /\ c.pc # "sign"
<1>1. AfterLoad(op) \in {"save", "select", "revoke", "read"}
  BY DEF AfterLoad, KeyOps
<1>2. 0 \in 0 .. MaxCAs
  OBVIOUS
<1> QED BY <1>1, <1>2 DEF NewCall, Call, Ops, KeyOps, WellFormed

\* What a statement of a call may rely on.
LEMMA CallShape ==
  ASSUME Bounded, NEW w \in Workers
  PROVE  /\ call[w] \in Call
         /\ call[w].row \in {"on", "off"}
         /\ call[w].pc \in {"keep", "sign", "commit"} => call[w].ca \in CAs
         /\ call[w].pc \in {"sign", "commit", "read", "revoke", "save"} => call[w].key \in Keys
         /\ call[w].pc \in {"select", "keep"} /\ call[w].op # "ssh_ca" => call[w].key \in Keys
         /\ call[w].pc \in {"keep", "sign", "read", "revoke", "save"} => call[w].op # "create"
         /\ call[w].pc \in {"sign", "read", "revoke", "save"} => call[w].op # "ssh_ca"
<1>1. call[w] \in Call /\ WellFormed(call[w])
  BY DEF Bounded, TypeOK, KeyTypeOK, CallsWellFormed
<1>2. call[w].ca \in 0 .. MaxCAs /\ call[w].row \in {"on", "off"}
  BY <1>1 DEF Call
<1>3. call[w].pc \in {"keep", "sign", "commit"} => call[w].ca \in CAs
  BY <1>1, <1>2 DEF WellFormed, CAs
<1> QED BY <1>1, <1>2, <1>3 DEF WellFormed

\* A call that is not creating a key, or asking for the authority, goes on to pc.
LEMMA GoesOn ==
  ASSUME Bounded, NEW w \in Workers, NEW pc \in {"sign", "save", "select", "revoke"},
         call[w].key \in Keys, call[w].op \notin {"create", "ssh_ca"},
         pc = "sign" => call[w].ca \in CAs
  PROVE  /\ [call[w] EXCEPT !.pc = pc] \in Call
         /\ WellFormed([call[w] EXCEPT !.pc = pc])
<1> DEFINE n == [call[w] EXCEPT !.pc = pc]
<1>1. call[w] \in Call
  BY CallShape
<1>2. n \in Call /\ n.pc = pc /\ n.op = call[w].op /\ n.ca = call[w].ca /\ n.key = call[w].key
  BY <1>1 DEF Call
<1>3. pc = "sign" => n.ca # 0
  BY <1>2 DEF CAs
<1> QED BY <1>2, <1>3 DEF WellFormed

\* A call loses its agent.
LEMMA HungUp ==
  ASSUME Bounded, NEW w \in Workers
  PROVE  /\ [call[w] EXCEPT !.host = Nothing] \in Call
         /\ WellFormed([call[w] EXCEPT !.host = Nothing])
         /\ [call[w] EXCEPT !.host = Nothing].pc = call[w].pc
         /\ [call[w] EXCEPT !.host = Nothing].ca = call[w].ca
<1> DEFINE n == [call[w] EXCEPT !.host = Nothing]
<1>1. call[w] \in Call /\ WellFormed(call[w])
  BY DEF Bounded, TypeOK, KeyTypeOK, CallsWellFormed
<1>2. /\ n \in Call
      /\ n.pc = call[w].pc /\ n.op = call[w].op /\ n.ca = call[w].ca /\ n.key = call[w].key
  BY <1>1 DEF Call
<1> QED BY <1>1, <1>2 DEF WellFormed

\* A call has selected an authority.
LEMMA Selected ==
  ASSUME Bounded, NEW w \in Workers, call[w].pc = "select", NEW ca \in CAs
  PROVE  /\ [call[w] EXCEPT !.pc = AfterSelect(call[w].op), !.ca = ca] \in Call
         /\ WellFormed([call[w] EXCEPT !.pc = AfterSelect(call[w].op), !.ca = ca])
         /\ [call[w] EXCEPT !.pc = AfterSelect(call[w].op), !.ca = ca].pc # "sign"
<1> DEFINE n == [call[w] EXCEPT !.pc = AfterSelect(call[w].op), !.ca = ca]
<1>1. call[w] \in Call /\ WellFormed(call[w])
  BY DEF Bounded, TypeOK, KeyTypeOK, CallsWellFormed
<1>2. AfterSelect(call[w].op) \in {"commit", "keep"}
  BY DEF AfterSelect
<1>3. ca \in 0 .. MaxCAs /\ ca # 0
  BY DEF CAs
<1>4. /\ n \in Call
      /\ n.pc = AfterSelect(call[w].op) /\ n.op = call[w].op
      /\ n.ca = ca /\ n.key = call[w].key
  BY <1>1, <1>2, <1>3 DEF Call
<1>5. WellFormed(n)
  BY <1>1, <1>2, <1>3, <1>4 DEF WellFormed, AfterSelect
<1> QED BY <1>2, <1>4, <1>5

LEMMA CertificateRevoked ==
  ASSUME Bounded, NEW k \in Keys, cert' = [cert EXCEPT ![k] = [cert[k] EXCEPT !.on = FALSE]]
  PROVE  cert' \in [Keys -> Certificate] /\ \A j \in Keys : cert'[j].on => cert'[j].ca # 0
<1> DEFINE new == [cert[k] EXCEPT !.on = FALSE]
<1>1. cert \in [Keys -> Certificate] /\ \A j \in Keys : cert[j].on => cert[j].ca # 0
  BY DEF Bounded, TypeOK, KeyTypeOK
<1>2. new \in Certificate /\ new.on = FALSE
  BY <1>1 DEF Certificate
<1>3. cert' \in [Keys -> Certificate]
  BY <1>1, <1>2
<1>4. ASSUME NEW j \in Keys, cert'[j].on PROVE cert'[j].ca # 0
  <2>1. j # k
    BY <1>1, <1>2, <1>4
  <2>2. cert'[j] = cert[j]
    BY <1>1, <2>1
  <2> QED BY <1>1, <1>4, <2>2
<1> QED BY <1>3, <1>4

LEMMA CertificateLapsed ==
  ASSUME Bounded, NEW k \in Keys, Lapse(k)
  PROVE  cert' \in [Keys -> Certificate] /\ \A j \in Keys : cert'[j].on => cert'[j].ca # 0
<1> DEFINE new == [cert[k] EXCEPT !.lapsed = TRUE]
<1>1. cert \in [Keys -> Certificate] /\ \A j \in Keys : cert[j].on => cert[j].ca # 0
  BY DEF Bounded, TypeOK, KeyTypeOK
<1>2. cert' = [cert EXCEPT ![k] = new] /\ cert[k].ca # 0
  BY DEF Lapse
<1>3. new \in Certificate /\ new.ca = cert[k].ca
  BY <1>1 DEF Certificate
<1>4. cert' \in [Keys -> Certificate]
  BY <1>1, <1>2, <1>3
<1>5. ASSUME NEW j \in Keys, cert'[j].on PROVE cert'[j].ca # 0
  <2>1. CASE j = k
    BY <1>1, <1>2, <1>3, <2>1
  <2>2. CASE j # k
    <3>1. cert'[j] = cert[j]
      BY <1>1, <1>2, <2>2
    <3> QED BY <1>1, <1>5, <3>1
  <2> QED BY <2>1, <2>2
<1> QED BY <1>4, <1>5

\* Authorities that are saved stay so, for the calls of all workers but one.
LEMMA SavedKept ==
  ASSUME Bounded, SavedBeforeUse, NEW w \in Workers,
         \A c \in CAs : cas[c] # "none" => cas'[c] # "none",
         \A v \in Workers \ {w} : call'[v] = call[v],
         call'[w].pc = "sign" => cas'[call'[w].ca] # "none"
  PROVE  SavedBeforeUse'
<1>1. ASSUME NEW v \in Workers, v # w, call'[v].pc = "sign"
      PROVE  cas'[call'[v].ca] # "none"
  <2>1. call'[v] = call[v]
    BY <1>1
  <2>2. call[v].ca \in CAs
    BY <1>1, <2>1, CallShape
  <2> QED BY <1>1, <2>1, <2>2 DEF SavedBeforeUse
<1> QED BY <1>1 DEF SavedBeforeUse

LEMMA SavedKeptElsewhere ==
  ASSUME Bounded, SavedBeforeUse, call' = call,
         \A c \in CAs : cas[c] # "none" => cas'[c] # "none"
  PROVE  SavedBeforeUse'
<1>1. ASSUME NEW v \in Workers, call[v].pc = "sign" PROVE cas'[call[v].ca] # "none"
  <2>1. call[v].ca \in CAs
    BY <1>1, CallShape
  <2> QED BY <1>1, <2>1 DEF SavedBeforeUse
<1> QED BY <1>1 DEF SavedBeforeUse

\* A step that gives one worker another call.
LEMMA CallReplaced ==
  ASSUME Bounded, NEW w \in Workers, NEW new \in Call, WellFormed(new),
         call' = [call EXCEPT ![w] = new]
  PROVE  call' \in [Workers -> Call] /\ CallsWellFormed'
  BY DEF Bounded, TypeOK, KeyTypeOK, CallsWellFormed

LEMMA InitRecorded == Init => RecordedInv
<1> SUFFICES ASSUME Init PROVE RecordedInv
  OBVIOUS
<1>1. TypeOK
  BY NewCallTyped DEF Init, KeyInit, NoCertificate, TypeOK, KeyTypeOK, CAs, Certificate
<1>2. CallsWellFormed
  BY NewCallTyped DEF Init, KeyInit, CallsWellFormed
<1>3. SavedBeforeUse
  BY NewCallTyped DEF Init, KeyInit, SavedBeforeUse
<1>4. AuthoritiesRecorded
  BY DEF Init, KeyInit, AuthoritiesRecorded, NoCertificate
<1> QED BY <1>1, <1>2, <1>3, <1>4 DEF RecordedInv, Bounded

\* Every step keeps the types and the shape of the calls.
LEMMA NextTyped ==
  ASSUME Bounded, Next
  PROVE  Bounded'
<1>1. ASSUME NEW w \in Workers, NEW k \in Keys, Create(w, k), UNCHANGED host
      PROVE  Bounded'
  <2> DEFINE new == NewCall("create", "select", k, Nothing, "off")
  <2>1. new \in Call /\ WellFormed(new)
    BY NewCallTyped
  <2>2. call' = [call EXCEPT ![w] = new]
    BY <1>1 DEF Create, Begin
  <2>3. call' \in [Workers -> Call] /\ CallsWellFormed'
    BY <2>1, <2>2, CallReplaced
  <2> QED
    BY <1>1, <2>3 DEF Create, Bounded, TypeOK, KeyTypeOK, CAs, rows,
           authorities, outside, keyVars, server, host, Certificate
<1>2. ASSUME NEW w \in Workers, NEW k \in Keys, ProfileCreate(w, k), UNCHANGED host
      PROVE  Bounded'
  <2> DEFINE new == NewCall("profile", "select", k, Nothing, "off")
  <2>1. new \in Call /\ WellFormed(new)
    BY NewCallTyped
  <2>2. call' = [call EXCEPT ![w] = new]
    BY <1>2 DEF ProfileCreate, Begin
  <2>3. call' \in [Workers -> Call] /\ CallsWellFormed'
    BY <2>1, <2>2, CallReplaced
  <2> QED
    BY <1>2, <2>3 DEF ProfileCreate, Bounded, TypeOK, KeyTypeOK, CAs, rows,
           authorities, outside, keyVars, server, host, Certificate
<1>3. ASSUME NEW w \in Workers, NEW k \in Keys, NEW op \in KeyOps, Load(w, k, op), UNCHANGED host
      PROVE  Bounded'
  <2>1. PICK row \in {"on", "off"} :
          call' = [call EXCEPT ![w] = NewCall(op, AfterLoad(op), k, Nothing, row)]
    BY <1>3 DEF Load, NewRow, Begin
  <2> DEFINE new == NewCall(op, AfterLoad(op), k, Nothing, row)
  <2>2. new \in Call /\ WellFormed(new)
    BY LoadedCallTyped
  <2>3. call' \in [Workers -> Call] /\ CallsWellFormed'
    BY <2>1, <2>2, CallReplaced
  <2> QED
    BY <1>3, <2>3 DEF Load, Bounded, TypeOK, KeyTypeOK, CAs, rows,
           authorities, outside, keyVars, server, host, Certificate
<1>4. ASSUME NEW w \in Workers, NEW h \in Hosts, Ask(w, h), UNCHANGED host
      PROVE  Bounded'
  <2> DEFINE new == NewCall("ssh_ca", "select", Nothing, h, "off")
  <2>1. new \in Call /\ WellFormed(new)
    BY NewCallTyped
  <2>2. call' = [call EXCEPT ![w] = new]
    BY <1>4 DEF Ask, Begin
  <2>3. call' \in [Workers -> Call] /\ CallsWellFormed'
    BY <2>1, <2>2, CallReplaced
  <2> QED
    BY <1>4, <2>3 DEF Ask, Bounded, TypeOK, KeyTypeOK, CAs, rows,
           authorities, outside, keyVars, server, host, Certificate
<1>5. ASSUME NEW w \in Workers, SelectCA(w), UNCHANGED host
      PROVE  Bounded'
  <2>1. PICK ca \in CAs :
          call' = [call EXCEPT ![w] = [call[w] EXCEPT !.pc = AfterSelect(call[w].op), !.ca = ca]]
    BY <1>5 DEF SelectCA
  <2> DEFINE new == [call[w] EXCEPT !.pc = AfterSelect(call[w].op), !.ca = ca]
  <2>2. new \in Call /\ WellFormed(new)
    BY <1>5, Selected DEF SelectCA
  <2>3. call' \in [Workers -> Call] /\ CallsWellFormed'
    BY <2>1, <2>2, CallReplaced
  <2> QED
    BY <1>5, <2>3 DEF SelectCA, IsNewest, ActiveCAs, Bounded, TypeOK,
           KeyTypeOK, CAs, rows, authorities, outside, keyVars, server,
           host, Certificate
<1>6. ASSUME NEW w \in Workers, KeepCA(w), UNCHANGED host
      PROVE  Bounded'
  <2> DEFINE new == [call[w] EXCEPT !.pc = "sign"]
  <2>1. \/ call' = [call EXCEPT ![w] = Idle]
        \/ call' = [call EXCEPT ![w] = new] /\ call[w].op # "ssh_ca"
    BY <1>6 DEF KeepCA, Goto, Finish
  <2>2. ASSUME call' = [call EXCEPT ![w] = Idle]
        PROVE  call' \in [Workers -> Call] /\ CallsWellFormed'
    BY <2>2, NewCallTyped, CallReplaced DEF Idle
  <2>3. ASSUME call' = [call EXCEPT ![w] = new] /\ call[w].op # "ssh_ca"
        PROVE  call' \in [Workers -> Call] /\ CallsWellFormed'
    <3>1. /\ call[w].key \in Keys /\ call[w].op \notin {"create", "ssh_ca"}
          /\ call[w].pc = "keep" => call[w].ca \in CAs
      BY <1>6, <2>3, CallShape DEF KeepCA
    <3>2. new \in Call /\ WellFormed(new)
      BY <1>6, <3>1, GoesOn DEF KeepCA
    <3> QED BY <2>3, <3>2, CallReplaced
  <2>4. call' \in [Workers -> Call] /\ CallsWellFormed'
    BY <2>1, <2>2, <2>3
  <2>5. call[w].ca \in CAs
    BY <1>6, CallShape DEF KeepCA
  <2>6. told' \in [Hosts -> 0 .. MaxCAs] /\ cas' \in [CAs -> {"none", "on", "off"}]
    <3>1. call[w].ca \in 0 .. MaxCAs
      BY CallShape DEF Call
    <3>2. \/ told' = [x \in Hosts |-> IF x = call[w].host THEN call[w].ca ELSE told[x]]
          \/ UNCHANGED told
      BY <1>6 DEF KeepCA
    <3>3. told' \in [Hosts -> 0 .. MaxCAs]
      BY <3>1, <3>2 DEF Bounded, TypeOK, KeyTypeOK
    <3> QED BY <1>6, <3>3, <2>5 DEF KeepCA, Bounded, TypeOK, KeyTypeOK
  <2>7. UNCHANGED <<rows, born, held, edits, faults>>
    BY <1>6 DEF KeepCA
  <2> QED
    BY <1>6, <2>4, <2>6, <2>7 DEF Bounded, TypeOK, KeyTypeOK, CAs, rows,
           authorities, outside, keyVars, server, host, Certificate
<1>7. ASSUME NEW w \in Workers, Sign(w), UNCHANGED host
      PROVE  Bounded'
  <2> DEFINE new == [call[w] EXCEPT !.pc = "save"]
  <2>1. \/ call' = [call EXCEPT ![w] = Idle]
        \/ call' = [call EXCEPT ![w] = new]
    BY <1>7 DEF Sign, Goto, Finish
  <2>2. ASSUME call' = [call EXCEPT ![w] = Idle]
        PROVE  call' \in [Workers -> Call] /\ CallsWellFormed'
    BY <2>2, NewCallTyped, CallReplaced DEF Idle
  <2>3. ASSUME call' = [call EXCEPT ![w] = new]
        PROVE  call' \in [Workers -> Call] /\ CallsWellFormed'
    <3>1. /\ call[w].key \in Keys /\ call[w].op \notin {"create", "ssh_ca"}
          /\ call[w].pc = "keep" => call[w].ca \in CAs
      BY <1>7, <2>3, CallShape DEF Sign
    <3>2. new \in Call /\ WellFormed(new)
      BY <1>7, <3>1, GoesOn DEF Sign
    <3> QED BY <2>3, <3>2, CallReplaced
  <2>4. call' \in [Workers -> Call] /\ CallsWellFormed'
    BY <2>1, <2>2, <2>3
  <2>5. call[w].key \in Keys /\ call[w].ca \in CAs
    BY <1>7, CallShape DEF Sign
  <2> QED
    BY <1>7, <2>4, <2>5 DEF Sign, Signed, Bounded, TypeOK, KeyTypeOK, CAs,
           rows, authorities, outside, keyVars, server, host, Certificate
<1>8. ASSUME NEW w \in Workers, Commit(w), UNCHANGED host
      PROVE  Bounded'
  <2>1. call' = [call EXCEPT ![w] = Idle]
    BY <1>8 DEF Commit, Finish
  <2>2. call' \in [Workers -> Call] /\ CallsWellFormed'
    BY <2>1, NewCallTyped, CallReplaced DEF Idle
  <2>3. call[w].key \in Keys /\ call[w].ca \in CAs
    BY <1>8, CallShape DEF Commit
  <2> QED
    BY <1>8, <2>2, <2>3 DEF Commit, Signed, Bounded, TypeOK, KeyTypeOK, CAs,
           rows, authorities, outside, keyVars, server, host, Certificate
<1>9. ASSUME NEW w \in Workers, ReadCert(w), UNCHANGED host
      PROVE  Bounded'
  <2> DEFINE new == [call[w] EXCEPT !.pc = "select"]
  <2>1. \/ call' = [call EXCEPT ![w] = Idle]
        \/ call' = [call EXCEPT ![w] = new]
    BY <1>9 DEF ReadCert, Goto, Finish
  <2>2. ASSUME call' = [call EXCEPT ![w] = Idle]
        PROVE  call' \in [Workers -> Call] /\ CallsWellFormed'
    BY <2>2, NewCallTyped, CallReplaced DEF Idle
  <2>3. ASSUME call' = [call EXCEPT ![w] = new]
        PROVE  call' \in [Workers -> Call] /\ CallsWellFormed'
    <3>1. /\ call[w].key \in Keys /\ call[w].op \notin {"create", "ssh_ca"}
          /\ call[w].pc = "keep" => call[w].ca \in CAs
      BY <1>9, <2>3, CallShape DEF ReadCert
    <3>2. new \in Call /\ WellFormed(new)
      BY <1>9, <3>1, GoesOn DEF ReadCert
    <3> QED BY <2>3, <3>2, CallReplaced
  <2>4. call' \in [Workers -> Call] /\ CallsWellFormed'
    BY <2>1, <2>2, <2>3
  <2>5. call[w].key \in Keys
    BY <1>9, CallShape DEF ReadCert
  <2> QED
    BY <1>9, <2>4, <2>5 DEF ReadCert, Bounded, TypeOK, KeyTypeOK, CAs, rows,
           authorities, outside, keyVars, server, host, Certificate
<1>10. ASSUME NEW w \in Workers, RevokeCert(w), UNCHANGED host
      PROVE  Bounded'
  <2> DEFINE new == [call[w] EXCEPT !.pc = "save"]
  <2>1. \/ call' = [call EXCEPT ![w] = Idle]
        \/ call' = [call EXCEPT ![w] = new]
    BY <1>10 DEF RevokeCert, Goto, Finish
  <2>2. ASSUME call' = [call EXCEPT ![w] = Idle]
        PROVE  call' \in [Workers -> Call] /\ CallsWellFormed'
    BY <2>2, NewCallTyped, CallReplaced DEF Idle
  <2>3. ASSUME call' = [call EXCEPT ![w] = new]
        PROVE  call' \in [Workers -> Call] /\ CallsWellFormed'
    <3>1. /\ call[w].key \in Keys /\ call[w].op \notin {"create", "ssh_ca"}
          /\ call[w].pc = "keep" => call[w].ca \in CAs
      BY <1>10, <2>3, CallShape DEF RevokeCert
    <3>2. new \in Call /\ WellFormed(new)
      BY <1>10, <3>1, GoesOn DEF RevokeCert
    <3> QED BY <2>3, <3>2, CallReplaced
  <2>4. call' \in [Workers -> Call] /\ CallsWellFormed'
    BY <2>1, <2>2, <2>3
  <2>5. call[w].key \in Keys
    BY <1>10, CallShape DEF RevokeCert
  <2>6. cert' \in [Keys -> Certificate] /\ \A j \in Keys : cert'[j].on => cert'[j].ca # 0
    <3> DEFINE row == [cert[call[w].key] EXCEPT !.on = FALSE]
    <3>1. call[w].key \in Keys
      BY <2>5
    <3>2. cert' = [cert EXCEPT ![call[w].key] = row]
      BY <1>10 DEF RevokeCert
    <3> QED
      BY <1>10, <3>1, <3>2, CertificateRevoked DEF Bounded
  <2> QED
    BY <1>10, <2>4, <2>5, <2>6 DEF RevokeCert, Bounded, TypeOK, KeyTypeOK,
           CAs, rows, authorities, outside, keyVars, server, host
<1>11. ASSUME NEW w \in Workers, SaveKey(w), UNCHANGED host
      PROVE  Bounded'
  <2> DEFINE new == [call[w] EXCEPT !.pc = "revoke"]
  <2>1. \/ call' = [call EXCEPT ![w] = Idle]
        \/ call' = [call EXCEPT ![w] = new]
    BY <1>11 DEF SaveKey, Goto, Finish
  <2>2. ASSUME call' = [call EXCEPT ![w] = Idle]
        PROVE  call' \in [Workers -> Call] /\ CallsWellFormed'
    BY <2>2, NewCallTyped, CallReplaced DEF Idle
  <2>3. ASSUME call' = [call EXCEPT ![w] = new]
        PROVE  call' \in [Workers -> Call] /\ CallsWellFormed'
    <3>1. /\ call[w].key \in Keys /\ call[w].op \notin {"create", "ssh_ca"}
          /\ call[w].pc = "keep" => call[w].ca \in CAs
      BY <1>11, <2>3, CallShape DEF SaveKey
    <3>2. new \in Call /\ WellFormed(new)
      BY <1>11, <3>1, GoesOn DEF SaveKey
    <3> QED BY <2>3, <3>2, CallReplaced
  <2>4. call' \in [Workers -> Call] /\ CallsWellFormed'
    BY <2>1, <2>2, <2>3
  <2>5. call[w].key \in Keys /\ call[w].row \in {"on", "off"}
    BY <1>11, CallShape DEF SaveKey
  <2> QED
    BY <1>11, <2>4, <2>5 DEF SaveKey, Bounded, TypeOK, KeyTypeOK, CAs, rows,
           authorities, outside, keyVars, server, host, Certificate
<1>12. ASSUME NEW w \in Workers, Abort(w), UNCHANGED host
      PROVE  Bounded'
  <2>1. call' = [call EXCEPT ![w] = Idle]
    BY <1>12 DEF Abort, Finish
  <2>2. call' \in [Workers -> Call] /\ CallsWellFormed'
    BY <2>1, NewCallTyped, CallReplaced DEF Idle
  <2> QED
    BY <1>12, <2>2 DEF Abort, Fault, Bounded, TypeOK, KeyTypeOK, CAs, rows,
           authorities, outside, keyVars, server, host, Certificate
<1>13. ASSUME NEW w \in Workers, HangUp(w), UNCHANGED host
      PROVE  Bounded'
  <2> DEFINE new == [call[w] EXCEPT !.host = Nothing]
  <2>1. new \in Call /\ WellFormed(new)
    BY HungUp
  <2>2. call' = [call EXCEPT ![w] = new]
    BY <1>13 DEF HangUp
  <2>3. call' \in [Workers -> Call] /\ CallsWellFormed'
    BY <2>1, <2>2, CallReplaced
  <2> QED
    BY <1>13, <2>3 DEF HangUp, Fault, Bounded, TypeOK, KeyTypeOK, CAs, rows,
           authorities, outside, keyVars, server, host, Certificate
<1>14. ASSUME NEW k \in Keys, Erase(k), UNCHANGED host
      PROVE  Bounded'
  <2>1. call' \in [Workers -> Call] /\ CallsWellFormed'
    BY <1>14 DEF Erase, Bounded, TypeOK, KeyTypeOK, CallsWellFormed, rows,
           authorities, outside, keyVars, server, host
  <2>2. cert' \in [Keys -> Certificate] /\ \A j \in Keys : cert'[j].on => cert'[j].ca # 0
    <3> DEFINE row == [cert[k] EXCEPT !.on = FALSE]
    <3>1. k \in Keys
      BY <1>14
    <3>2. cert' = [cert EXCEPT ![k] = row]
      BY <1>14 DEF Erase
    <3> QED
      BY <1>14, <3>1, <3>2, CertificateRevoked DEF Bounded
  <2> QED
    BY <1>14, <2>1, <2>2 DEF Erase, Bounded, TypeOK, KeyTypeOK, CAs, rows,
           authorities, outside, keyVars, server, host
<1>15. ASSUME NEW k \in Keys, Lapse(k), UNCHANGED host
      PROVE  Bounded'
  <2>1. call' \in [Workers -> Call] /\ CallsWellFormed'
    BY <1>15 DEF Lapse, Bounded, TypeOK, KeyTypeOK, CallsWellFormed, rows,
           authorities, outside, keyVars, server, host
  <2>2. cert' \in [Keys -> Certificate] /\ \A j \in Keys : cert'[j].on => cert'[j].ca # 0
    <3> DEFINE row == [cert[k] EXCEPT !.lapsed = TRUE]
    <3>1. k \in Keys
      BY <1>15
    <3>2. cert' = [cert EXCEPT ![k] = row]
      BY <1>15 DEF Lapse
    <3> QED
      BY <1>15, <3>1, <3>2, CertificateLapsed DEF Lapse
  <2>3. held' \in [Keys -> Certificate]
    <3> DEFINE row == [held[k] EXCEPT !.lapsed = held[k].ca # 0]
    <3>1. held[k] \in Certificate
      BY DEF Bounded, TypeOK, KeyTypeOK
    <3>2. row \in Certificate
      <4>1. CASE held[k].ca = 0
        BY <3>1, <4>1 DEF Certificate
      <4>2. CASE held[k].ca # 0
        BY <3>1, <4>2 DEF Certificate
      <4> QED BY <4>1, <4>2
    <3>3. held' = [held EXCEPT ![k] = row]
      BY <1>15 DEF Lapse
    <3> QED
      BY <3>2, <3>3 DEF Bounded, TypeOK, KeyTypeOK
  <2> QED
    BY <1>15, <2>1, <2>2, <2>3 DEF Lapse, Bounded, TypeOK, KeyTypeOK, CAs,
           rows, authorities, outside, keyVars, server, host
<1>16. ASSUME NEW c \in CAs, EditCA(c), UNCHANGED host
      PROVE  Bounded'
  <2>1. call' \in [Workers -> Call] /\ CallsWellFormed'
    BY <1>16 DEF EditCA, Bounded, TypeOK, KeyTypeOK, CallsWellFormed, rows,
           authorities, outside, keyVars, server, host
  <2> QED
    BY <1>16, <2>1 DEF EditCA, Room, ActiveCAs, Bounded, TypeOK, KeyTypeOK,
           CAs, rows, authorities, outside, keyVars, server, host,
           Certificate
<1>17. ASSUME NEW h \in Hosts, WriteKey(h)
      PROVE  Bounded'
  <2>1. call' \in [Workers -> Call] /\ CallsWellFormed'
    BY <1>17 DEF WriteKey, Bounded, TypeOK, KeyTypeOK, CallsWellFormed,
           rows, authorities, outside, keyVars, server, host
  <2> QED
    BY <1>17, <2>1 DEF WriteKey, Bounded, TypeOK, KeyTypeOK, CAs, rows,
           authorities, outside, keyVars, server, host, Certificate
<1>18. ASSUME NEW h \in Hosts, WriteConf(h)
      PROVE  Bounded'
  <2>1. call' \in [Workers -> Call] /\ CallsWellFormed'
    BY <1>18 DEF WriteConf, Bounded, TypeOK, KeyTypeOK, CallsWellFormed,
           rows, authorities, outside, keyVars, server, host
  <2>2. /\ at' \in [Hosts -> {"key", "conf", "reload"}]
        /\ changed' \in [Hosts -> BOOLEAN]
        /\ told' \in [Hosts -> 0 .. MaxCAs]
    <3>1. CASE changed[h] \/ ~conf[h]
      BY <1>18, <3>1 DEF WriteConf, Bounded, TypeOK, KeyTypeOK
    <3>2. CASE ~(changed[h] \/ ~conf[h])
      <4>1. Return(h)
        BY <1>18, <3>2 DEF WriteConf
      <4> QED BY <4>1 DEF Return, Bounded, TypeOK, KeyTypeOK
    <3> QED BY <3>1, <3>2
  <2> QED
    BY <1>18, <2>1, <2>2 DEF WriteConf, Bounded, TypeOK, KeyTypeOK, CAs,
           rows, authorities, outside, keyVars, server, host, Certificate
<1>19. ASSUME NEW h \in Hosts, Reload(h)
      PROVE  Bounded'
  <2>1. call' \in [Workers -> Call] /\ CallsWellFormed'
    BY <1>19 DEF Reload, Bounded, TypeOK, KeyTypeOK, CallsWellFormed, rows,
           authorities, outside, keyVars, server, host
  <2> QED
    BY <1>19, <2>1 DEF Reload, Return, Bounded, TypeOK, KeyTypeOK, CAs,
           rows, authorities, outside, keyVars, server, host, Certificate
<1>20. ASSUME NEW h \in Hosts, EnsureFails(h)
      PROVE  Bounded'
  <2>1. call' \in [Workers -> Call] /\ CallsWellFormed'
    BY <1>20 DEF EnsureFails, Bounded, TypeOK, KeyTypeOK, CallsWellFormed,
           rows, authorities, outside, keyVars, server, host
  <2> QED
    BY <1>20, <2>1 DEF EnsureFails, Fault, Return, Bounded, TypeOK,
           KeyTypeOK, CAs, rows, authorities, outside, keyVars, server,
           host, Certificate
<1>21. ASSUME NEW h \in Hosts, Truncate(h)
      PROVE  Bounded'
  <2>1. call' \in [Workers -> Call] /\ CallsWellFormed'
    BY <1>21 DEF Truncate, Bounded, TypeOK, KeyTypeOK, CallsWellFormed,
           rows, authorities, outside, keyVars, server, host
  <2>2. file' \in [Hosts -> 0 .. MaxCAs] /\ conf' \in [Hosts -> BOOLEAN]
    BY <1>21 DEF Truncate, Bounded, TypeOK, KeyTypeOK
  <2>3. faults' \in 0 .. MaxFaults
    BY <1>21 DEF Truncate, Fault, Bounded, TypeOK, KeyTypeOK
  <2>4. /\ at' \in [Hosts -> {"key", "conf", "reload"}]
        /\ changed' \in [Hosts -> BOOLEAN]
        /\ told' \in [Hosts -> 0 .. MaxCAs]
    BY <1>21 DEF Truncate, Return, Bounded, TypeOK, KeyTypeOK
  <2>5. UNCHANGED <<server, loaded>>
    BY <1>21 DEF Truncate
  <2> QED
    BY <2>1, <2>2, <2>3, <2>4, <2>5 DEF Bounded, TypeOK, KeyTypeOK, CAs,
           rows, authorities, outside, keyVars, server, host, Certificate
<1>22. ASSUME NEW h \in Hosts, Restart(h)
      PROVE  Bounded'
  <2>1. call' \in [Workers -> Call] /\ CallsWellFormed'
    BY <1>22 DEF Restart, Bounded, TypeOK, KeyTypeOK, CallsWellFormed, rows,
           authorities, outside, keyVars, server, host
  <2> QED
    BY <1>22, <2>1 DEF Restart, Bounded, TypeOK, KeyTypeOK, CAs, rows,
           authorities, outside, keyVars, server, host, Certificate
<1> QED
  BY <1>1, <1>2, <1>3, <1>4, <1>5, <1>6, <1>7, <1>8, <1>9, <1>10, <1>11,
         <1>12, <1>13, <1>14, <1>15, <1>16, <1>17, <1>18, <1>19, <1>20,
         <1>21, <1>22 DEF Next, KeyNext, Serve, EnsureCA

\* Every step uses authorities that are saved.
LEMMA NextRecorded ==
  ASSUME RecordedInv, Next
  PROVE  SavedBeforeUse' /\ AuthoritiesRecorded'
<1> USE DEF RecordedInv
<1>1. ASSUME NEW w \in Workers, NEW k \in Keys, Create(w, k), UNCHANGED host
      PROVE  SavedBeforeUse' /\ AuthoritiesRecorded'
  <2>1. /\ \A c \in CAs : cas[c] # "none" => cas'[c] # "none"
        /\ \A v \in Workers \ {w} : call'[v] = call[v]
    BY <1>1 DEF Create, Begin, Goto, Finish, Bounded, TypeOK, KeyTypeOK,
           rows, authorities, outside, keyVars, server, host
  <2>2. call'[w].pc = "sign" => cas'[call'[w].ca] # "none"
    BY <1>1, NewCallTyped DEF Create, Begin, Goto, Finish, Idle,
           AfterSelect, Bounded, TypeOK, KeyTypeOK
  <2>3. SavedBeforeUse'
    BY <2>1, <2>2, SavedKept
  <2>4. AuthoritiesRecorded'
    BY <1>1, <2>1 DEF Create, AuthoritiesRecorded, Bounded, TypeOK,
           KeyTypeOK, Certificate, CAs, rows, authorities, outside, keyVars,
           server, host
  <2> QED BY <2>3, <2>4
<1>2. ASSUME NEW w \in Workers, NEW k \in Keys, ProfileCreate(w, k), UNCHANGED host
      PROVE  SavedBeforeUse' /\ AuthoritiesRecorded'
  <2>1. /\ \A c \in CAs : cas[c] # "none" => cas'[c] # "none"
        /\ \A v \in Workers \ {w} : call'[v] = call[v]
    BY <1>2 DEF ProfileCreate, Begin, Goto, Finish, Bounded, TypeOK,
           KeyTypeOK, rows, authorities, outside, keyVars, server, host
  <2>2. call'[w].pc = "sign" => cas'[call'[w].ca] # "none"
    BY <1>2, NewCallTyped DEF ProfileCreate, Begin, Goto, Finish, Idle,
           AfterSelect, Bounded, TypeOK, KeyTypeOK
  <2>3. SavedBeforeUse'
    BY <2>1, <2>2, SavedKept
  <2>4. AuthoritiesRecorded'
    BY <1>2, <2>1 DEF ProfileCreate, AuthoritiesRecorded, Bounded, TypeOK,
           KeyTypeOK, Certificate, CAs, rows, authorities, outside, keyVars,
           server, host
  <2> QED BY <2>3, <2>4
<1>3. ASSUME NEW w \in Workers, NEW k \in Keys, NEW op \in KeyOps, Load(w, k, op), UNCHANGED host
      PROVE  SavedBeforeUse' /\ AuthoritiesRecorded'
  <2>1. /\ \A c \in CAs : cas[c] # "none" => cas'[c] # "none"
        /\ \A v \in Workers \ {w} : call'[v] = call[v]
    BY <1>3 DEF Load, Begin, Goto, Finish, Bounded, TypeOK, KeyTypeOK, rows,
           authorities, outside, keyVars, server, host
  <2>2. call'[w].pc = "sign" => cas'[call'[w].ca] # "none"
    <3>1. PICK row \in {"on", "off"} :
            call' = [call EXCEPT ![w] = NewCall(op, AfterLoad(op), k, Nothing, row)]
      BY <1>3 DEF Load, NewRow, Begin
    <3> QED
      BY <3>1, LoadedCallTyped DEF Bounded, TypeOK, KeyTypeOK
  <2>3. SavedBeforeUse'
    BY <2>1, <2>2, SavedKept
  <2>4. AuthoritiesRecorded'
    BY <1>3, <2>1 DEF Load, AuthoritiesRecorded, Bounded, TypeOK, KeyTypeOK,
           Certificate, CAs, rows, authorities, outside, keyVars, server,
           host
  <2> QED BY <2>3, <2>4
<1>4. ASSUME NEW w \in Workers, NEW h \in Hosts, Ask(w, h), UNCHANGED host
      PROVE  SavedBeforeUse' /\ AuthoritiesRecorded'
  <2>1. /\ \A c \in CAs : cas[c] # "none" => cas'[c] # "none"
        /\ \A v \in Workers \ {w} : call'[v] = call[v]
    BY <1>4 DEF Ask, Begin, Goto, Finish, Bounded, TypeOK, KeyTypeOK, rows,
           authorities, outside, keyVars, server, host
  <2>2. call'[w].pc = "sign" => cas'[call'[w].ca] # "none"
    BY <1>4, NewCallTyped DEF Ask, Begin, Goto, Finish, Idle, AfterSelect,
           Bounded, TypeOK, KeyTypeOK
  <2>3. SavedBeforeUse'
    BY <2>1, <2>2, SavedKept
  <2>4. AuthoritiesRecorded'
    BY <1>4, <2>1 DEF Ask, AuthoritiesRecorded, Bounded, TypeOK, KeyTypeOK,
           Certificate, CAs, rows, authorities, outside, keyVars, server,
           host
  <2> QED BY <2>3, <2>4
<1>5. ASSUME NEW w \in Workers, SelectCA(w), UNCHANGED host
      PROVE  SavedBeforeUse' /\ AuthoritiesRecorded'
  <2>1. /\ \A c \in CAs : cas[c] # "none" => cas'[c] # "none"
        /\ \A v \in Workers \ {w} : call'[v] = call[v]
    BY <1>5 DEF SelectCA, IsNewest, ActiveCAs, Begin, Goto, Finish, Bounded,
           TypeOK, KeyTypeOK, rows, authorities, outside, keyVars, server,
           host
  <2>2. call'[w].pc = "sign" => cas'[call'[w].ca] # "none"
    <3>1. PICK ca \in CAs :
            call' = [call EXCEPT ![w] = [call[w] EXCEPT !.pc = AfterSelect(call[w].op), !.ca = ca]]
      BY <1>5 DEF SelectCA
    <3> DEFINE new == [call[w] EXCEPT !.pc = AfterSelect(call[w].op), !.ca = ca]
    <3>2. new.pc # "sign"
      BY <1>5, Selected DEF SelectCA
    <3>3. call'[w] = new
      BY <3>1 DEF Bounded, TypeOK, KeyTypeOK
    <3> QED BY <3>2, <3>3
  <2>3. SavedBeforeUse'
    BY <2>1, <2>2, SavedKept
  <2>4. AuthoritiesRecorded'
    BY <1>5, <2>1 DEF SelectCA, AuthoritiesRecorded, Bounded, TypeOK,
           KeyTypeOK, Certificate, CAs, rows, authorities, outside, keyVars,
           server, host
  <2> QED BY <2>3, <2>4
<1>6. ASSUME NEW w \in Workers, KeepCA(w), UNCHANGED host
      PROVE  SavedBeforeUse' /\ AuthoritiesRecorded'
  <2>1. /\ \A c \in CAs : cas[c] # "none" => cas'[c] # "none"
        /\ \A v \in Workers \ {w} : call'[v] = call[v]
    BY <1>6 DEF KeepCA, Begin, Goto, Finish, Bounded, TypeOK, KeyTypeOK,
           rows, authorities, outside, keyVars, server, host
  <2>2. call'[w].pc = "sign" => cas'[call'[w].ca] # "none"
    <3> DEFINE new == [call[w] EXCEPT !.pc = "sign"]
    <3>1. \/ call' = [call EXCEPT ![w] = Idle]
          \/ call' = [call EXCEPT ![w] = new]
      BY <1>6 DEF KeepCA, Goto, Finish
    <3>2. call'[w] = Idle \/ call'[w] = new
      BY <3>1 DEF Bounded, TypeOK, KeyTypeOK
    <3>3. new.pc = "sign" /\ new.ca = call[w].ca /\ Idle.pc = "idle"
      BY CallShape, NewCallTyped DEF Call
    <3>4. call[w].ca \in CAs
      BY <1>6, CallShape DEF KeepCA
    <3>5. cas'[call[w].ca] = "on"
      BY <1>6, <3>4 DEF KeepCA, Bounded, TypeOK, KeyTypeOK
    <3> QED BY <3>2, <3>3, <3>5
  <2>3. SavedBeforeUse'
    BY <2>1, <2>2, SavedKept
  <2>4. AuthoritiesRecorded'
    <3>1. call[w].ca \in CAs
      BY <1>6, CallShape DEF KeepCA
    <3> QED
      BY <1>6, <2>1, <3>1 DEF KeepCA, AuthoritiesRecorded, Bounded, TypeOK,
             KeyTypeOK, Certificate, CAs, rows, authorities, outside,
             keyVars, server, host
  <2> QED BY <2>3, <2>4
<1>7. ASSUME NEW w \in Workers, Sign(w), UNCHANGED host
      PROVE  SavedBeforeUse' /\ AuthoritiesRecorded'
  <2>1. /\ \A c \in CAs : cas[c] # "none" => cas'[c] # "none"
        /\ \A v \in Workers \ {w} : call'[v] = call[v]
    BY <1>7 DEF Sign, Signed, Begin, Goto, Finish, Bounded, TypeOK,
           KeyTypeOK, rows, authorities, outside, keyVars, server, host
  <2>2. call'[w].pc = "sign" => cas'[call'[w].ca] # "none"
    <3> DEFINE new == [call[w] EXCEPT !.pc = "save"]
    <3>1. \/ call' = [call EXCEPT ![w] = Idle]
          \/ call' = [call EXCEPT ![w] = new]
      BY <1>7 DEF Sign, Goto, Finish
    <3>2. call'[w] = Idle \/ call'[w] = new
      BY <3>1 DEF Bounded, TypeOK, KeyTypeOK
    <3>3. new.pc = "save" /\ new.ca = call[w].ca /\ Idle.pc = "idle"
      BY CallShape, NewCallTyped DEF Call
    <3> QED BY <3>2, <3>3
  <2>3. SavedBeforeUse'
    BY <2>1, <2>2, SavedKept
  <2>4. AuthoritiesRecorded'
    <3>1. call[w].key \in Keys /\ call[w].ca \in CAs /\ cas[call[w].ca] # "none"
      BY <1>7, CallShape DEF Sign, SavedBeforeUse
    <3> QED
      BY <1>7, <2>1, <3>1 DEF Sign, Signed, AuthoritiesRecorded, Bounded,
             TypeOK, KeyTypeOK, Certificate, CAs, rows, authorities,
             outside, keyVars, server, host
  <2> QED BY <2>3, <2>4
<1>8. ASSUME NEW w \in Workers, Commit(w), UNCHANGED host
      PROVE  SavedBeforeUse' /\ AuthoritiesRecorded'
  <2>1. /\ \A c \in CAs : cas[c] # "none" => cas'[c] # "none"
        /\ \A v \in Workers \ {w} : call'[v] = call[v]
    BY <1>8 DEF Commit, Signed, Begin, Goto, Finish, Bounded, TypeOK,
           KeyTypeOK, rows, authorities, outside, keyVars, server, host
  <2>2. call'[w].pc = "sign" => cas'[call'[w].ca] # "none"
    BY <1>8, NewCallTyped DEF Commit, Signed, Begin, Goto, Finish, Idle,
           AfterSelect, Bounded, TypeOK, KeyTypeOK
  <2>3. SavedBeforeUse'
    BY <2>1, <2>2, SavedKept
  <2>4. AuthoritiesRecorded'
    <3>1. call[w].key \in Keys /\ call[w].ca \in CAs
      BY <1>8, CallShape DEF Commit
    <3> QED
      BY <1>8, <2>1, <3>1 DEF Commit, Signed, AuthoritiesRecorded, Bounded,
             TypeOK, KeyTypeOK, Certificate, CAs, rows, authorities,
             outside, keyVars, server, host
  <2> QED BY <2>3, <2>4
<1>9. ASSUME NEW w \in Workers, ReadCert(w), UNCHANGED host
      PROVE  SavedBeforeUse' /\ AuthoritiesRecorded'
  <2>1. /\ \A c \in CAs : cas[c] # "none" => cas'[c] # "none"
        /\ \A v \in Workers \ {w} : call'[v] = call[v]
    BY <1>9 DEF ReadCert, Begin, Goto, Finish, Bounded, TypeOK, KeyTypeOK,
           rows, authorities, outside, keyVars, server, host
  <2>2. call'[w].pc = "sign" => cas'[call'[w].ca] # "none"
    <3> DEFINE new == [call[w] EXCEPT !.pc = "select"]
    <3>1. \/ call' = [call EXCEPT ![w] = Idle]
          \/ call' = [call EXCEPT ![w] = new]
      BY <1>9 DEF ReadCert, Goto, Finish
    <3>2. call'[w] = Idle \/ call'[w] = new
      BY <3>1 DEF Bounded, TypeOK, KeyTypeOK
    <3>3. new.pc = "select" /\ new.ca = call[w].ca /\ Idle.pc = "idle"
      BY CallShape, NewCallTyped DEF Call
    <3> QED BY <3>2, <3>3
  <2>3. SavedBeforeUse'
    BY <2>1, <2>2, SavedKept
  <2>4. AuthoritiesRecorded'
    <3>1. call[w].key \in Keys
      BY <1>9, CallShape DEF ReadCert
    <3>2. UNCHANGED <<cas, cert, told, file>>
      BY <1>9 DEF ReadCert, rows, authorities, host
    <3>3. \A j \in Keys : held'[j] = held[j] \/ held'[j] = cert[j]
      BY <1>9, <3>1 DEF ReadCert, Bounded, TypeOK, KeyTypeOK
    <3>4. AuthoritiesRecorded
      OBVIOUS
    <3> QED BY <3>2, <3>3, <3>4 DEF AuthoritiesRecorded
  <2> QED BY <2>3, <2>4
<1>10. ASSUME NEW w \in Workers, RevokeCert(w), UNCHANGED host
      PROVE  SavedBeforeUse' /\ AuthoritiesRecorded'
  <2>1. /\ \A c \in CAs : cas[c] # "none" => cas'[c] # "none"
        /\ \A v \in Workers \ {w} : call'[v] = call[v]
    BY <1>10 DEF RevokeCert, Begin, Goto, Finish, Bounded, TypeOK,
           KeyTypeOK, rows, authorities, outside, keyVars, server, host
  <2>2. call'[w].pc = "sign" => cas'[call'[w].ca] # "none"
    <3> DEFINE new == [call[w] EXCEPT !.pc = "save"]
    <3>1. \/ call' = [call EXCEPT ![w] = Idle]
          \/ call' = [call EXCEPT ![w] = new]
      BY <1>10 DEF RevokeCert, Goto, Finish
    <3>2. call'[w] = Idle \/ call'[w] = new
      BY <3>1 DEF Bounded, TypeOK, KeyTypeOK
    <3>3. new.pc = "save" /\ new.ca = call[w].ca /\ Idle.pc = "idle"
      BY CallShape, NewCallTyped DEF Call
    <3> QED BY <3>2, <3>3
  <2>3. SavedBeforeUse'
    BY <2>1, <2>2, SavedKept
  <2>4. AuthoritiesRecorded'
    <3>1. \A j \in Keys : cert'[j].ca = cert[j].ca
      BY <1>10 DEF RevokeCert, Bounded, TypeOK, KeyTypeOK, Certificate
    <3> QED
      BY <1>10, <2>1, <3>1 DEF RevokeCert, AuthoritiesRecorded, rows,
             authorities, outside, keyVars, server, host
  <2> QED BY <2>3, <2>4
<1>11. ASSUME NEW w \in Workers, SaveKey(w), UNCHANGED host
      PROVE  SavedBeforeUse' /\ AuthoritiesRecorded'
  <2>1. /\ \A c \in CAs : cas[c] # "none" => cas'[c] # "none"
        /\ \A v \in Workers \ {w} : call'[v] = call[v]
    BY <1>11 DEF SaveKey, Begin, Goto, Finish, Bounded, TypeOK, KeyTypeOK,
           rows, authorities, outside, keyVars, server, host
  <2>2. call'[w].pc = "sign" => cas'[call'[w].ca] # "none"
    <3> DEFINE new == [call[w] EXCEPT !.pc = "revoke"]
    <3>1. \/ call' = [call EXCEPT ![w] = Idle]
          \/ call' = [call EXCEPT ![w] = new]
      BY <1>11 DEF SaveKey, Goto, Finish
    <3>2. call'[w] = Idle \/ call'[w] = new
      BY <3>1 DEF Bounded, TypeOK, KeyTypeOK
    <3>3. new.pc = "revoke" /\ new.ca = call[w].ca /\ Idle.pc = "idle"
      BY CallShape, NewCallTyped DEF Call
    <3> QED BY <3>2, <3>3
  <2>3. SavedBeforeUse'
    BY <2>1, <2>2, SavedKept
  <2>4. AuthoritiesRecorded'
    BY <1>11, <2>1 DEF SaveKey, AuthoritiesRecorded, Bounded, TypeOK,
           KeyTypeOK, Certificate, CAs, rows, authorities, outside, keyVars,
           server, host
  <2> QED BY <2>3, <2>4
<1>12. ASSUME NEW w \in Workers, Abort(w), UNCHANGED host
      PROVE  SavedBeforeUse' /\ AuthoritiesRecorded'
  <2>1. /\ \A c \in CAs : cas[c] # "none" => cas'[c] # "none"
        /\ \A v \in Workers \ {w} : call'[v] = call[v]
    BY <1>12 DEF Abort, Fault, Begin, Goto, Finish, Bounded, TypeOK,
           KeyTypeOK, rows, authorities, outside, keyVars, server, host
  <2>2. call'[w].pc = "sign" => cas'[call'[w].ca] # "none"
    BY <1>12, NewCallTyped DEF Abort, Fault, Begin, Goto, Finish, Idle,
           AfterSelect, Bounded, TypeOK, KeyTypeOK
  <2>3. SavedBeforeUse'
    BY <2>1, <2>2, SavedKept
  <2>4. AuthoritiesRecorded'
    BY <1>12, <2>1 DEF Abort, AuthoritiesRecorded, Bounded, TypeOK,
           KeyTypeOK, Certificate, CAs, rows, authorities, outside, keyVars,
           server, host
  <2> QED BY <2>3, <2>4
<1>13. ASSUME NEW w \in Workers, HangUp(w), UNCHANGED host
      PROVE  SavedBeforeUse' /\ AuthoritiesRecorded'
  <2>1. /\ \A c \in CAs : cas[c] # "none" => cas'[c] # "none"
        /\ \A v \in Workers \ {w} : call'[v] = call[v]
    BY <1>13 DEF HangUp, Fault, Begin, Goto, Finish, Bounded, TypeOK,
           KeyTypeOK, rows, authorities, outside, keyVars, server, host
  <2>2. call'[w].pc = "sign" => cas'[call'[w].ca] # "none"
    BY <1>13, HungUp DEF HangUp, SavedBeforeUse, Bounded, TypeOK, KeyTypeOK,
           authorities
  <2>3. SavedBeforeUse'
    BY <2>1, <2>2, SavedKept
  <2>4. AuthoritiesRecorded'
    BY <1>13, <2>1 DEF HangUp, AuthoritiesRecorded, Bounded, TypeOK,
           KeyTypeOK, Certificate, CAs, rows, authorities, outside, keyVars,
           server, host
  <2> QED BY <2>3, <2>4
<1>14. ASSUME NEW k \in Keys, Erase(k), UNCHANGED host
      PROVE  SavedBeforeUse' /\ AuthoritiesRecorded'
  <2>1. \A j \in Keys : cert'[j].ca = cert[j].ca /\ held'[j].ca = held[j].ca
    BY <1>14 DEF Erase, Bounded, TypeOK, KeyTypeOK, Certificate, rows,
           authorities, outside, keyVars, server, host
  <2> QED
    BY <1>14, <2>1 DEF Erase, CAs, SavedBeforeUse, AuthoritiesRecorded,
           rows, authorities, outside, keyVars, server, host
<1>15. ASSUME NEW k \in Keys, Lapse(k), UNCHANGED host
      PROVE  SavedBeforeUse' /\ AuthoritiesRecorded'
  <2>1. \A j \in Keys : cert'[j].ca = cert[j].ca /\ held'[j].ca = held[j].ca
    BY <1>15 DEF Lapse, Bounded, TypeOK, KeyTypeOK, Certificate, rows,
           authorities, outside, keyVars, server, host
  <2> QED
    BY <1>15, <2>1 DEF Lapse, CAs, SavedBeforeUse, AuthoritiesRecorded,
           rows, authorities, outside, keyVars, server, host
<1>16. ASSUME NEW c \in CAs, EditCA(c), UNCHANGED host
      PROVE  SavedBeforeUse' /\ AuthoritiesRecorded'
  <2>1. \A d \in CAs : cas[d] # "none" => cas'[d] # "none"
    BY <1>16 DEF EditCA, Bounded, TypeOK, KeyTypeOK
  <2>2. SavedBeforeUse'
    BY <1>16, <2>1, SavedKeptElsewhere DEF EditCA
  <2> QED
    BY <1>16, <2>1, <2>2 DEF EditCA, AuthoritiesRecorded, Bounded, TypeOK,
           KeyTypeOK, Certificate, CAs, rows, authorities, outside, keyVars,
           server, host
<1>17. ASSUME NEW h \in Hosts, WriteKey(h)
      PROVE  SavedBeforeUse' /\ AuthoritiesRecorded'
  BY <1>17 DEF WriteKey, Bounded, TypeOK, KeyTypeOK, Certificate, CAs,
         SavedBeforeUse, AuthoritiesRecorded, rows, authorities, outside,
         keyVars, server, host
<1>18. ASSUME NEW h \in Hosts, WriteConf(h)
      PROVE  SavedBeforeUse' /\ AuthoritiesRecorded'
  BY <1>18 DEF WriteConf, Return, Bounded, TypeOK, KeyTypeOK, Certificate,
         CAs, SavedBeforeUse, AuthoritiesRecorded, rows, authorities,
         outside, keyVars, server, host
<1>19. ASSUME NEW h \in Hosts, Reload(h)
      PROVE  SavedBeforeUse' /\ AuthoritiesRecorded'
  BY <1>19 DEF Reload, Return, Bounded, TypeOK, KeyTypeOK, Certificate, CAs,
         SavedBeforeUse, AuthoritiesRecorded, rows, authorities, outside,
         keyVars, server, host
<1>20. ASSUME NEW h \in Hosts, EnsureFails(h)
      PROVE  SavedBeforeUse' /\ AuthoritiesRecorded'
  BY <1>20 DEF EnsureFails, Fault, Return, Bounded, TypeOK, KeyTypeOK,
         Certificate, CAs, SavedBeforeUse, AuthoritiesRecorded, rows,
         authorities, outside, keyVars, server, host
<1>21. ASSUME NEW h \in Hosts, Truncate(h)
      PROVE  SavedBeforeUse' /\ AuthoritiesRecorded'
  BY <1>21 DEF Truncate, Fault, Return, Bounded, TypeOK, KeyTypeOK,
         Certificate, CAs, SavedBeforeUse, AuthoritiesRecorded, rows,
         authorities, outside, keyVars, server, host
<1>22. ASSUME NEW h \in Hosts, Restart(h)
      PROVE  SavedBeforeUse' /\ AuthoritiesRecorded'
  BY <1>22 DEF Restart, Bounded, TypeOK, KeyTypeOK, Certificate, CAs,
         SavedBeforeUse, AuthoritiesRecorded, rows, authorities, outside,
         keyVars, server, host
<1> QED
  BY <1>1, <1>2, <1>3, <1>4, <1>5, <1>6, <1>7, <1>8, <1>9, <1>10, <1>11,
         <1>12, <1>13, <1>14, <1>15, <1>16, <1>17, <1>18, <1>19, <1>20,
         <1>21, <1>22 DEF Next, KeyNext, Serve, EnsureCA

\* Steps that change nothing.
LEMMA StutterRecorded ==
  ASSUME RecordedInv, UNCHANGED vars
  PROVE  RecordedInv'
  BY DEF RecordedInv, Bounded, CallsWellFormed, WellFormed, TypeOK, KeyTypeOK,
         SavedBeforeUse, AuthoritiesRecorded, vars, keyVars, host

LEMMA RecordedInductive == Spec => []RecordedInv
<1>1. ASSUME RecordedInv, [Next]_vars PROVE RecordedInv'
  <2>1. CASE Next
    <3>1. Bounded'
      BY <1>1, <2>1, NextTyped DEF RecordedInv
    <3> QED BY <1>1, <2>1, <3>1, NextRecorded DEF RecordedInv
  <2>2. CASE UNCHANGED vars
    BY <1>1, <2>2, StutterRecorded
  <2> QED BY <1>1, <2>1, <2>2
<1> QED BY <1>1, InitRecorded, PTL DEF Spec

\* The types of the variables of server and hosts; a certificate that counts as
\* active was signed by some authority (get_active_ca constructs one if need be).
THEOREM TrustTypeCorrect == Spec => []TypeOK
<1>1. RecordedInv => TypeOK
  BY DEF RecordedInv, Bounded
<1> QED BY <1>1, RecordedInductive, PTL

\* Certificates, answers to agents and the files of hosts name authorities that
\* are in the database, although get_active_ca constructs authorities outside
\* any transaction and every call may end anywhere.
THEOREM AuthoritiesAreSaved == Spec => []AuthoritiesRecorded
<1>1. RecordedInv => AuthoritiesRecorded
  BY DEF RecordedInv
<1> QED BY <1>1, RecordedInductive, PTL

-----------------------------------------------------------------------------
(***************************************************************************)
(* The safety core of RevokedKeptOut: what a revoked key still gets.       *)
(***************************************************************************)

\* The user of key k is being served a download.
Downloading(k) == \E w \in Workers : call[w].op = "download" /\ call[w].key = k

\* The user of key k has a certificate that has not come to its end.
HasFresh(k) == held[k].ca # 0 /\ ~held[k].lapsed

\* Of the handlers that load a key only the download reads its certificate.
OnlyDownloadsRead ==
    \A w \in Workers : call[w].pc = "read" => call[w].op = "download"

LEMMA LoadReads ==
  ASSUME NEW op \in KeyOps, AfterLoad(op) = "read"
  PROVE  op = "download"
BY DEF AfterLoad, KeyOps

LEMMA NextReads ==
  ASSUME Bounded, OnlyDownloadsRead, KeyNext
  PROVE  OnlyDownloadsRead'
<1>1. call \in [Workers -> Call]
  BY DEF Bounded, TypeOK, KeyTypeOK
<1>2. ASSUME NEW w \in Workers, NEW k \in Keys, Create(w, k) \/ ProfileCreate(w, k)
      PROVE  OnlyDownloadsRead'
  BY <1>1, <1>2 DEF Create, ProfileCreate, Begin, NewCall, OnlyDownloadsRead
<1>3. ASSUME NEW w \in Workers, NEW k \in Keys, NEW op \in KeyOps, Load(w, k, op)
      PROVE  OnlyDownloadsRead'
  BY <1>1, <1>3, LoadReads DEF Load, Begin, NewCall, OnlyDownloadsRead
<1>4. ASSUME NEW w \in Workers, NEW h \in Hosts, Ask(w, h)
      PROVE  OnlyDownloadsRead'
  BY <1>1, <1>4 DEF Ask, Begin, NewCall, OnlyDownloadsRead
<1>5. ASSUME NEW w \in Workers, Serve(w) \/ Abort(w) \/ HangUp(w)
      PROVE  OnlyDownloadsRead'
  <2>1. \/ call'[w] = Idle
        \/ call'[w].pc # "read"
        \/ call'[w].pc = call[w].pc /\ call'[w].op = call[w].op
    BY <1>1, <1>5
       DEF Serve, SelectCA, AfterSelect, KeepCA, Sign, Commit, ReadCert, RevokeCert,
           SaveKey, Abort, HangUp, Goto, Finish, Call
  <2>2. \A v \in Workers \ {w} : call'[v] = call[v]
    BY <1>1, <1>5
       DEF Serve, SelectCA, KeepCA, Sign, Commit, ReadCert, RevokeCert,
           SaveKey, Abort, HangUp, Goto, Finish
  <2> QED BY <2>1, <2>2 DEF OnlyDownloadsRead, Idle, NewCall
<1>6. ASSUME \/ \E k \in Keys : Erase(k) \/ Lapse(k)
             \/ \E c \in CAs : EditCA(c)
      PROVE  OnlyDownloadsRead'
  BY <1>6 DEF Erase, Lapse, EditCA, OnlyDownloadsRead
<1> QED BY <1>2, <1>3, <1>4, <1>5, <1>6 DEF KeyNext

\* A certificate that has not come to its end reaches a user by a download alone.
LEMMA NextHeld ==
  ASSUME Bounded, OnlyDownloadsRead, KeyNext, NEW k \in Keys, ~Downloading(k),
         HasFresh(k)'
  PROVE  held'[k] = held[k]
<1>1. held \in [Keys -> Certificate]
  BY DEF Bounded, TypeOK, KeyTypeOK
<1>2. ASSUME NEW w \in Workers, NEW q \in Keys, Create(w, q) \/ ProfileCreate(w, q)
      PROVE  held' = held
  BY <1>2 DEF Create, ProfileCreate, outside
<1>3. ASSUME NEW w \in Workers, NEW q \in Keys, NEW op \in KeyOps, Load(w, q, op)
      PROVE  held' = held
  BY <1>3 DEF Load, outside
<1>4. ASSUME NEW w \in Workers, NEW h \in Hosts, Ask(w, h) PROVE held' = held
  BY <1>4 DEF Ask, outside
<1>5. ASSUME NEW w \in Workers,
             \/ SelectCA(w) \/ KeepCA(w) \/ Commit(w) \/ RevokeCert(w) \/ SaveKey(w)
             \/ Abort(w) \/ HangUp(w)
      PROVE  held' = held
  BY <1>5 DEF SelectCA, KeepCA, Commit, RevokeCert, SaveKey, Abort, HangUp, outside
<1>6. ASSUME NEW w \in Workers, Sign(w) \/ ReadCert(w)
      PROVE  held'[k] = held[k]
  <2>1. CASE call[w].op = "download" /\ held' # held
    <3>1. call[w].key # k
      BY <2>1 DEF Downloading
    <3>2. \E x : held' = [held EXCEPT ![call[w].key] = x]
      BY <1>6, <2>1 DEF Sign, ReadCert
    <3> QED BY <1>1, <3>1, <3>2
  <2>2. CASE call[w].op # "download"
    BY <1>6, <2>2 DEF Sign, ReadCert, OnlyDownloadsRead
  <2> QED BY <2>1, <2>2
<1>7. ASSUME NEW q \in Keys, Lapse(q) PROVE held'[k] = held[k]
  <2>1. held' = [held EXCEPT ![q].lapsed = held[q].ca # 0]
    BY <1>7 DEF Lapse
  <2>2. CASE q = k
    BY <1>1, <2>1, <2>2 DEF Certificate, HasFresh
  <2>3. CASE q # k
    BY <1>1, <2>1, <2>3
  <2> QED BY <2>2, <2>3
<1>8. ASSUME \/ \E q \in Keys : Erase(q)
             \/ \E c \in CAs : EditCA(c)
      PROVE  held' = held
  BY <1>8 DEF Erase, EditCA, outside
<1> QED BY <1>2, <1>3, <1>4, <1>5, <1>6, <1>7, <1>8 DEF KeyNext, Serve

\* A download that begins is of a key that is active.
LEMMA NextDownloading ==
  ASSUME Bounded, KeyNext, NEW k \in Keys, ~Downloading(k), Downloading(k)'
  PROVE  key[k] = "on"
<1>1. call \in [Workers -> Call]
  BY DEF Bounded, TypeOK, KeyTypeOK
<1>2. PICK w \in Workers : call'[w].op = "download" /\ call'[w].key = k
  BY DEF Downloading
<1>3. ~(call[w].op = "download" /\ call[w].key = k)
  BY DEF Downloading
<1>4. ASSUME NEW v \in Workers, NEW q \in Keys, Create(v, q) \/ ProfileCreate(v, q)
      PROVE  FALSE
  BY <1>1, <1>2, <1>3, <1>4 DEF Create, ProfileCreate, Begin, NewCall
<1>5. ASSUME NEW v \in Workers, NEW q \in Keys, NEW op \in KeyOps, Load(v, q, op)
      PROVE  key[k] = "on"
  <2>1. PICK row : call' = [call EXCEPT ![v] = NewCall(op, AfterLoad(op), q, Nothing, row)]
    BY <1>5 DEF Load, Begin
  <2>2. op = "download" /\ q = k
    BY <1>1, <1>2, <1>3, <2>1 DEF NewCall
  <2> QED BY <1>5, <2>2 DEF Load
<1>6. ASSUME NEW v \in Workers, NEW h \in Hosts, Ask(v, h) PROVE FALSE
  BY <1>1, <1>2, <1>3, <1>6 DEF Ask, Begin, NewCall
<1>7. ASSUME NEW v \in Workers, Serve(v) \/ Abort(v) \/ HangUp(v) PROVE FALSE
  <2>1. \/ call'[v] = Idle
        \/ call'[v].op = call[v].op /\ call'[v].key = call[v].key
    BY <1>1, <1>7
       DEF Serve, SelectCA, KeepCA, Sign, Commit, ReadCert, RevokeCert,
           SaveKey, Abort, HangUp, Goto, Finish, Call
  <2>2. \A u \in Workers \ {v} : call'[u] = call[u]
    BY <1>1, <1>7
       DEF Serve, SelectCA, KeepCA, Sign, Commit, ReadCert, RevokeCert,
           SaveKey, Abort, HangUp, Goto, Finish
  <2> QED BY <1>2, <1>3, <2>1, <2>2 DEF Idle, NewCall
<1>8. ASSUME \/ \E q \in Keys : Erase(q) \/ Lapse(q)
             \/ \E c \in CAs : EditCA(c)
      PROVE  FALSE
  BY <1>2, <1>3, <1>8 DEF Erase, Lapse, EditCA
<1> QED BY <1>4, <1>5, <1>6, <1>7, <1>8 DEF KeyNext

\* A step while no download of a key that is not active is being served.
RevokedGetsNothing ==
    \A k \in Keys : key[k] # "on" /\ ~Downloading(k) =>
        /\ ~Downloading(k)'
        /\ HasFresh(k)' => held'[k] = held[k]

LEMMA ReadsAlways == Spec => [](RecordedInv /\ OnlyDownloadsRead)
<1>1. Init => OnlyDownloadsRead
  BY DEF Init, KeyInit, OnlyDownloadsRead, Idle, NewCall
<1>2. RecordedInv /\ OnlyDownloadsRead /\ [Next]_vars => OnlyDownloadsRead'
  <2> SUFFICES ASSUME RecordedInv, OnlyDownloadsRead, [Next]_vars
               PROVE  OnlyDownloadsRead'
    OBVIOUS
  <2>1. CASE KeyNext
    BY <2>1, NextReads DEF RecordedInv
  <2>2. CASE call' = call
    BY <2>2 DEF OnlyDownloadsRead
  <2>3. KeyNext \/ call' = call
    BY DEF Next, EnsureCA, WriteKey, WriteConf, Reload, EnsureFails, Truncate, Restart,
           server, vars, keyVars
  <2> QED BY <2>1, <2>2, <2>3
<1> QED BY <1>1, <1>2, RecordedInductive, PTL DEF Spec

\* A key that is not active gets no certificate but from a download that had begun
\* while it was: once that has ended, however calls overlap and keys are edited,
\* its user is left with the certificate held, which comes to its end.
THEOREM RevokedKeysGetNothing == Spec => [][RevokedGetsNothing]_vars
<1>1. ASSUME RecordedInv, OnlyDownloadsRead, [Next]_vars
      PROVE  RevokedGetsNothing
  <2>1. CASE KeyNext
    BY <1>1, <2>1, NextHeld, NextDownloading DEF RecordedInv, RevokedGetsNothing
  <2>2. CASE call' = call /\ held' = held
    BY <2>2 DEF RevokedGetsNothing, Downloading
  <2>3. KeyNext \/ (call' = call /\ held' = held)
    BY <1>1 DEF Next, EnsureCA, WriteKey, WriteConf, Reload, EnsureFails, Truncate,
                Restart, server, vars, keyVars
  <2> QED BY <2>1, <2>2, <2>3
<1>2. RecordedInv /\ OnlyDownloadsRead /\ [Next]_vars => RevokedGetsNothing
  BY <1>1
<1> QED BY <1>2, ReadsAlways, PTL DEF Spec
=============================================================================
