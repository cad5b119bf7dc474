--------------------------- MODULE Accounts_proofs ---------------------------
(***************************************************************************)
(* Proofs about Accounts, for every set of users, names and workers.       *)
(***************************************************************************)
EXTENDS Accounts, TLAPS

USE NamesAssumption, BoundsAssumption

\* An administrator was made one, and so was the user of a call that holds the
\* flag in its copy, or is about to add the group.
Promoted ==
    /\ PrivilegeNeedsPromotion
    /\ \A w \in Workers :
          call[w].new.super \/ call[w].role = "administrator" =>
              call[w].user \in made

\* A call that changes a user names the user and, up to the change of groups, a
\* role; a review names its request.
WellFormed ==
    \A w \in Workers :
        /\ call[w].pc \in {"insert", "remove", "add", "save", "form"} =>
              call[w].user \in Users
        /\ call[w].pc = "insert" => call[w].role \in RoleInputs
        /\ call[w].pc \in {"remove", "add"} => call[w].role \in Roles
        /\ call[w].pc = "review" => call[w].req \in Requests

AccountInv == TypeOK /\ WellFormed /\ Promoted

LEMMA IdleCall == Idle \in Call
  BY DEF Idle, Call, NoUser, UserRow, NoErasure, ErasureRow

\* A worker without a call holds no privilege.
LEMMA IdleCopies == ~Idle.new.super /\ Idle.role # "administrator"
  BY DEF Idle, NoUser

\* Records built from records of the right type.
LEMMA WithFlags ==
  ASSUME NEW x \in UserRow, NEW role \in Roles
  PROVE  Flags(x, role) \in UserRow
  BY DEF Flags, UserRow, Roles, RoleInputs

LEMMA WithPc ==
  ASSUME NEW c \in Call, NEW x \in UserRow,
         NEW pc \in {"idle", "insert", "remove", "add", "save", "form", "ask", "review"}
  PROVE  /\ [c EXCEPT !.pc = pc] \in Call
         /\ [c EXCEPT !.pc = pc, !.new = x] \in Call
  BY DEF Call

LEMMA WithUser ==
  ASSUME NEW c \in Call, NEW u \in Users
  PROVE  [c EXCEPT !.user = u] \in Call
  BY DEF Call

LEMMA CallShape ==
  ASSUME NEW c \in Call
  PROVE  /\ c.user \in Users \cup {None} /\ c.new \in UserRow
         /\ c.role \in RoleInputs \cup {None} /\ c.next \in ErasureRow
         /\ c.req \in Requests \cup {None}
  BY DEF Call

\* What the start of a call does to the types.
LEMMA BeginTypes ==
  ASSUME TypeOK, NEW w \in Workers, NEW c \in Call, Begin(w, c)
  PROVE  /\ call' \in [Workers -> Call]
         /\ calls' \in 0 .. MaxCalls /\ crashes' \in 0 .. MaxCrashes
<1>1. call' \in [Workers -> Call]
  BY DEF Begin, TypeOK
<1>2. calls' \in 0 .. MaxCalls /\ crashes' \in 0 .. MaxCrashes
  BY DEF Begin, TypeOK
<1> QED BY <1>1, <1>2

LEMMA BeginOnTypes ==
  ASSUME TypeOK, NEW u \in Users, NEW w \in Workers, NEW c \in Call, BeginOn(u, w, c)
  PROVE  /\ call' \in [Workers -> Call]
         /\ calls' \in 0 .. MaxCalls /\ crashes' \in 0 .. MaxCrashes
         /\ made' \in SUBSET Users /\ asked' \in [Users -> Asked]
         /\ mixed' \in SUBSET Users
<1>1. /\ call' \in [Workers -> Call]
      /\ calls' \in 0 .. MaxCalls /\ crashes' \in 0 .. MaxCrashes
  BY WithUser, BeginTypes DEF BeginOn
<1>2. made' \in SUBSET Users /\ mixed' \in SUBSET Users
  BY DEF BeginOn, TypeOK
<1>3. asked' \in [Users -> Asked]
  <2>1. c.new \in UserRow /\ c.role \in RoleInputs \cup {None}
    BY DEF Call
  <2>2. c.new.name \in Names \cup {None} /\ c.new.active \in BOOLEAN
    BY <2>1 DEF UserRow
  <2>3. asked[u].role \in Roles \cup {None}
    BY DEF TypeOK, Asked
  <2>4. [name |-> c.new.name, active |-> c.new.active,
         role |-> RoleAsked(u, c)] \in Asked
    BY <2>1, <2>2, <2>3 DEF Asked, RoleAsked, RoleInputs
  <2> QED BY <2>4 DEF BeginOn, TypeOK
<1> QED BY <1>1, <1>2, <1>3

LEMMA AccountInit == Init => AccountInv
<1> SUFFICES ASSUME Init PROVE AccountInv
  OBVIOUS
<1>1. calls \in 0 .. MaxCalls /\ crashes \in 0 .. MaxCrashes
  BY DEF Init
<1>2. NoUser \in UserRow /\ NoErasure \in ErasureRow /\ Nothing \in Asked
  BY DEF NoUser, UserRow, NoErasure, ErasureRow, Nothing, Asked
<1>3. TypeOK
  BY <1>1, <1>2, IdleCall DEF Init, TypeOK
<1>4. Promoted
  BY DEF Init, Promoted, PrivilegeNeedsPromotion, NoUser, Idle
<1>5. WellFormed
  BY DEF Init, WellFormed, Idle
<1> QED BY <1>3, <1>4, <1>5 DEF AccountInv

\* Every step keeps the types.
LEMMA NextTypes ==
  ASSUME TypeOK, WellFormed, Next
  PROVE  TypeOK'
<1>1. ASSUME NEW w \in Workers, NEW u \in Users, NEW n \in Names, NEW role
   \in RoleInputs, CreateUser(w, u, n, role) PROVE TypeOK'
  <2>1. [name |-> n, super |-> FALSE, active |-> TRUE] \in UserRow
    BY DEF UserRow
  <2> DEFINE c == [Idle EXCEPT !.pc = "insert", !.role = role, !.saves = TRUE,
                    !.new = [name |-> n, super |-> FALSE, active |-> TRUE]]
  <2>5. c \in Call
    BY IdleCall, <2>1 DEF Idle, Call, NoErasure, ErasureRow, NoUser, UserRow, Roles, RoleInputs
  <2>6. BeginOn(u, w, c)
    BY <1>1 DEF CreateUser
  <2> HIDE DEF c
  <2>7. /\ call' \in [Workers -> Call]
        /\ calls' \in 0 .. MaxCalls /\ crashes' \in 0 .. MaxCrashes
        /\ made' \in SUBSET Users /\ asked' \in [Users -> Asked]
        /\ mixed' \in SUBSET Users
    BY <2>5, <2>6, BeginOnTypes
  <2> QED BY <1>1, <2>7 DEF CreateUser, TypeOK
<1>2. ASSUME NEW w \in Workers, NEW u \in Users, NEW n \in Names, NEW role
   \in Roles \cup {None}, NEW active \in BOOLEAN, UpdateUser(w, u, n, role,
   active) PROVE TypeOK'
  <2> DEFINE x == [user[u] EXCEPT !.name = n, !.active = active]
             c == IF role = None
                  THEN [Idle EXCEPT !.pc = "save", !.new = x, !.saves = TRUE]
                  ELSE [Idle EXCEPT !.pc = "remove", !.new = Flags(x, role),
                                    !.role = role, !.saves = TRUE]
  <2>0. user[u] \in UserRow
    BY DEF TypeOK
  <2>1. x \in UserRow
    BY <2>0 DEF UserRow
  <2>2. role # None => Flags(x, role) \in UserRow
    BY <2>1, WithFlags
  <2>3. BeginOn(u, w, c)
    BY <1>2 DEF UpdateUser
  <2> HIDE DEF x
  <2>4. c \in Call
    BY <2>1, <2>2 DEF Idle, Call, NoErasure, ErasureRow, Roles, RoleInputs
  <2> HIDE DEF c
  <2> QED BY <1>2, <2>3, <2>4, BeginOnTypes DEF UpdateUser, TypeOK
<1>3. ASSUME NEW w \in Workers, NEW u \in Users, EnsureAdmin(w, u) PROVE
   TypeOK'
  <2>1. Flags(user[u], "administrator") \in UserRow
    BY WithFlags DEF TypeOK, Roles, RoleInputs
  <2> DEFINE copy(b) == [Idle EXCEPT !.pc = "remove", !.role = "administrator",
                             !.saves = b, !.new = Flags(user[u], "administrator")]
  <2>4. PICK saves \in BOOLEAN : BeginOn(u, w, copy(saves))
    BY <1>3 DEF EnsureAdmin
  <2> DEFINE c == copy(saves)
  <2>5. c \in Call
    BY IdleCall, <2>1 DEF Idle, Call, NoErasure, ErasureRow, NoUser, UserRow, Roles, RoleInputs
  <2>6. BeginOn(u, w, c)
    BY <2>4
  <2> HIDE DEF c
  <2>7. /\ call' \in [Workers -> Call]
        /\ calls' \in 0 .. MaxCalls /\ crashes' \in 0 .. MaxCrashes
        /\ made' \in SUBSET Users /\ asked' \in [Users -> Asked]
        /\ mixed' \in SUBSET Users
    BY <2>5, <2>6, BeginOnTypes
  <2> QED BY <1>3, <2>7 DEF EnsureAdmin, TypeOK
<1>4. ASSUME NEW w \in Workers, NEW u \in Users, CreateAdmin(w, u) PROVE
   TypeOK'
  <2>1. [name |-> AdminName, super |-> TRUE, active |-> TRUE] \in UserRow
    BY DEF UserRow
  <2> DEFINE c == [Idle EXCEPT !.pc = "remove", !.role = "administrator", !.saves = TRUE,
                    !.new = [name |-> AdminName, super |-> TRUE, active |-> TRUE]]
  <2>5. c \in Call
    BY IdleCall, <2>1 DEF Idle, Call, NoErasure, ErasureRow, NoUser, UserRow, Roles, RoleInputs
  <2>6. BeginOn(u, w, c)
    BY <1>4 DEF CreateAdmin
  <2> HIDE DEF c
  <2>7. /\ call' \in [Workers -> Call]
        /\ calls' \in 0 .. MaxCalls /\ crashes' \in 0 .. MaxCrashes
        /\ made' \in SUBSET Users /\ asked' \in [Users -> Asked]
        /\ mixed' \in SUBSET Users
    BY <2>5, <2>6, BeginOnTypes
  <2>8. user' \in [Users -> UserRow]
    BY <1>4, <2>1 DEF CreateAdmin, TypeOK
  <2> QED BY <1>4, <2>7, <2>8 DEF CreateAdmin, TypeOK
<1>5. ASSUME NEW w \in Workers, NEW u \in Users, OpenForm(w, u) PROVE
   TypeOK'
  <2>1. user[u] \in UserRow
    BY DEF TypeOK
  <2> DEFINE c == [Idle EXCEPT !.pc = "form", !.new = user[u]]
  <2>5. c \in Call
    BY IdleCall, <2>1 DEF Idle, Call, NoErasure, ErasureRow, NoUser, UserRow, Roles, RoleInputs
  <2>6. BeginOn(u, w, c)
    BY <1>5 DEF OpenForm
  <2> HIDE DEF c
  <2>7. /\ call' \in [Workers -> Call]
        /\ calls' \in 0 .. MaxCalls /\ crashes' \in 0 .. MaxCrashes
        /\ made' \in SUBSET Users /\ asked' \in [Users -> Asked]
        /\ mixed' \in SUBSET Users
    BY <2>5, <2>6, BeginOnTypes
  <2> QED BY <1>5, <2>7 DEF OpenForm, TypeOK
<1>6. ASSUME NEW w \in Workers, NEW u \in Users, AskErasure(w, u) PROVE
   TypeOK'
  <2>1. [user |-> u, status |-> "pending", decided |-> FALSE] \in ErasureRow
    BY DEF ErasureRow
  <2> DEFINE c == [Idle EXCEPT !.pc = "ask",
                    !.next = [user |-> u, status |-> "pending", decided |-> FALSE]]
  <2>5. c \in Call
    BY IdleCall, <2>1 DEF Idle, Call, NoErasure, ErasureRow, NoUser, UserRow, Roles, RoleInputs
  <2>6. Begin(w, c)
    BY <1>6 DEF AskErasure
  <2> HIDE DEF c
  <2>7. /\ call' \in [Workers -> Call]
        /\ calls' \in 0 .. MaxCalls /\ crashes' \in 0 .. MaxCrashes
    BY <2>5, <2>6, BeginTypes
  <2> QED BY <1>6, <2>7 DEF AskErasure, TypeOK
<1>7. ASSUME NEW w \in Workers, NEW q \in Requests, NEW status \in
   {"pending", "denied", "processed"}, Review(w, q, status) PROVE TypeOK'
  <2>0. erasure[q] \in ErasureRow
    BY DEF TypeOK
  <2>1. Reviewed(erasure[q], status) \in ErasureRow
    BY <2>0 DEF Reviewed, ErasureRow
  <2> DEFINE c == [Idle EXCEPT !.pc = "review", !.req = q,
                    !.next = Reviewed(erasure[q], status)]
  <2>5. c \in Call
    BY IdleCall, <2>1 DEF Idle, Call, NoErasure, ErasureRow, NoUser, UserRow, Roles, RoleInputs
  <2>6. Begin(w, c)
    BY <1>7 DEF Review
  <2> HIDE DEF c
  <2>7. /\ call' \in [Workers -> Call]
        /\ calls' \in 0 .. MaxCalls /\ crashes' \in 0 .. MaxCrashes
    BY <2>5, <2>6, BeginTypes
  <2> QED BY <1>7, <2>7 DEF Review, TypeOK
<1>8. ASSUME NEW w \in Workers, InsertUser(w) PROVE TypeOK'
  <2>1. /\ call[w] \in Call /\ call[w].new \in UserRow
        /\ call[w].user \in Users /\ call[w].role \in RoleInputs
    BY <1>8, CallShape DEF InsertUser, TypeOK, WellFormed
  <2>2. call[w].role # "other" => Flags(call[w].new, call[w].role) \in UserRow
    BY <2>1, WithFlags DEF RoleInputs
  <2>3. call[w].role # "other" =>
           [call[w] EXCEPT !.pc = "remove",
                           !.new = Flags(call[w].new, call[w].role)] \in Call
    BY <2>1, <2>2, WithPc
  <2>4. call' \in [Workers -> Call]
    BY <1>8, <2>3, IdleCall DEF InsertUser, TypeOK
  <2>5. user' \in [Users -> UserRow]
    BY <1>8, <2>1 DEF InsertUser, TypeOK
  <2> QED BY <1>8, <2>4, <2>5 DEF InsertUser, counters, TypeOK
<1>9. ASSUME NEW w \in Workers, RemoveGroups(w) PROVE TypeOK'
  <2>1. call[w] \in Call
    BY DEF TypeOK
  <2>2. [call[w] EXCEPT !.pc = "add"] \in Call
    BY <2>1, CallShape, WithPc
  <2>3. call' \in [Workers -> Call]
    BY <1>9, <2>2 DEF RemoveGroups, TypeOK
  <2> QED BY <1>9, <2>3 DEF RemoveGroups, counters, TypeOK
<1>10. ASSUME NEW w \in Workers, AddGroup(w) PROVE TypeOK'
  <2>1. call[w] \in Call /\ call[w].role \in Roles
    BY <1>10 DEF AddGroup, TypeOK, WellFormed
  <2>2. [call[w] EXCEPT !.pc = "save"] \in Call
    BY <2>1, CallShape, WithPc
  <2>3. call' \in [Workers -> Call]
    BY <1>10, <2>2, IdleCall DEF AddGroup, TypeOK
  <2>4. groups' \in [Users -> SUBSET Roles]
    BY <1>10, <2>1 DEF AddGroup, TypeOK
  <2> QED BY <1>10, <2>3, <2>4 DEF AddGroup, counters, TypeOK
<1>11. ASSUME NEW w \in Workers, SaveUser(w) PROVE TypeOK'
  <2>1. call[w].user \in Users /\ call[w].new \in UserRow
    BY <1>11, CallShape DEF SaveUser, TypeOK, WellFormed
  <2>2. user' \in [Users -> UserRow]
    BY <1>11, <2>1 DEF SaveUser, TypeOK
  <2>3. mixed' \in SUBSET Users
    BY <1>11, <2>1 DEF SaveUser, TypeOK
  <2>4. call' \in [Workers -> Call]
    BY <1>11, IdleCall DEF SaveUser, TypeOK
  <2> QED BY <1>11, <2>2, <2>3, <2>4 DEF SaveUser, counters, TypeOK
<1>12. ASSUME NEW w \in Workers, NEW super \in BOOLEAN, NEW active \in
   BOOLEAN, NEW gs \in SUBSET Roles, SaveForm(w, super, active, gs) PROVE
   TypeOK'
  <2> DEFINE x == [call[w].new EXCEPT !.super = super, !.active = active]
  <2>1. call[w].user \in Users /\ call[w].new \in UserRow
    BY <1>12, CallShape DEF SaveForm, TypeOK, WellFormed
  <2>2. x \in UserRow /\ x.name \in Names \cup {None}
    BY <2>1 DEF UserRow
  <2>3. [name |-> x.name, active |-> active, role |-> None] \in Asked
    BY <2>2 DEF Asked
  <2>4. user' \in [Users -> UserRow]
    BY <1>12, <2>2 DEF SaveForm, TypeOK
  <2>5. groups' \in [Users -> SUBSET Roles] /\ call' \in [Workers -> Call]
    BY <1>12, IdleCall DEF SaveForm, TypeOK
  <2>6. asked' \in [Users -> Asked]
    BY <1>12, <2>3 DEF SaveForm, TypeOK
  <2>7. made' \in SUBSET Users
    BY <1>12, <2>1 DEF SaveForm, TypeOK
  <2> QED BY <1>12, <2>4, <2>5, <2>6, <2>7 DEF SaveForm, counters, TypeOK
<1>13. ASSUME NEW w \in Workers, RefuseForm(w) PROVE TypeOK'
  BY <1>13, IdleCall DEF RefuseForm, TypeOK, Call, Idle, UserRow, NoUser,
     Asked, Nothing, ErasureRow, NoErasure, Roles, RoleInputs,
     RoleAsked, counters
<1>14. ASSUME NEW w \in Workers, NEW q \in Requests, InsertErasure(w, q)
   PROVE TypeOK'
  BY <1>14, IdleCall DEF InsertErasure, TypeOK, Call, Idle, UserRow, NoUser,
     Asked, Nothing, ErasureRow, NoErasure, Roles, RoleInputs,
     RoleAsked, counters
<1>15. ASSUME NEW w \in Workers, SaveReview(w) PROVE TypeOK'
  <2>1. call[w].next \in ErasureRow /\ call[w].req \in Requests
    BY <1>15, CallShape DEF SaveReview, TypeOK, WellFormed
  <2>2. call' \in [Workers -> Call]
    BY <1>15, IdleCall DEF SaveReview, TypeOK
  <2>3. erasure' \in [Requests -> ErasureRow] /\ UNCHANGED <<user, groups>>
    BY <1>15, <2>1 DEF SaveReview, Process, TypeOK
  <2>4. accepted' \in SUBSET Requests
    BY <1>15, <2>1 DEF SaveReview, TypeOK
  <2> QED BY <1>15, <2>2, <2>3, <2>4 DEF SaveReview, counters, TypeOK
<1>16. ASSUME NEW w \in Workers, Crash(w) PROVE TypeOK'
  BY <1>16, IdleCall DEF Crash, TypeOK, Call, Idle, UserRow, NoUser, Asked,
     Nothing, ErasureRow, NoErasure, Roles, RoleInputs,
     RoleAsked, counters
<1> QED
  BY <1>1, <1>2, <1>3, <1>4, <1>5, <1>6, <1>7, <1>8, <1>9, <1>10, <1>11,
     <1>12, <1>13, <1>14, <1>15, <1>16 DEF Next, Ask, Serve

\* Every step keeps the calls well formed.
LEMMA NextWellFormed ==
  ASSUME TypeOK, WellFormed, Next
  PROVE  WellFormed'
<1>1. ASSUME NEW w \in Workers, NEW u \in Users, NEW n \in Names, NEW role
   \in RoleInputs, CreateUser(w, u, n, role) PROVE WellFormed'
  BY <1>1 DEF CreateUser, BeginOn, Begin, Exists, Busy, Taken, WellFormed,
     TypeOK, Call, Idle, UserRow, NoUser, Asked, Nothing, ErasureRow,
     NoErasure, Roles, RoleInputs,
     RoleAsked, counters
<1>2. ASSUME NEW w \in Workers, NEW u \in Users, NEW n \in Names, NEW role
   \in Roles \cup {None}, NEW active \in BOOLEAN, UpdateUser(w, u, n, role,
   active) PROVE WellFormed'
  BY <1>2 DEF UpdateUser, BeginOn, Begin, Flags, Exists, WellFormed, TypeOK,
     Call, Idle, UserRow, NoUser, Asked, Nothing, ErasureRow, NoErasure,
     Roles, RoleInputs,
     RoleAsked, counters
<1>3. ASSUME NEW w \in Workers, NEW u \in Users, EnsureAdmin(w, u) PROVE
   WellFormed'
  BY <1>3 DEF EnsureAdmin, BeginOn, Begin, Flags, WellFormed, TypeOK, Call,
     Idle, UserRow, NoUser, Asked, Nothing, ErasureRow, NoErasure, Roles, RoleInputs,
     RoleAsked, counters
<1>4. ASSUME NEW w \in Workers, NEW u \in Users, CreateAdmin(w, u) PROVE
   WellFormed'
  BY <1>4 DEF CreateAdmin, BeginOn, Begin, WellFormed, TypeOK, Call, Idle,
     UserRow, NoUser, Asked, Nothing, ErasureRow, NoErasure, Roles, RoleInputs,
     RoleAsked, counters
<1>5. ASSUME NEW w \in Workers, NEW u \in Users, OpenForm(w, u) PROVE
   WellFormed'
  BY <1>5 DEF OpenForm, BeginOn, Begin, WellFormed, TypeOK, Call, Idle,
     UserRow, NoUser, Asked, Nothing, ErasureRow, NoErasure, Roles, RoleInputs,
     RoleAsked, counters
<1>6. ASSUME NEW w \in Workers, NEW u \in Users, AskErasure(w, u) PROVE
   WellFormed'
  BY <1>6 DEF AskErasure, Begin, WellFormed, TypeOK, Call, Idle, UserRow,
     NoUser, Asked, Nothing, ErasureRow, NoErasure, Roles, RoleInputs,
     RoleAsked, counters
<1>7. ASSUME NEW w \in Workers, NEW q \in Requests, NEW status \in
   {"pending", "denied", "processed"}, Review(w, q, status) PROVE
   WellFormed'
  BY <1>7 DEF Review, Begin, Reviewed, WellFormed, TypeOK, Call, Idle,
     UserRow, NoUser, Asked, Nothing, ErasureRow, NoErasure, Roles, RoleInputs,
     RoleAsked, counters
<1>8. ASSUME NEW w \in Workers, InsertUser(w) PROVE WellFormed'
  <2>1. /\ call[w].user \in Users /\ call[w].role \in RoleInputs
        /\ call[w] \in Call
    BY <1>8 DEF InsertUser, TypeOK, WellFormed
  <2>2. \A v \in Workers : v # w => call'[v] = call[v]
    BY <1>8 DEF InsertUser, TypeOK
  <2>3. \/ call'[w] = Idle
        \/ /\ call'[w].user = call[w].user /\ call'[w].role = call[w].role
           /\ call'[w].pc = "remove" /\ call[w].role \in Roles
    BY <1>8, <2>1 DEF InsertUser, TypeOK, Call, RoleInputs
  <2>4. Idle.pc = "idle"
    BY DEF Idle
  <2> QED BY <2>1, <2>2, <2>3, <2>4 DEF WellFormed
<1>9. ASSUME NEW w \in Workers, RemoveGroups(w) PROVE WellFormed'
  BY <1>9 DEF RemoveGroups, WellFormed, TypeOK, Call, Idle, UserRow, NoUser,
     Asked, Nothing, ErasureRow, NoErasure, Roles, RoleInputs,
     RoleAsked, counters
<1>10. ASSUME NEW w \in Workers, AddGroup(w) PROVE WellFormed'
  BY <1>10 DEF AddGroup, WellFormed, TypeOK, Call, Idle, UserRow, NoUser,
     Asked, Nothing, ErasureRow, NoErasure, Roles, RoleInputs,
     RoleAsked, counters
<1>11. ASSUME NEW w \in Workers, SaveUser(w) PROVE WellFormed'
  BY <1>11 DEF SaveUser, WellFormed, TypeOK, Call, Idle, UserRow, NoUser,
     Asked, Nothing, ErasureRow, NoErasure, Roles, RoleInputs,
     RoleAsked, counters
<1>12. ASSUME NEW w \in Workers, NEW super \in BOOLEAN, NEW active \in
   BOOLEAN, NEW gs \in SUBSET Roles, SaveForm(w, super, active, gs) PROVE
   WellFormed'
  BY <1>12 DEF SaveForm, WellFormed, TypeOK, Call, Idle, UserRow, NoUser,
     Asked, Nothing, ErasureRow, NoErasure, Roles, RoleInputs,
     RoleAsked, counters
<1>13. ASSUME NEW w \in Workers, RefuseForm(w) PROVE WellFormed'
  BY <1>13 DEF RefuseForm, WellFormed, TypeOK, Call, Idle, UserRow, NoUser,
     Asked, Nothing, ErasureRow, NoErasure, Roles, RoleInputs,
     RoleAsked, counters
<1>14. ASSUME NEW w \in Workers, NEW q \in Requests, InsertErasure(w, q)
   PROVE WellFormed'
  BY <1>14 DEF InsertErasure, WellFormed, TypeOK, Call, Idle, UserRow,
     NoUser, Asked, Nothing, ErasureRow, NoErasure, Roles, RoleInputs,
     RoleAsked, counters
<1>15. ASSUME NEW w \in Workers, SaveReview(w) PROVE WellFormed'
  BY <1>15 DEF SaveReview, Process, WellFormed, TypeOK, Call, Idle, UserRow,
     NoUser, Asked, Nothing, ErasureRow, NoErasure, Roles, RoleInputs,
     RoleAsked, counters
<1>16. ASSUME NEW w \in Workers, Crash(w) PROVE WellFormed'
  BY <1>16 DEF Crash, WellFormed, TypeOK, Call, Idle, UserRow, NoUser,
     Asked, Nothing, ErasureRow, NoErasure, Roles, RoleInputs,
     RoleAsked, counters
<1> QED
  BY <1>1, <1>2, <1>3, <1>4, <1>5, <1>6, <1>7, <1>8, <1>9, <1>10, <1>11,
     <1>12, <1>13, <1>14, <1>15, <1>16 DEF Next, Ask, Serve

\* Every step keeps the promotions.
LEMMA NextPromoted ==
  ASSUME TypeOK, WellFormed, Promoted, Next
  PROVE  Promoted'
<1>1. ASSUME NEW w \in Workers, NEW u \in Users, NEW n \in Names, NEW role
   \in RoleInputs, CreateUser(w, u, n, role) PROVE Promoted'
  BY <1>1 DEF CreateUser, BeginOn, Begin, Exists, Busy, Taken, Promoted,
     PrivilegeNeedsPromotion, TypeOK, Call, Idle, UserRow, NoUser, Asked,
     Nothing, ErasureRow, NoErasure, Roles, RoleInputs,
     RoleAsked, counters
<1>2. ASSUME NEW w \in Workers, NEW u \in Users, NEW n \in Names, NEW role
   \in Roles \cup {None}, NEW active \in BOOLEAN, UpdateUser(w, u, n, role,
   active) PROVE Promoted'
  BY <1>2 DEF UpdateUser, BeginOn, Begin, Flags, Exists, Promoted,
     PrivilegeNeedsPromotion, TypeOK, Call, Idle, UserRow, NoUser, Asked,
     Nothing, ErasureRow, NoErasure, Roles, RoleInputs,
     RoleAsked, counters
<1>3. ASSUME NEW w \in Workers, NEW u \in Users, EnsureAdmin(w, u) PROVE
   Promoted'
  BY <1>3 DEF EnsureAdmin, BeginOn, Begin, Flags, Promoted,
     PrivilegeNeedsPromotion, TypeOK, Call, Idle, UserRow, NoUser, Asked,
     Nothing, ErasureRow, NoErasure, Roles, RoleInputs,
     RoleAsked, counters
<1>4. ASSUME NEW w \in Workers, NEW u \in Users, CreateAdmin(w, u) PROVE
   Promoted'
  BY <1>4 DEF CreateAdmin, BeginOn, Begin, Promoted,
     PrivilegeNeedsPromotion, TypeOK, Call, Idle, UserRow, NoUser, Asked,
     Nothing, ErasureRow, NoErasure, Roles, RoleInputs,
     RoleAsked, counters
<1>5. ASSUME NEW w \in Workers, NEW u \in Users, OpenForm(w, u) PROVE
   Promoted'
  BY <1>5 DEF OpenForm, BeginOn, Begin, Promoted, PrivilegeNeedsPromotion,
     TypeOK, Call, Idle, UserRow, NoUser, Asked, Nothing, ErasureRow,
     NoErasure, Roles, RoleInputs,
     RoleAsked, counters
<1>6. ASSUME NEW w \in Workers, NEW u \in Users, AskErasure(w, u) PROVE
   Promoted'
  BY <1>6 DEF AskErasure, Begin, Promoted, PrivilegeNeedsPromotion, TypeOK,
     Call, Idle, UserRow, NoUser, Asked, Nothing, ErasureRow, NoErasure,
     Roles, RoleInputs,
     RoleAsked, counters
<1>7. ASSUME NEW w \in Workers, NEW q \in Requests, NEW status \in
   {"pending", "denied", "processed"}, Review(w, q, status) PROVE Promoted'
  BY <1>7 DEF Review, Begin, Reviewed, Promoted, PrivilegeNeedsPromotion,
     TypeOK, Call, Idle, UserRow, NoUser, Asked, Nothing, ErasureRow,
     NoErasure, Roles, RoleInputs,
     RoleAsked, counters
<1>8. ASSUME NEW w \in Workers, InsertUser(w) PROVE Promoted'
  <2> DEFINE u == call[w].user
             x == call[w].new
  <2>1. /\ u \in Users /\ x \in UserRow /\ call[w].role \in RoleInputs
        /\ call[w] \in Call
    BY <1>8, CallShape DEF InsertUser, TypeOK, WellFormed
  <2>2. made' = made /\ groups' = groups
    BY <1>8 DEF InsertUser
  <2>3. x.super \/ call[w].role = "administrator" => u \in made
    BY DEF Promoted
  <2>4. user' \in [Users -> UserRow] /\ \A v \in Users :
           user'[v].super => user[v].super \/ (v = u /\ x.super)
    BY <1>8, <2>1 DEF InsertUser, TypeOK
  <2>5. PrivilegeNeedsPromotion'
    BY <2>2, <2>3, <2>4 DEF Promoted, PrivilegeNeedsPromotion, RoleOf, Exists
  <2>6. \A v \in Workers : v # w => call'[v] = call[v]
    BY <1>8 DEF InsertUser, TypeOK
  <2>7. \/ call'[w] = Idle
        \/ /\ call'[w].user = u /\ call'[w].role = call[w].role
           /\ call'[w].new.super = (call[w].role = "administrator")
    BY <1>8, <2>1 DEF InsertUser, Flags, TypeOK, Call, UserRow
  <2> HIDE DEF u, x
  <2>8. \A v \in Workers :
           call'[v].new.super \/ call'[v].role = "administrator" =>
               call'[v].user \in made
    <3> SUFFICES ASSUME NEW v \in Workers,
                        call'[v].new.super \/ call'[v].role = "administrator"
                 PROVE  call'[v].user \in made
      OBVIOUS
    <3>1. CASE v # w
      BY <3>1, <2>6 DEF Promoted
    <3>2. CASE v = w
      BY <3>2, <2>3, <2>7, IdleCopies
    <3> QED BY <3>1, <3>2
  <2> QED BY <2>2, <2>5, <2>8 DEF Promoted
<1>9. ASSUME NEW w \in Workers, RemoveGroups(w) PROVE Promoted'
  <2>1. made' = made /\ user' = user
    BY <1>9 DEF RemoveGroups
  <2>2. \A v \in Users : groups'[v] = groups[v] \/ groups'[v] = {}
    BY <1>9 DEF RemoveGroups, TypeOK
  <2>3. PrivilegeNeedsPromotion'
    BY <2>1, <2>2 DEF Promoted, PrivilegeNeedsPromotion
  <2>4. \A v \in Workers :
           /\ call'[v].new = call[v].new /\ call'[v].role = call[v].role
           /\ call'[v].user = call[v].user
    BY <1>9 DEF RemoveGroups, TypeOK, Call
  <2> QED BY <2>1, <2>3, <2>4 DEF Promoted
<1>10. ASSUME NEW w \in Workers, AddGroup(w) PROVE Promoted'
  <2> DEFINE u == call[w].user
             r == call[w].role
  <2>1. u \in Users /\ r \in Roles
    BY <1>10 DEF AddGroup, WellFormed
  <2>2. made' = made /\ user' = user
    BY <1>10 DEF AddGroup
  <2>3. r = "administrator" => u \in made
    BY DEF Promoted
  <2>4. \A v \in Users :
           groups'[v] = groups[v] \/ (v = u /\ groups'[v] = groups[v] \cup {r})
    BY <1>10, <2>1 DEF AddGroup, TypeOK
  <2>5. PrivilegeNeedsPromotion'
    BY <2>2, <2>3, <2>4 DEF Promoted, PrivilegeNeedsPromotion
  <2>6. \A v \in Workers :
           \/ call'[v] = Idle
           \/ /\ call'[v].new = call[v].new /\ call'[v].role = call[v].role
              /\ call'[v].user = call[v].user
    BY <1>10 DEF AddGroup, TypeOK, Call
  <2> QED BY <2>2, <2>5, <2>6, IdleCopies DEF Promoted
<1>11. ASSUME NEW w \in Workers, SaveUser(w) PROVE Promoted'
  <2> DEFINE u == call[w].user
             x == call[w].new
  <2>1. u \in Users /\ x \in UserRow
    BY <1>11, CallShape DEF SaveUser, TypeOK, WellFormed
  <2>2. made' = made /\ groups' = groups
    BY <1>11 DEF SaveUser
  <2>3. x.super => u \in made
    BY DEF Promoted
  <2>4. \A v \in Users : user'[v].super => user[v].super \/ (v = u /\ x.super)
    BY <1>11, <2>1 DEF SaveUser, TypeOK
  <2>5. PrivilegeNeedsPromotion'
    BY <2>2, <2>3, <2>4 DEF Promoted, PrivilegeNeedsPromotion
  <2>6. \A v \in Workers : call'[v] = call[v] \/ call'[v] = Idle
    BY <1>11 DEF SaveUser, TypeOK
  <2> QED BY <2>2, <2>5, <2>6, IdleCopies DEF Promoted
<1>12. ASSUME NEW w \in Workers, NEW super \in BOOLEAN, NEW active \in
   BOOLEAN, NEW gs \in SUBSET Roles, SaveForm(w, super, active, gs) PROVE
   Promoted'
  <2> DEFINE u == call[w].user
  <2>1. u \in Users /\ call[w].new \in UserRow
    BY <1>12, CallShape DEF SaveForm, TypeOK, WellFormed
  <2>2. made \subseteq made' /\ (super \/ "administrator" \in gs => u \in made')
    BY <1>12 DEF SaveForm
  <2>3. \A v \in Users : user'[v].super => user[v].super \/ (v = u /\ super)
    BY <1>12, <2>1 DEF SaveForm, TypeOK, UserRow
  <2>4. \A v \in Users : groups'[v] = groups[v] \/ (v = u /\ groups'[v] = gs)
    BY <1>12, <2>1 DEF SaveForm, TypeOK
  <2>5. PrivilegeNeedsPromotion'
    BY <2>2, <2>3, <2>4 DEF Promoted, PrivilegeNeedsPromotion
  <2>6. \A v \in Workers : call'[v] = call[v] \/ call'[v] = Idle
    BY <1>12 DEF SaveForm, TypeOK
  <2> QED BY <2>2, <2>5, <2>6, IdleCopies DEF Promoted
<1>13. ASSUME NEW w \in Workers, RefuseForm(w) PROVE Promoted'
  BY <1>13 DEF RefuseForm, Promoted, PrivilegeNeedsPromotion, TypeOK, Call,
     Idle, UserRow, NoUser, Asked, Nothing, ErasureRow, NoErasure, Roles, RoleInputs,
     RoleAsked, counters
<1>14. ASSUME NEW w \in Workers, NEW q \in Requests, InsertErasure(w, q)
   PROVE Promoted'
  BY <1>14 DEF InsertErasure, Promoted, PrivilegeNeedsPromotion, TypeOK,
     Call, Idle, UserRow, NoUser, Asked, Nothing, ErasureRow, NoErasure,
     Roles, RoleInputs,
     RoleAsked, counters
<1>15. ASSUME NEW w \in Workers, SaveReview(w) PROVE Promoted'
  BY <1>15 DEF SaveReview, Process, Promoted, PrivilegeNeedsPromotion,
     TypeOK, Call, Idle, UserRow, NoUser, Asked, Nothing, ErasureRow,
     NoErasure, Roles, RoleInputs,
     RoleAsked, counters
<1>16. ASSUME NEW w \in Workers, Crash(w) PROVE Promoted'
  <2>1. made' = made /\ PrivilegeNeedsPromotion'
    BY <1>16 DEF Crash, Promoted, PrivilegeNeedsPromotion
  <2>2. \A v \in Workers : call'[v] = call[v] \/ call'[v] = Idle
    BY <1>16 DEF Crash, TypeOK
  <2> QED BY <2>1, <2>2, IdleCopies DEF Promoted
<1> QED
  BY <1>1, <1>2, <1>3, <1>4, <1>5, <1>6, <1>7, <1>8, <1>9, <1>10, <1>11,
     <1>12, <1>13, <1>14, <1>15, <1>16 DEF Next, Ask, Serve

LEMMA AccountNext == AccountInv /\ [Next]_vars => AccountInv'
<1> SUFFICES ASSUME AccountInv, [Next]_vars PROVE AccountInv'
  OBVIOUS
<1>1. CASE Next
  BY <1>1, NextTypes, NextWellFormed, NextPromoted DEF AccountInv
<1>2. CASE UNCHANGED vars
  BY <1>2 DEF vars, counters, AccountInv, TypeOK, WellFormed, Promoted,
              PrivilegeNeedsPromotion
<1> QED BY <1>1, <1>2

LEMMA AccountAlways == Spec => []AccountInv
  BY AccountInit, AccountNext, PTL DEF Spec

\* Values stay in their types.
THEOREM AccountTypeCorrect == Spec => []TypeOK
<1>1. AccountInv => TypeOK
  BY DEF AccountInv
<1> QED BY <1>1, AccountAlways, PTL

\* Nobody becomes an administrator unless a call or a form made that user one,
\* however the statements of calls interleave and wherever they stop.
THEOREM NoPrivilegeByAccident == Spec => []PrivilegeNeedsPromotion
<1>1. AccountInv => PrivilegeNeedsPromotion
  BY DEF AccountInv, Promoted
<1> QED BY <1>1, AccountAlways, PTL

-----------------------------------------------------------------------------
\* The statements of calls that change a user.
OfUser == {"insert", "remove", "add", "save", "form"}

\* A call that changes a user holds a row with a name, and after the INSERT the
\* user exists; the other calls hold no user.
CallsOnUsers ==
    \A w \in Workers :
        /\ call[w].pc \in OfUser => call[w].new.name # None
        /\ call[w].pc \notin OfUser => call[w].user = None
        /\ call[w].pc \in OfUser \ {"insert"} => Exists(call[w].user)

\* A user that is about to be inserted is the business of that call alone; no
\* role is asked for with one that is none.
InsertsAlone ==
    \A w \in Workers :
        call[w].pc = "insert" =>
            /\ ~Exists(call[w].user)
            /\ call[w].role = "other" => asked[call[w].user].role = None
            /\ \A v \in Workers : call[v].user = call[w].user => v = w

\* Between its two statements a change of groups leaves none, but another call
\* that comes in between brings its own.
RolesKept ==
    crashes = 0 =>
        \A u \in Users : Exists(u) /\ asked[u].role # None =>
            \/ groups[u] # {}
            \/ \E w \in Workers : call[w].user = u /\ call[w].pc \in {"remove", "add"}

\* The row x and the groups gs are as was asked for by k.
SettledAs(x, gs, k) ==
    /\ x.name = k.name
    /\ x.active = k.active
    /\ k.role # None => gs = {k.role} /\ (x.super <=> k.role = "administrator")

\* The only call on a user, c, has still to bring the row x and the groups gs to
\* what was asked for by k.
Underway(c, x, gs, k) ==
    /\ c.pc \in {"insert", "remove", "add", "save"} =>
          c.new.name = k.name /\ c.new.active = k.active
    /\ c.pc = "insert" => k.role = IF c.role = "other" THEN None ELSE c.role
    /\ c.pc \in {"remove", "add"} => c.role = k.role
    /\ c.pc = "insert" => x.name = None /\ c.saves
    /\ c.pc \in {"remove", "add"} =>
          /\ c.new.super <=> k.role = "administrator"
          /\ c.saves \/ x = c.new
    /\ c.pc = "add" => gs = {}
    /\ c.pc = "save" => SettledAs(c.new, gs, k)
    /\ c.pc = "form" => SettledAs(x, gs, k)

\* The calls on user u came one by one: at most one is being served, it is on
\* its way to what was asked for, and between the calls that is what there is.
SettlingOf(u) ==
    u \notin mixed =>
        /\ \A v, w \in Workers : call[v].user = u /\ call[w].user = u => v = w
        /\ \A w \in Workers : call[w].user = u =>
              Underway(call[w], user[u], groups[u], asked[u])
        /\ Exists(u) /\ ~Busy(u) => SettledAs(user[u], groups[u], asked[u])

Settling == \A u \in Users : SettlingOf(u)

SettleInv == AccountInv /\ CallsOnUsers /\ InsertsAlone /\ RolesKept /\ Settling

LEMMA SettleInit == Init => SettleInv
<1> SUFFICES ASSUME Init PROVE SettleInv
  OBVIOUS
<1>1. CallsOnUsers
  BY DEF Init, CallsOnUsers, Idle, OfUser
<1>2. RolesKept
  BY DEF Init, RolesKept, Nothing
<1>3. Settling
  BY DEF Init, Settling, SettlingOf, Idle, NoUser, Exists
<1>4. InsertsAlone
  BY DEF Init, InsertsAlone, Idle
<1> QED BY <1>1, <1>2, <1>3, <1>4, AccountInit DEF SettleInv

\* What the start of call c makes of what was asked for before.
Asking(c, k) == [name |-> c.new.name, active |-> c.new.active,
                 role |-> IF c.role = "other" THEN None
                          ELSE IF c.role = None THEN k.role ELSE c.role]

\* What the start of a call does to the history.
LEMMA BeginOnEffect ==
  ASSUME TypeOK, CallsOnUsers, NEW u \in Users, NEW w \in Workers, NEW c \in Call,
         BeginOn(u, w, c)
  PROVE  /\ call[w].user = None /\ call'[w].user = u
         /\ call'[w].pc = c.pc /\ call'[w].new = c.new
         /\ call'[w].role = c.role /\ call'[w].saves = c.saves
         /\ \A v \in Workers : v # w => call'[v] = call[v]
         /\ \A v \in Users : v # u => asked'[v] = asked[v]
         /\ asked'[u] = Asking(c, asked[u])
         /\ mixed \subseteq mixed' /\ (u \notin mixed' => ~Busy(u))
         /\ crashes' = crashes
<1>1. call[w].pc = "idle" /\ call' = [call EXCEPT ![w] = [c EXCEPT !.user = u]]
      /\ crashes' = crashes
  BY DEF BeginOn, Begin
<1>2. call[w].user = None
  BY <1>1 DEF CallsOnUsers, OfUser
<1>3. call'[w] = [c EXCEPT !.user = u] /\ \A v \in Workers : v # w => call'[v] = call[v]
  BY <1>1 DEF TypeOK
<1>4. /\ [c EXCEPT !.user = u].user = u /\ [c EXCEPT !.user = u].pc = c.pc
      /\ [c EXCEPT !.user = u].new = c.new /\ [c EXCEPT !.user = u].role = c.role
      /\ [c EXCEPT !.user = u].saves = c.saves
  BY DEF Call
<1>5. /\ \A v \in Users : v # u => asked'[v] = asked[v]
      /\ asked'[u] = Asking(c, asked[u])
  BY DEF BeginOn, Asking, RoleAsked, TypeOK
<1>6. mixed \subseteq mixed' /\ (u \notin mixed' => ~Busy(u))
  BY DEF BeginOn
<1> QED BY <1>1, <1>2, <1>3, <1>4, <1>5, <1>6

\* The calls that change a user, and where their start leaves the user.
LEMMA StartOnUser ==
  ASSUME TypeOK, NEW w \in Workers, NEW u \in Users,
         \/ \E n \in Names, role \in RoleInputs : CreateUser(w, u, n, role)
         \/ \E n \in Names, role \in Roles \cup {None}, active \in BOOLEAN :
               UpdateUser(w, u, n, role, active)
         \/ EnsureAdmin(w, u) \/ CreateAdmin(w, u) \/ OpenForm(w, u)
  PROVE  \E c \in Call :
            /\ BeginOn(u, w, c)
            /\ c.pc \in OfUser /\ c.new.name # None
            /\ c.pc # "insert" <=> user'[u].name # None
            /\ c.role # None => c.pc \in {"insert", "remove"}
            /\ c.role = "other" => c.pc = "insert"
            /\ c.pc = "insert" => ~Exists(u)
            /\ Exists(u) \/ (c.role # None /\ ~Busy(u))
            /\ \A v \in Users : v # u \/ Exists(u) => user'[v] = user[v]
            /\ groups' = groups
            /\ (Exists(u) => SettledAs(user[u], groups[u], asked[u])) =>
                  Underway(c, user'[u], groups[u], Asking(c, asked[u]))
<1>0. Idle \in Call /\ user[u] \in UserRow /\ asked[u] \in Asked
  BY IdleCall DEF TypeOK
<1>1. CASE \E n \in Names, role \in RoleInputs : CreateUser(w, u, n, role)
  <2> PICK n \in Names, role \in RoleInputs : CreateUser(w, u, n, role)
    BY <1>1
  <2> DEFINE x == [name |-> n, super |-> FALSE, active |-> TRUE]
             c == [Idle EXCEPT !.pc = "insert", !.role = role, !.saves = TRUE, !.new = x]
  <2>1. x \in UserRow
    BY DEF UserRow
  <2>2. c \in Call /\ c.pc = "insert" /\ c.role = role /\ c.saves /\ c.new = x
    BY <2>1 DEF Idle, Call, NoErasure, ErasureRow, Roles, RoleInputs
  <2>3. BeginOn(u, w, c) /\ user' = user /\ groups' = groups /\ ~Exists(u) /\ ~Busy(u)
    BY DEF CreateUser
  <2>4. x.name = n /\ x.name # None
    OBVIOUS
  <2> HIDE DEF c, x
  <2>5. role # None
    BY DEF Roles, RoleInputs
  <2>6. Underway(c, user[u], groups[u], Asking(c, asked[u]))
    BY <2>2, <2>3, <2>5 DEF Underway, Asking, Exists
  <2> QED BY <2>2, <2>3, <2>4, <2>5, <2>6 DEF OfUser, Exists
<1>2. CASE \E n \in Names, role \in Roles \cup {None}, active \in BOOLEAN :
              UpdateUser(w, u, n, role, active)
  <2> PICK n \in Names, role \in Roles \cup {None}, active \in BOOLEAN :
              UpdateUser(w, u, n, role, active)
    BY <1>2
  <2> DEFINE x == [user[u] EXCEPT !.name = n, !.active = active]
             c == IF role = None
                  THEN [Idle EXCEPT !.pc = "save", !.new = x, !.saves = TRUE]
                  ELSE [Idle EXCEPT !.pc = "remove", !.new = Flags(x, role),
                                    !.role = role, !.saves = TRUE]
  <2>0. role # "other" /\ None # "other"
    BY DEF Roles
  <2>1. x \in UserRow /\ x.name # None /\ x.super = user[u].super
    BY <1>0 DEF UserRow
  <2>2. BeginOn(u, w, c) /\ user' = user /\ groups' = groups /\ Exists(u)
    BY DEF UpdateUser
  <2> HIDE DEF x
  <2>3. role # None =>
           /\ Flags(x, role) \in UserRow /\ Flags(x, role).name = x.name
           /\ Flags(x, role).active = x.active
           /\ Flags(x, role).super <=> role = "administrator"
    BY <2>1 DEF UserRow, Flags
  <2>4. c \in Call
    BY <2>1, <2>3 DEF Idle, Call, NoErasure, ErasureRow, Roles, RoleInputs
  <2>5. /\ role = None => c.pc = "save" /\ c.new = x /\ c.role = None
        /\ role # None => /\ c.pc = "remove" /\ c.new = Flags(x, role)
                          /\ c.role = role /\ c.saves
    BY DEF Idle
  <2> HIDE DEF c
  <2>6. ASSUME SettledAs(user[u], groups[u], asked[u])
        PROVE  Underway(c, user[u], groups[u], Asking(c, asked[u]))
    BY <2>0, <2>1, <2>3, <2>5, <2>6 DEF Underway, Asking, SettledAs
  <2>7. /\ c.pc \in OfUser /\ c.new.name # None /\ c.pc # "insert"
        /\ c.role # "other" /\ (c.role # None => c.pc = "remove")
    BY <2>0, <2>1, <2>3, <2>5 DEF OfUser
  <2> QED BY <2>2, <2>4, <2>5, <2>6, <2>7 DEF Exists
<1>3. CASE EnsureAdmin(w, u)
  <2> PICK saves \in BOOLEAN :
         /\ saves \/ user[u].super
         /\ BeginOn(u, w, [Idle EXCEPT !.pc = "remove", !.role = "administrator",
                               !.saves = saves,
                               !.new = Flags(user[u], "administrator")])
    BY <1>3 DEF EnsureAdmin
  <2> DEFINE x == Flags(user[u], "administrator")
             c == [Idle EXCEPT !.pc = "remove", !.role = "administrator",
                    !.saves = saves, !.new = x]
  <2>1. /\ x \in UserRow /\ x.name = user[u].name /\ x.active = user[u].active
        /\ x.super = TRUE
    BY <1>0 DEF UserRow, Flags
  <2>2. BeginOn(u, w, c) /\ user' = user /\ groups' = groups /\ Exists(u)
    BY <1>3 DEF EnsureAdmin, Exists
  <2>3. user[u].super => x = user[u]
    BY <1>0 DEF UserRow, Flags
  <2> HIDE DEF x
  <2>4. /\ c \in Call /\ c.pc = "remove" /\ c.role = "administrator" /\ c.new = x
        /\ c.saves \/ user[u].super
    BY <1>0, <2>1 DEF Idle, Call, NoErasure, ErasureRow, Roles, RoleInputs, UserRow
  <2> HIDE DEF c
  <2>5. Underway(c, user[u], groups[u], Asking(c, asked[u]))
    BY <2>1, <2>3, <2>4 DEF Underway, Asking
  <2> QED BY <2>1, <2>2, <2>4, <2>5 DEF Exists, OfUser
<1>4. CASE CreateAdmin(w, u)
  <2> DEFINE x == [name |-> AdminName, super |-> TRUE, active |-> TRUE]
             c == [Idle EXCEPT !.pc = "remove", !.role = "administrator",
                    !.saves = TRUE, !.new = x]
  <2>1. x \in UserRow /\ x.super = TRUE /\ x.name # None
    BY DEF UserRow
  <2>2. BeginOn(u, w, c) /\ groups' = groups /\ ~Exists(u) /\ ~Busy(u)
    BY <1>4 DEF CreateAdmin
  <2>3. user'[u] = x /\ \A v \in Users : v # u => user'[v] = user[v]
    BY <1>4 DEF CreateAdmin, TypeOK
  <2> HIDE DEF x
  <2>4. /\ c \in Call /\ c.pc = "remove" /\ c.role = "administrator" /\ c.new = x
        /\ c.saves
    BY <1>0, <2>1 DEF Idle, Call, NoErasure, ErasureRow, Roles, RoleInputs, UserRow
  <2> HIDE DEF c
  <2>5. Underway(c, user'[u], groups[u], Asking(c, asked[u]))
    BY <2>1, <2>3, <2>4 DEF Underway, Asking
  <2> QED BY <2>1, <2>2, <2>3, <2>4, <2>5 DEF Exists, OfUser
<1>5. CASE OpenForm(w, u)
  <2> DEFINE c == [Idle EXCEPT !.pc = "form", !.new = user[u]]
  <2>1. BeginOn(u, w, c) /\ user' = user /\ groups' = groups /\ Exists(u)
    BY <1>5 DEF OpenForm
  <2>2. c \in Call /\ c.pc = "form" /\ c.role = None /\ c.new = user[u]
    BY <1>0 DEF Idle, Call, NoErasure, ErasureRow, Roles, RoleInputs
  <2> HIDE DEF c
  <2>3. ASSUME SettledAs(user[u], groups[u], asked[u])
        PROVE  Underway(c, user[u], groups[u], Asking(c, asked[u]))
    BY <2>2, <2>3 DEF Underway, Asking, SettledAs
  <2> QED BY <2>1, <2>2, <2>3 DEF Exists, OfUser
<1> QED BY <1>1, <1>2, <1>3, <1>4, <1>5

\* The statements of the calls that change a user, one by one.
LEMMA InsertEffect ==
  ASSUME TypeOK, WellFormed, NEW w \in Workers, InsertUser(w)
  PROVE  /\ call[w].user \in Users /\ call[w].pc = "insert"
         /\ \A v \in Workers : v # w => call'[v] = call[v]
         /\ groups' = groups /\ asked' = asked /\ mixed' = mixed
         /\ crashes' = crashes
         /\ \A u \in Users : u # call[w].user => user'[u] = user[u]
         /\ \/ call'[w] = Idle /\ user' = user
            \/ /\ call'[w] = Idle /\ user'[call[w].user] = call[w].new
               /\ call[w].role = "other"
            \/ /\ user'[call[w].user] = call[w].new /\ call[w].role # "other"
               /\ call'[w].user = call[w].user /\ call'[w].pc = "remove"
               /\ call'[w].role = call[w].role /\ call'[w].saves = call[w].saves
               /\ call'[w].new.name = call[w].new.name
               /\ call'[w].new.active = call[w].new.active
               /\ call'[w].new.super <=> call[w].role = "administrator"
<1> DEFINE u == call[w].user
           x == call[w].new
           c == [call[w] EXCEPT !.pc = "remove", !.new = Flags(x, call[w].role)]
<1>1. call[w] \in Call /\ x \in UserRow /\ u \in Users /\ call[w].pc = "insert"
  BY CallShape DEF InsertUser, TypeOK, WellFormed
<1>2. /\ Flags(x, call[w].role).name = x.name
      /\ Flags(x, call[w].role).active = x.active
      /\ Flags(x, call[w].role).super <=> call[w].role = "administrator"
  BY <1>1 DEF Flags, UserRow
<1>3. /\ c.user = u /\ c.pc = "remove" /\ c.role = call[w].role
      /\ c.saves = call[w].saves /\ c.new = Flags(x, call[w].role)
  BY <1>1 DEF Call
<1>4. \/ call' = [call EXCEPT ![w] = Idle] /\ user' = user
      \/ /\ call' = [call EXCEPT ![w] = Idle] /\ user' = [user EXCEPT ![u] = x]
         /\ call[w].role = "other"
      \/ /\ user' = [user EXCEPT ![u] = x] /\ call' = [call EXCEPT ![w] = c]
         /\ call[w].role # "other"
  BY DEF InsertUser
<1>5. /\ groups' = groups /\ asked' = asked /\ mixed' = mixed
      /\ crashes' = crashes
  BY DEF InsertUser, counters
<1> HIDE DEF c, x, u
<1>6. \A v \in Workers : v # w => call'[v] = call[v]
  BY <1>4 DEF TypeOK
<1>7. CASE call' = [call EXCEPT ![w] = Idle] /\ user' = user
  BY <1>1, <1>5, <1>6, <1>7 DEF TypeOK, u
<1>8. CASE /\ user' = [user EXCEPT ![u] = x] /\ call' = [call EXCEPT ![w] = c]
           /\ call[w].role # "other"
  <2>1. /\ call'[w] = c /\ user'[u] = x
        /\ \A v \in Users : v # u => user'[v] = user[v]
    BY <1>1, <1>8 DEF TypeOK
  <2> QED BY <1>1, <1>2, <1>3, <1>5, <1>6, <1>8, <2>1 DEF u, x
<1>9. CASE /\ call' = [call EXCEPT ![w] = Idle] /\ user' = [user EXCEPT ![u] = x]
           /\ call[w].role = "other"
  <2>1. /\ call'[w] = Idle /\ user'[u] = x
        /\ \A v \in Users : v # u => user'[v] = user[v]
    BY <1>1, <1>9 DEF TypeOK
  <2> QED BY <1>1, <1>5, <1>6, <1>9, <2>1 DEF u, x
<1> QED BY <1>4, <1>7, <1>8, <1>9

LEMMA GroupsEffect ==
  ASSUME TypeOK, WellFormed, NEW w \in Workers, RemoveGroups(w) \/ AddGroup(w)
  PROVE  /\ call[w].user \in Users /\ call[w].role \in Roles
         /\ \A v \in Workers : v # w => call'[v] = call[v]
         /\ \A u \in Users : u # call[w].user => groups'[u] = groups[u]
         /\ user' = user /\ asked' = asked /\ mixed' = mixed
         /\ crashes' = crashes
         /\ \/ /\ call[w].pc = "remove" /\ groups'[call[w].user] = {}
               /\ call'[w].pc = "add" /\ call'[w].user = call[w].user
               /\ call'[w].role = call[w].role /\ call'[w].saves = call[w].saves
               /\ call'[w].new = call[w].new
            \/ /\ call[w].pc = "add"
               /\ groups'[call[w].user] = groups[call[w].user] \cup {call[w].role}
               /\ ~call[w].saves /\ call'[w] = Idle
            \/ /\ call[w].pc = "add"
               /\ groups'[call[w].user] = groups[call[w].user] \cup {call[w].role}
               /\ call'[w].pc = "save" /\ call'[w].user = call[w].user
               /\ call'[w].new = call[w].new
<1>1. call[w] \in Call /\ call[w].user \in Users /\ call[w].role \in Roles
  BY DEF RemoveGroups, AddGroup, TypeOK, WellFormed
<1>2. \A v \in Workers : v # w => call'[v] = call[v]
  BY DEF RemoveGroups, AddGroup, TypeOK
<1>3. \A u \in Users : u # call[w].user => groups'[u] = groups[u]
  BY DEF RemoveGroups, AddGroup, TypeOK
<1>4. user' = user /\ asked' = asked /\ mixed' = mixed /\ crashes' = crashes
  BY DEF RemoveGroups, AddGroup, counters
<1>5. CASE RemoveGroups(w)
  <2> DEFINE c == [call[w] EXCEPT !.pc = "add"]
  <2>1. /\ c.pc = "add" /\ c.user = call[w].user /\ c.role = call[w].role
        /\ c.saves = call[w].saves /\ c.new = call[w].new
    BY <1>1 DEF Call
  <2>2. call' = [call EXCEPT ![w] = c]
    BY <1>5 DEF RemoveGroups
  <2> HIDE DEF c
  <2>3. call'[w] = c
    BY <2>2 DEF TypeOK
  <2>4. call[w].pc = "remove" /\ groups'[call[w].user] = {}
    BY <1>1, <1>5 DEF RemoveGroups, TypeOK
  <2> QED BY <1>1, <1>2, <1>3, <1>4, <2>1, <2>3, <2>4
<1>6. CASE AddGroup(w)
  <2> DEFINE c == [call[w] EXCEPT !.pc = "save"]
  <2>1. c.pc = "save" /\ c.user = call[w].user /\ c.new = call[w].new
    BY <1>1 DEF Call
  <2>2. call' = [call EXCEPT ![w] = IF call[w].saves THEN c ELSE Idle]
    BY <1>6 DEF AddGroup
  <2> HIDE DEF c
  <2>3. call'[w] = IF call[w].saves THEN c ELSE Idle
    BY <2>2 DEF TypeOK
  <2>4. /\ call[w].pc = "add"
        /\ groups'[call[w].user] = groups[call[w].user] \cup {call[w].role}
    BY <1>1, <1>6 DEF AddGroup, TypeOK
  <2> QED BY <1>1, <1>2, <1>3, <1>4, <2>1, <2>3, <2>4
<1> QED BY <1>5, <1>6

LEMMA SaveEffect ==
  ASSUME TypeOK, WellFormed, NEW w \in Workers, SaveUser(w)
  PROVE  /\ call[w].user \in Users /\ call[w].pc = "save" /\ call'[w] = Idle
         /\ \A v \in Workers : v # w => call'[v] = call[v]
         /\ \A u \in Users : u # call[w].user => user'[u] = user[u]
         /\ groups' = groups /\ asked' = asked /\ mixed \subseteq mixed'
         /\ crashes' = crashes
         /\ \/ user'[call[w].user] = call[w].new
            \/ user' = user /\ call[w].user \in mixed'
<1>1. call[w].user \in Users /\ call[w].pc = "save"
  BY DEF SaveUser, WellFormed
<1>2. call'[w] = Idle /\ \A v \in Workers : v # w => call'[v] = call[v]
  BY DEF SaveUser, TypeOK
<1>3. /\ groups' = groups /\ asked' = asked /\ mixed \subseteq mixed'
      /\ crashes' = crashes
  BY DEF SaveUser, counters
<1>4. /\ \A u \in Users : u # call[w].user => user'[u] = user[u]
      /\ \/ user'[call[w].user] = call[w].new
         \/ user' = user /\ call[w].user \in mixed'
  BY <1>1 DEF SaveUser, TypeOK
<1> QED BY <1>1, <1>2, <1>3, <1>4

LEMMA FormEffect ==
  ASSUME TypeOK, WellFormed, NEW w \in Workers, NEW super \in BOOLEAN,
         NEW active \in BOOLEAN, NEW gs \in SUBSET Roles,
         SaveForm(w, super, active, gs)
  PROVE  /\ call[w].user \in Users /\ call[w].pc = "form" /\ call'[w] = Idle
         /\ \A v \in Workers : v # w => call'[v] = call[v]
         /\ \A u \in Users : u # call[w].user =>
               /\ user'[u] = user[u] /\ groups'[u] = groups[u]
               /\ asked'[u] = asked[u]
         /\ asked'[call[w].user].role = None
         /\ user'[call[w].user].name = call[w].new.name
         /\ SettledAs(user'[call[w].user], groups'[call[w].user],
                      asked'[call[w].user])
         /\ mixed' = mixed /\ crashes' = crashes
<1> DEFINE u == call[w].user
           x == [call[w].new EXCEPT !.super = super, !.active = active]
           k == [name |-> x.name, active |-> active, role |-> None]
<1>1. call[w].new \in UserRow /\ u \in Users /\ call[w].pc = "form"
  BY CallShape DEF SaveForm, TypeOK, WellFormed
<1>2. x.name = call[w].new.name /\ x.active = active
  BY <1>1 DEF UserRow
<1>3. k.name = x.name /\ k.active = active /\ k.role = None
  OBVIOUS
<1>4. /\ user' = [user EXCEPT ![u] = x] /\ groups' = [groups EXCEPT ![u] = gs]
      /\ asked' = [asked EXCEPT ![u] = k] /\ call' = [call EXCEPT ![w] = Idle]
      /\ mixed' = mixed /\ crashes' = crashes
  BY DEF SaveForm, counters
<1> HIDE DEF x, k
<1>5. user'[u] = x /\ asked'[u] = k /\ call'[w] = Idle
  BY <1>1, <1>4 DEF TypeOK
<1>6. /\ \A v \in Workers : v # w => call'[v] = call[v]
      /\ \A v \in Users : v # u =>
            user'[v] = user[v] /\ groups'[v] = groups[v] /\ asked'[v] = asked[v]
  BY <1>4 DEF TypeOK
<1> QED BY <1>1, <1>2, <1>3, <1>4, <1>5, <1>6 DEF SettledAs

\* The ways for a call to end that change no user.
LEMMA EndEffect ==
  ASSUME TypeOK, WellFormed, NEW w \in Workers,
         RefuseForm(w) \/ (\E q \in Requests : InsertErasure(w, q))
             \/ SaveReview(w) \/ Crash(w)
  PROVE  /\ call'[w] = Idle /\ \A v \in Workers : v # w => call'[v] = call[v]
         /\ user' = user /\ groups' = groups /\ asked' = asked
         /\ mixed \subseteq mixed'
         /\ \/ call[w].pc = "form" /\ crashes' = crashes
            \/ call[w].pc \in {"ask", "review"} /\ crashes' = crashes
            \/ /\ call[w].user = None \/ call[w].user \in mixed'
               /\ crashes' = crashes + 1
<1>1. call'[w] = Idle /\ \A v \in Workers : v # w => call'[v] = call[v]
  BY DEF RefuseForm, InsertErasure, SaveReview, Crash, TypeOK
<1>2. CASE RefuseForm(w)
  BY <1>1, <1>2 DEF RefuseForm, counters
<1>3. CASE \E q \in Requests : InsertErasure(w, q)
  BY <1>1, <1>3 DEF InsertErasure, counters
<1>4. CASE SaveReview(w)
  BY <1>1, <1>4 DEF SaveReview, Process, counters
<1>5. CASE Crash(w)
  BY <1>1, <1>5 DEF Crash
<1> QED BY <1>2, <1>3, <1>4, <1>5

\* A request to be erased, or the review of one, starts.
LEMMA StartElsewhere ==
  ASSUME TypeOK, NEW w \in Workers,
         \/ \E u \in Users : AskErasure(w, u)
         \/ \E q \in Requests, status \in {"pending", "denied", "processed"} :
               Review(w, q, status)
  PROVE  /\ call[w].pc = "idle" /\ call'[w].pc \in {"ask", "review"}
         /\ call'[w].user = None
         /\ \A v \in Workers : v # w => call'[v] = call[v]
         /\ user' = user /\ groups' = groups /\ asked' = asked
         /\ mixed' = mixed /\ crashes' = crashes
<1>1. CASE \E u \in Users : AskErasure(w, u)
  <2> PICK u \in Users : AskErasure(w, u)
    BY <1>1
  <2> DEFINE c == [Idle EXCEPT !.pc = "ask",
                     !.next = [user |-> u, status |-> "pending", decided |-> FALSE]]
  <2>1. c.pc = "ask" /\ c.user = None
    BY DEF Idle
  <2>2. /\ call[w].pc = "idle" /\ call' = [call EXCEPT ![w] = c]
        /\ user' = user /\ groups' = groups /\ asked' = asked
        /\ mixed' = mixed /\ crashes' = crashes
    BY DEF AskErasure, Begin
  <2> HIDE DEF c
  <2>3. call'[w] = c /\ \A v \in Workers : v # w => call'[v] = call[v]
    BY <2>2 DEF TypeOK
  <2> QED BY <2>1, <2>2, <2>3
<1>2. CASE \E q \in Requests, status \in {"pending", "denied", "processed"} :
              Review(w, q, status)
  <2> PICK q \in Requests, status \in {"pending", "denied", "processed"} :
              Review(w, q, status)
    BY <1>2
  <2> DEFINE c == [Idle EXCEPT !.pc = "review", !.req = q,
                     !.next = Reviewed(erasure[q], status)]
  <2>1. c.pc = "review" /\ c.user = None
    BY DEF Idle
  <2>2. /\ call[w].pc = "idle" /\ call' = [call EXCEPT ![w] = c]
        /\ user' = user /\ groups' = groups /\ asked' = asked
        /\ mixed' = mixed /\ crashes' = crashes
    BY DEF Review, Begin
  <2> HIDE DEF c
  <2>3. call'[w] = c /\ \A v \in Workers : v # w => call'[v] = call[v]
    BY <2>2 DEF TypeOK
  <2> QED BY <2>1, <2>2, <2>3
<1> QED BY <1>1, <1>2

\* A worker takes a call that changes user u.
StartsOn(w, u) ==
    \/ \E n \in Names, role \in RoleInputs : CreateUser(w, u, n, role)
    \/ \E n \in Names, role \in Roles \cup {None}, active \in BOOLEAN :
          UpdateUser(w, u, n, role, active)
    \/ EnsureAdmin(w, u) \/ CreateAdmin(w, u) \/ OpenForm(w, u)

\* A worker takes a call that changes no user.
StartsElsewhere(w) ==
    \/ \E u \in Users : AskErasure(w, u)
    \/ \E q \in Requests, status \in {"pending", "denied", "processed"} :
          Review(w, q, status)

\* A call ends and has changed no user.
Ends(w) ==
    \/ RefuseForm(w) \/ (\E q \in Requests : InsertErasure(w, q))
    \/ SaveReview(w) \/ Crash(w)

LEMMA NextCases ==
  ASSUME Next
  PROVE  \E w \in Workers :
            \/ \E u \in Users : StartsOn(w, u)
            \/ StartsElsewhere(w)
            \/ InsertUser(w)
            \/ RemoveGroups(w) \/ AddGroup(w)
            \/ SaveUser(w)
            \/ \E super \in BOOLEAN, active \in BOOLEAN, gs \in SUBSET Roles :
                  SaveForm(w, super, active, gs)
            \/ Ends(w)
<1> PICK w \in Workers : Ask(w) \/ Serve(w) \/ Crash(w)
  BY DEF Next
<1>1. CASE Ask(w)
  BY <1>1 DEF Ask, StartsOn, StartsElsewhere
<1>2. CASE Serve(w) \/ Crash(w)
  BY <1>2 DEF Serve, Ends
<1> QED BY <1>1, <1>2

LEMMA IdleUser == Idle.pc = "idle" /\ Idle.user = None
  BY DEF Idle

\* Every step keeps the calls on users.
LEMMA NextCallsOnUsers ==
  ASSUME TypeOK, WellFormed, CallsOnUsers, Next
  PROVE  CallsOnUsers'
<1> PICK w \in Workers :
            \/ \E u \in Users : StartsOn(w, u)
            \/ StartsElsewhere(w)
            \/ InsertUser(w)
            \/ RemoveGroups(w) \/ AddGroup(w)
            \/ SaveUser(w)
            \/ \E super \in BOOLEAN, active \in BOOLEAN, gs \in SUBSET Roles :
                  SaveForm(w, super, active, gs)
            \/ Ends(w)
  BY NextCases
<1>1. SUFFICES
        /\ \A v \in Workers : v # w => call'[v] = call[v]
        /\ \A u \in Users : user[u].name # None => user'[u].name # None
        /\ call'[w].pc \in OfUser => call'[w].new.name # None
        /\ call'[w].pc \notin OfUser => call'[w].user = None
        /\ call'[w].pc \in OfUser \ {"insert"} => user'[call'[w].user].name # None
  <2> SUFFICES ASSUME NEW v \in Workers
               PROVE  /\ call'[v].pc \in OfUser => call'[v].new.name # None
                      /\ call'[v].pc \notin OfUser => call'[v].user = None
                      /\ call'[v].pc \in OfUser \ {"insert"} =>
                            user'[call'[v].user].name # None
    BY DEF CallsOnUsers, Exists
  <2>1. CASE v = w
    BY <1>1, <2>1
  <2>2. CASE v # w
    <3>1. call'[v] = call[v]
      BY <1>1, <2>2
    <3>2. call[v].pc \in OfUser => call[v].user \in Users
      BY DEF OfUser, WellFormed
    <3> QED BY <1>1, <3>1, <3>2 DEF CallsOnUsers, Exists
  <2> QED BY <2>1, <2>2
<1>2. /\ call[w].pc \in OfUser => call[w].new.name # None
      /\ call[w].pc \in OfUser \ {"insert"} => user[call[w].user].name # None
  BY DEF CallsOnUsers, Exists
<1>3. ASSUME NEW u \in Users, StartsOn(w, u) PROVE
        /\ \A v \in Workers : v # w => call'[v] = call[v]
        /\ \A v \in Users : user[v].name # None => user'[v].name # None
        /\ call'[w].pc \in OfUser => call'[w].new.name # None
        /\ call'[w].pc \notin OfUser => call'[w].user = None
        /\ call'[w].pc \in OfUser \ {"insert"} => user'[call'[w].user].name # None
  <2> PICK c \in Call :
         /\ BeginOn(u, w, c)
         /\ c.pc \in OfUser /\ c.new.name # None
         /\ c.pc # "insert" => user'[u].name # None
         /\ \A v \in Users : v # u \/ Exists(u) => user'[v] = user[v]
    BY <1>3, StartOnUser DEF StartsOn
  <2> QED BY BeginOnEffect DEF Exists
<1>4. CASE StartsElsewhere(w)
  BY <1>4, StartElsewhere DEF StartsElsewhere, OfUser
<1>5. CASE InsertUser(w)
  BY <1>2, <1>5, InsertEffect, IdleUser DEF OfUser
<1>6. CASE RemoveGroups(w) \/ AddGroup(w)
  BY <1>2, <1>6, GroupsEffect, IdleUser DEF OfUser
<1>7. CASE SaveUser(w)
  BY <1>2, <1>7, SaveEffect, IdleUser DEF OfUser
<1>8. ASSUME NEW super \in BOOLEAN, NEW active \in BOOLEAN, NEW gs \in SUBSET Roles,
             SaveForm(w, super, active, gs) PROVE
        /\ \A v \in Workers : v # w => call'[v] = call[v]
        /\ \A v \in Users : user[v].name # None => user'[v].name # None
        /\ call'[w].pc \notin OfUser /\ call'[w].user = None
  BY <1>2, <1>8, FormEffect, IdleUser DEF OfUser
<1>9. CASE Ends(w)
  BY <1>9, EndEffect, IdleUser DEF OfUser, Ends
<1> QED BY <1>3, <1>4, <1>5, <1>6, <1>7, <1>8, <1>9

\* A step of a call that touches its own user only.
LEMMA InsertsUntouched ==
  ASSUME WellFormed, InsertsAlone, NEW w \in Workers,
         \A v \in Workers : v # w => call'[v] = call[v],
         \A u \in Users : u # call[w].user =>
            user'[u] = user[u] /\ asked'[u] = asked[u],
         call'[w].pc # "insert", call'[w].user \in {call[w].user, None}
  PROVE  InsertsAlone'
<1> SUFFICES ASSUME NEW v \in Workers, call'[v].pc = "insert"
             PROVE  /\ user'[call'[v].user].name = None
                    /\ call'[v].role = "other" => asked'[call'[v].user].role = None
                    /\ \A x \in Workers : call'[x].user = call'[v].user => x = v
  BY DEF InsertsAlone, Exists
<1>1. v # w /\ call'[v] = call[v]
  OBVIOUS
<1>2. call[v].user \in Users /\ call[v].user # call[w].user /\ call[v].user # None
  BY <1>1 DEF WellFormed, InsertsAlone
<1> QED BY <1>1, <1>2 DEF InsertsAlone, Exists

\* Every step leaves an insertion alone.
LEMMA NextInsertsAlone ==
  ASSUME TypeOK, WellFormed, CallsOnUsers, InsertsAlone, Next
  PROVE  InsertsAlone'
<1> PICK w \in Workers :
            \/ \E u \in Users : StartsOn(w, u)
            \/ StartsElsewhere(w)
            \/ InsertUser(w)
            \/ RemoveGroups(w) \/ AddGroup(w)
            \/ SaveUser(w)
            \/ \E super \in BOOLEAN, active \in BOOLEAN, gs \in SUBSET Roles :
                  SaveForm(w, super, active, gs)
            \/ Ends(w)
  BY NextCases
<1>1. ASSUME NEW u \in Users, StartsOn(w, u) PROVE InsertsAlone'
  <2> PICK c \in Call :
         /\ BeginOn(u, w, c)
         /\ c.role = "other" => c.pc = "insert"
         /\ c.pc = "insert" => ~Exists(u)
         /\ c.pc # "insert" <=> user'[u].name # None
         /\ Exists(u) \/ ~Busy(u)
         /\ \A v \in Users : v # u \/ Exists(u) => user'[v] = user[v]
    BY <1>1, StartOnUser DEF StartsOn
  <2>1. /\ call'[w].user = u /\ call'[w].pc = c.pc /\ call'[w].role = c.role
        /\ \A v \in Workers : v # w => call'[v] = call[v]
        /\ \A v \in Users : v # u => asked'[v] = asked[v]
        /\ asked'[u] = Asking(c, asked[u])
    BY BeginOnEffect
  <2> SUFFICES ASSUME NEW v \in Workers, call'[v].pc = "insert"
               PROVE  /\ user'[call'[v].user].name = None
                      /\ call'[v].role = "other" => asked'[call'[v].user].role = None
                      /\ \A x \in Workers : call'[x].user = call'[v].user => x = v
    BY DEF InsertsAlone, Exists
  <2>2. CASE v = w
    <3>1. c.pc = "insert" /\ ~Busy(u) /\ user'[u].name = None
      BY <2>1, <2>2
    <3>2. c.role = "other" => asked'[u].role = None
      BY <2>1 DEF Asking
    <3>3. \A x \in Workers : call'[x].user = u => x = w
      BY <2>1, <3>1 DEF Busy
    <3> QED BY <2>1, <2>2, <3>1, <3>2, <3>3
  <2>3. CASE v # w
    <3>1. call'[v] = call[v] /\ call[v].user \in Users /\ ~Exists(call[v].user)
      BY <2>1, <2>3 DEF WellFormed, InsertsAlone
    <3>2. call[v].user # u
      BY <3>1 DEF Busy
    <3> QED BY <2>1, <2>3, <3>1, <3>2 DEF InsertsAlone, Exists
  <2> QED BY <2>2, <2>3
<1>2. CASE StartsElsewhere(w)
  BY <1>2, StartElsewhere, InsertsUntouched DEF StartsElsewhere
<1>3. CASE InsertUser(w)
  BY <1>3, InsertEffect, InsertsUntouched, IdleUser
<1>4. CASE RemoveGroups(w) \/ AddGroup(w)
  BY <1>4, GroupsEffect, InsertsUntouched, IdleUser
<1>5. CASE SaveUser(w)
  BY <1>5, SaveEffect, InsertsUntouched, IdleUser
<1>6. ASSUME NEW super \in BOOLEAN, NEW active \in BOOLEAN, NEW gs \in SUBSET Roles,
             SaveForm(w, super, active, gs)
      PROVE  InsertsAlone'
  BY <1>6, FormEffect, InsertsUntouched, IdleUser
<1>7. CASE Ends(w)
  BY <1>7, EndEffect, InsertsUntouched, IdleUser DEF Ends
<1> QED BY <1>1, <1>2, <1>3, <1>4, <1>5, <1>6, <1>7

\* Every step keeps the roles, or the call that brings one.
LEMMA NextRolesKept ==
  ASSUME TypeOK, WellFormed, CallsOnUsers, InsertsAlone, RolesKept, Next
  PROVE  RolesKept'
<1> PICK w \in Workers :
            \/ \E u \in Users : StartsOn(w, u)
            \/ StartsElsewhere(w)
            \/ InsertUser(w)
            \/ RemoveGroups(w) \/ AddGroup(w)
            \/ SaveUser(w)
            \/ \E super \in BOOLEAN, active \in BOOLEAN, gs \in SUBSET Roles :
                  SaveForm(w, super, active, gs)
            \/ Ends(w)
  BY NextCases
<1> SUFFICES ASSUME NEW u \in Users, crashes' = 0,
                      user'[u].name # None, asked'[u].role # None
               PROVE  \/ groups'[u] # {}
                      \/ \E v \in Workers :
                            call'[v].user = u /\ call'[v].pc \in {"remove", "add"}
  BY DEF RolesKept, Exists
<1>1. \/ crashes # 0 \/ user[u].name = None \/ asked[u].role = None
      \/ groups[u] # {}
      \/ \E v \in Workers :
            call[v].user = u /\ call[v].pc \in {"remove", "add"}
  BY DEF RolesKept, Exists
<1>2. u # None
  OBVIOUS
<1>3. ASSUME NEW x \in Users, StartsOn(w, x)
      PROVE  \/ groups'[u] # {}
             \/ \E v \in Workers :
                   call'[v].user = u /\ call'[v].pc \in {"remove", "add"}
  <2> PICK c \in Call :
         /\ BeginOn(x, w, c)
         /\ c.pc \in OfUser
         /\ c.role # None => c.pc \in {"insert", "remove"}
         /\ c.role = "other" => c.pc = "insert"
         /\ Exists(x) \/ c.role # None
         /\ \A v \in Users : v # x \/ Exists(x) => user'[v] = user[v]
         /\ groups' = groups
         /\ c.pc # "insert" <=> user'[x].name # None
    BY <1>3, StartOnUser DEF StartsOn
  <2>1. /\ call[w].user = None /\ call'[w].user = x /\ call'[w].pc = c.pc
        /\ \A v \in Workers : v # w => call'[v] = call[v]
        /\ \A v \in Users : v # x => asked'[v] = asked[v]
        /\ asked'[x] = Asking(c, asked[x]) /\ crashes' = crashes
    BY BeginOnEffect
  <2>2. CASE u # x
    BY <1>1, <1>2, <2>1, <2>2
  <2>3. CASE u = x /\ c.pc = "remove"
    BY <2>1, <2>3
  <2>4. CASE u = x /\ c.pc # "remove"
    <3>1. c.pc # "insert" /\ c.role = None
      BY <2>4
    <3>2. user'[u] = user[u] \/ ~Exists(u)
      BY <2>4
    <3>3. asked'[u].role = asked[u].role
      BY <2>1, <2>4, <3>1 DEF Asking
    <3> QED BY <1>1, <1>2, <2>1, <2>4, <3>1, <3>2, <3>3 DEF Exists
  <2> QED BY <2>2, <2>3, <2>4
<1>4. CASE StartsElsewhere(w)
  BY <1>1, <1>2, <1>4, StartElsewhere DEF StartsElsewhere
<1>5. CASE InsertUser(w)
  <2>1. call[w].role = "other" => asked[call[w].user].role = None
    BY <1>5, InsertEffect DEF InsertsAlone
  <2> QED BY <1>1, <1>2, <1>5, <2>1, InsertEffect, IdleUser
<1>6. CASE RemoveGroups(w) \/ AddGroup(w)
  BY <1>1, <1>2, <1>6, GroupsEffect, IdleUser
<1>7. CASE SaveUser(w)
  <2>1. call[w].user \in Users /\ user[call[w].user].name # None
    BY <1>7, SaveEffect DEF CallsOnUsers, Exists, OfUser
  <2> QED BY <1>1, <1>2, <1>7, <2>1, SaveEffect, IdleUser
<1>8. ASSUME NEW super \in BOOLEAN, NEW active \in BOOLEAN, NEW gs \in SUBSET Roles,
             SaveForm(w, super, active, gs)
      PROVE  \/ groups'[u] # {}
             \/ \E v \in Workers :
                   call'[v].user = u /\ call'[v].pc \in {"remove", "add"}
  <2>1. \/ u = call[w].user
        \/ u # call[w].user
    OBVIOUS
  <2> QED BY <1>1, <1>2, <1>8, <2>1, FormEffect, IdleUser
<1>9. CASE Ends(w)
  <2>1. crashes' = crashes \/ crashes' = crashes + 1
    BY <1>9, EndEffect DEF Ends
  <2>2. crashes' = crashes
    BY <2>1 DEF TypeOK
  <2> QED BY <1>1, <1>2, <1>9, <2>2, EndEffect, IdleUser DEF Ends, TypeOK
<1> QED BY <1>3, <1>4, <1>5, <1>6, <1>7, <1>8, <1>9

\* A step that touches neither the user, nor what was asked, nor its calls.
LEMMA SettlingKept ==
  ASSUME NEW u \in Users, SettlingOf(u), mixed \subseteq mixed',
         user'[u] = user[u], groups'[u] = groups[u], asked'[u] = asked[u],
         \A v \in Workers : \/ call'[v] = call[v]
                            \/ call[v].user # u /\ call'[v].user # u
  PROVE  SettlingOf(u)'
BY DEF SettlingOf, Busy, Exists

\* A step of the only call on a user, which goes on.
LEMMA SettlingGoesOn ==
  ASSUME NEW u \in Users, SettlingOf(u), mixed \subseteq mixed',
         NEW w \in Workers, call[w].user = u, call'[w].user = u,
         \A v \in Workers : v # w => call'[v] = call[v],
         u \notin mixed' => Underway(call'[w], user'[u], groups'[u], asked'[u])
  PROVE  SettlingOf(u)'
BY DEF SettlingOf, Busy, Exists

\* The only call on a user ends.
LEMMA SettlingEnds ==
  ASSUME NEW u \in Users, SettlingOf(u), mixed \subseteq mixed',
         NEW w \in Workers, call[w].user = u, call'[w].user # u,
         \A v \in Workers : v # w => call'[v] = call[v],
         u \notin mixed' /\ user'[u].name # None =>
             SettledAs(user'[u], groups'[u], asked'[u])
  PROVE  SettlingOf(u)'
BY DEF SettlingOf, Busy, Exists

\* The first call on a user starts.
LEMMA SettlingStarts ==
  ASSUME NEW u \in Users, mixed \subseteq mixed',
         NEW w \in Workers, call'[w].user = u,
         \A v \in Workers : v # w => call'[v] = call[v],
         u \notin mixed' => ~Busy(u),
         u \notin mixed' => Underway(call'[w], user'[u], groups'[u], asked'[u])
  PROVE  SettlingOf(u)'
BY DEF SettlingOf, Busy, Exists

\* Every step keeps each user on the way to what was asked for.
LEMMA NextSettling ==
  ASSUME TypeOK, WellFormed, CallsOnUsers, Settling, Next
  PROVE  Settling'
<1> PICK w \in Workers :
            \/ \E u \in Users : StartsOn(w, u)
            \/ StartsElsewhere(w)
            \/ InsertUser(w)
            \/ RemoveGroups(w) \/ AddGroup(w)
            \/ SaveUser(w)
            \/ \E super \in BOOLEAN, active \in BOOLEAN, gs \in SUBSET Roles :
                  SaveForm(w, super, active, gs)
            \/ Ends(w)
  BY NextCases
<1> SUFFICES ASSUME NEW u \in Users PROVE SettlingOf(u)'
  BY DEF Settling
<1>1. /\ SettlingOf(u) /\ u # None
      /\ u \notin mixed /\ call[w].user = u =>
            Underway(call[w], user[u], groups[u], asked[u])
  BY DEF Settling, SettlingOf
<1>2. ASSUME NEW x \in Users, StartsOn(w, x) PROVE SettlingOf(u)'
  <2> PICK c \in Call :
         /\ BeginOn(x, w, c)
         /\ \A v \in Users : v # x \/ Exists(x) => user'[v] = user[v]
         /\ groups' = groups
         /\ (Exists(x) => SettledAs(user[x], groups[x], asked[x])) =>
               Underway(c, user'[x], groups[x], Asking(c, asked[x]))
    BY <1>2, StartOnUser DEF StartsOn
  <2>1. /\ call[w].user = None /\ call'[w].user = x
        /\ call'[w].pc = c.pc /\ call'[w].new = c.new
        /\ call'[w].role = c.role /\ call'[w].saves = c.saves
        /\ \A v \in Workers : v # w => call'[v] = call[v]
        /\ \A v \in Users : v # x => asked'[v] = asked[v]
        /\ asked'[x] = Asking(c, asked[x])
        /\ mixed \subseteq mixed' /\ (x \notin mixed' => ~Busy(x))
    BY BeginOnEffect
  <2>2. CASE u # x
    BY <1>1, <2>1, <2>2, SettlingKept
  <2>3. CASE u = x
    <3>1. ASSUME u \notin mixed'
          PROVE  Underway(c, user'[u], groups'[u], asked'[u])
      <4>1. Exists(u) => SettledAs(user[u], groups[u], asked[u])
        BY <1>1, <2>1, <2>3, <3>1 DEF SettlingOf
      <4> QED BY <2>1, <2>3, <4>1
    <3>2. u \notin mixed' => Underway(call'[w], user'[u], groups'[u], asked'[u])
      BY <2>1, <3>1 DEF Underway
    <3> QED BY <2>1, <2>3, <3>2, SettlingStarts
  <2> QED BY <2>2, <2>3
<1>3. CASE StartsElsewhere(w)
  <2>1. call[w].user = None
    BY <1>3, StartElsewhere DEF StartsElsewhere, CallsOnUsers, OfUser
  <2> QED BY <1>1, <1>3, <2>1, StartElsewhere, SettlingKept DEF StartsElsewhere
<1>4. CASE InsertUser(w)
  <2>1. CASE call[w].user # u
    BY <1>1, <1>4, <2>1, InsertEffect, IdleUser, SettlingKept
  <2>2. CASE call[w].user = u /\ call'[w] = Idle /\ user' = user
    <3>1. u \notin mixed => user[u].name = None
      BY <1>1, <1>4, <2>2, InsertEffect DEF Underway
    <3> QED BY <1>1, <1>4, <2>2, <3>1, InsertEffect, IdleUser, SettlingEnds
  <2>4. CASE /\ call[w].user = u /\ call'[w] = Idle /\ user'[u] = call[w].new
             /\ call[w].role = "other"
    <3>1. ASSUME u \notin mixed PROVE SettledAs(user'[u], groups'[u], asked'[u])
      <4>1. /\ call[w].new.name = asked[u].name
            /\ call[w].new.active = asked[u].active
            /\ asked[u].role = None
        BY <1>1, <1>4, <2>4, <3>1, InsertEffect DEF Underway
      <4>2. asked' = asked
        BY <1>4, InsertEffect
      <4> QED BY <2>4, <4>1, <4>2 DEF SettledAs
    <3> QED BY <1>1, <1>4, <2>4, <3>1, InsertEffect, IdleUser, SettlingEnds
  <2>3. CASE call[w].user = u /\ call'[w] # Idle
    <3>1. ASSUME u \notin mixed
          PROVE  Underway(call'[w], user'[u], groups'[u], asked'[u])
      <4>1. /\ call[w].new.name = asked[u].name
            /\ call[w].new.active = asked[u].active
            /\ call[w].role = asked[u].role /\ call[w].saves
        BY <1>1, <1>4, <2>3, <3>1, InsertEffect DEF Underway
      <4>2. /\ call'[w].pc = "remove" /\ asked' = asked
            /\ call'[w].role = call[w].role /\ call'[w].saves = call[w].saves
            /\ call'[w].new.name = call[w].new.name
            /\ call'[w].new.active = call[w].new.active
            /\ call'[w].new.super <=> call[w].role = "administrator"
        BY <1>4, <2>3, InsertEffect
      <4> QED BY <4>1, <4>2 DEF Underway
    <3> QED BY <1>1, <1>4, <2>3, <3>1, InsertEffect, SettlingGoesOn
  <2> QED BY <1>4, <2>1, <2>2, <2>3, <2>4, InsertEffect DEF Idle
<1>5. CASE RemoveGroups(w) \/ AddGroup(w)
  <2>1. CASE call[w].user # u
    BY <1>1, <1>5, <2>1, GroupsEffect, IdleUser, SettlingKept
  <2>2. CASE call[w].user = u /\ call[w].pc = "remove"
    <3>1. ASSUME u \notin mixed
          PROVE  Underway(call'[w], user'[u], groups'[u], asked'[u])
      <4>1. /\ call[w].new.name = asked[u].name
            /\ call[w].new.active = asked[u].active
            /\ call[w].role = asked[u].role
            /\ call[w].new.super <=> asked[u].role = "administrator"
            /\ call[w].saves \/ user[u] = call[w].new
        BY <1>1, <2>2, <3>1 DEF Underway
      <4>2. /\ call'[w].pc = "add" /\ asked' = asked /\ groups'[u] = {}
            /\ call'[w].role = call[w].role /\ call'[w].saves = call[w].saves
            /\ call'[w].new = call[w].new /\ user' = user
        BY <1>5, <2>2, GroupsEffect
      <4> QED BY <4>1, <4>2 DEF Underway
    <3> QED BY <1>1, <1>5, <2>2, <3>1, GroupsEffect, SettlingGoesOn
  <2>3. ASSUME call[w].user = u, call[w].pc = "add", u \notin mixed
        PROVE  /\ SettledAs(call[w].new, groups'[u], asked[u])
               /\ call[w].saves \/ user[u] = call[w].new
    <3>1. /\ call[w].new.name = asked[u].name
          /\ call[w].new.active = asked[u].active
          /\ call[w].role = asked[u].role /\ groups[u] = {}
          /\ call[w].new.super <=> asked[u].role = "administrator"
          /\ call[w].saves \/ user[u] = call[w].new
      BY <1>1, <2>3 DEF Underway
    <3>2. groups'[u] = groups[u] \cup {call[w].role}
      BY <1>5, <2>3, GroupsEffect
    <3>3. groups'[u] = {asked[u].role}
      BY <3>1, <3>2
    <3> QED BY <3>1, <3>3 DEF SettledAs
  <2>4. CASE call[w].user = u /\ call[w].pc = "add" /\ call'[w] = Idle /\ ~call[w].saves
    <3>1. /\ mixed' = mixed /\ asked' = asked /\ user' = user
          /\ \A v \in Workers : v # w => call'[v] = call[v]
      BY <1>5, GroupsEffect
    <3> QED BY <1>1, <2>3, <2>4, <3>1, IdleUser, SettlingEnds
  <2>5. CASE call[w].user = u /\ call[w].pc = "add" /\ ~(call'[w] = Idle /\ ~call[w].saves)
    <3>1. /\ mixed' = mixed /\ asked' = asked /\ user' = user
          /\ \A v \in Workers : v # w => call'[v] = call[v]
          /\ call'[w].pc = "save" /\ call'[w].user = call[w].user
          /\ call'[w].new = call[w].new
      BY <1>5, <2>5, GroupsEffect
    <3>2. u \notin mixed => Underway(call'[w], user'[u], groups'[u], asked'[u])
      BY <2>3, <2>5, <3>1 DEF Underway, SettledAs
    <3> QED BY <1>1, <2>5, <3>1, <3>2, SettlingGoesOn
  <2> QED BY <1>5, <2>1, <2>2, <2>4, <2>5, GroupsEffect
<1>6. CASE SaveUser(w)
  <2>1. CASE call[w].user # u
    BY <1>1, <1>6, <2>1, SaveEffect, IdleUser, SettlingKept
  <2>2. CASE call[w].user = u
    <3>1. /\ call'[w] = Idle /\ groups' = groups /\ asked' = asked
          /\ mixed \subseteq mixed'
          /\ \A v \in Workers : v # w => call'[v] = call[v]
          /\ user'[u] = call[w].new \/ u \in mixed'
          /\ call[w].pc = "save"
      BY <1>6, <2>2, SaveEffect
    <3>2. u \notin mixed => SettledAs(call[w].new, groups[u], asked[u])
      BY <1>1, <2>2, <3>1 DEF Underway
    <3> QED BY <1>1, <2>2, <3>1, <3>2, IdleUser, SettlingEnds
  <2> QED BY <2>1, <2>2
<1>7. ASSUME NEW super \in BOOLEAN, NEW active \in BOOLEAN, NEW gs \in SUBSET Roles,
             SaveForm(w, super, active, gs)
      PROVE  SettlingOf(u)'
  <2>1. /\ call'[w] = Idle /\ mixed' = mixed
        /\ \A v \in Workers : v # w => call'[v] = call[v]
    BY <1>7, FormEffect
  <2>2. CASE call[w].user # u
    BY <1>1, <1>7, <2>1, <2>2, FormEffect, IdleUser, SettlingKept
  <2>3. CASE call[w].user = u
    BY <1>1, <1>7, <2>1, <2>3, FormEffect, IdleUser, SettlingEnds
  <2> QED BY <2>2, <2>3
<1>8. CASE Ends(w)
  <2>1. /\ call'[w] = Idle /\ user' = user /\ groups' = groups /\ asked' = asked
        /\ mixed \subseteq mixed'
        /\ \A v \in Workers : v # w => call'[v] = call[v]
        /\ call[w].user = u => call[w].pc = "form" \/ u \in mixed'
    BY <1>1, <1>8, EndEffect DEF Ends, CallsOnUsers, OfUser
  <2>2. CASE call[w].user # u
    BY <1>1, <2>1, <2>2, IdleUser, SettlingKept
  <2>3. CASE call[w].user = u
    <3>1. u \notin mixed' => SettledAs(user[u], groups[u], asked[u])
      BY <1>1, <2>1, <2>3 DEF Underway
    <3> QED BY <1>1, <2>1, <2>3, <3>1, IdleUser, SettlingEnds
  <2> QED BY <2>2, <2>3
<1> QED BY <1>2, <1>3, <1>4, <1>5, <1>6, <1>7, <1>8

LEMMA SettleNext == SettleInv /\ [Next]_vars => SettleInv'
<1> SUFFICES ASSUME SettleInv, [Next]_vars PROVE SettleInv'
  OBVIOUS
<1>1. AccountInv /\ TypeOK /\ WellFormed
  BY DEF SettleInv, AccountInv
<1>2. AccountInv'
  BY <1>1, AccountNext
<1>3. CASE Next
  BY <1>1, <1>2, <1>3, NextCallsOnUsers, NextInsertsAlone, NextRolesKept,
     NextSettling DEF SettleInv
<1>4. CASE UNCHANGED vars
  BY <1>2, <1>4 DEF vars, counters, SettleInv, CallsOnUsers, InsertsAlone, RolesKept, Settling,
                    SettlingOf, Busy, Exists
<1> QED BY <1>3, <1>4

LEMMA SettleAlways == Spec => []SettleInv
  BY SettleInit, SettleNext, PTL DEF Spec

\* A user given a role keeps a group, however the calls on the user overlap and
\* whichever of their saves fail, unless a call was killed or the form took it.
THEOREM RolesSurviveOverlap == Spec => []RolesAreNotLost
<1>1. SettleInv => RolesAreNotLost
  BY DEF SettleInv, RolesKept, RolesAreNotLost, Busy
<1> QED BY <1>1, SettleAlways, PTL

\* Once the calls on a user, which came one by one, have returned, the row and
\* the groups are those asked for last.
THEOREM SerialUpdatesSettle == Spec => []UpdatesSettle
<1>1. SettleInv => UpdatesSettle
  <2> SUFFICES ASSUME SettleInv, NEW u \in Users \ mixed, Exists(u), ~Busy(u)
               PROVE  /\ user[u].name = asked[u].name
                      /\ user[u].active = asked[u].active
                      /\ asked[u].role # None =>
                            /\ RoleOf(u) = asked[u].role
                            /\ groups[u] = {asked[u].role}
                            /\ user[u].super <=> asked[u].role = "administrator"
    BY DEF UpdatesSettle
  <2>1. SettledAs(user[u], groups[u], asked[u]) /\ asked[u].role \in Roles \cup {None}
    BY DEF SettleInv, Settling, SettlingOf, AccountInv, TypeOK, Asked
  <2>2. asked[u].role # None => RoleOf(u) = asked[u].role
    BY <2>1 DEF SettledAs, RoleOf, Roles, RoleInputs
  <2> QED BY <2>1, <2>2 DEF SettledAs
<1> QED BY <1>1, SettleAlways, PTL
=============================================================================
