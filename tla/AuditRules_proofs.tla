-------------------------- MODULE AuditRules_proofs --------------------------
(***************************************************************************)
(* Proofs about AuditRules, for any event types, processes and requests.   *)
(***************************************************************************)
EXTENDS AuditRules, WellFoundedInduction, TLAPS

USE RowsAssumption, EndpointsAssumption, BoundsAssumption

\* A list that a request is about to put into the cache is held to what the
\* cache is: it agrees with the catalog if it was read since the last change, and
\* so it was if the process made that change itself, since it serves one thing at
\* a time.
ListsAgree ==
    \A p \in Processes :
        call[p].pc = "store" /\ (call[p].age < since \/ editor = p) =>
            call[p].list = OfKind(KindOf[call[p].req])

\* A request that is not over is one of some class.
Serving == \A p \in Processes : call[p].pc # "idle" => call[p].req \in Endpoints

CacheInv ==
    /\ TypeOK
    /\ Serving
    /\ YoungListsAgree
    /\ EditorSeesChange
    /\ ListsAgree

\* The rows of a kind are a catalog.
LEMMA OfKindType ==
  ASSUME rule \in Catalog, NEW k \in Kinds
  PROVE  OfKind(k) \in Catalog
  BY DEF OfKind, Catalog

\* Among keys there is a first one.
LEMMA FirstKey ==
  ASSUME NEW S \in SUBSET Nat, S # {}
  PROVE  \E r \in S : \A s \in S : r <= s
<1> DEFINE R == {ss \in Nat \X Nat : ss[1] < ss[2]}
<1>1. IsWellFoundedOn(R, Nat)
  BY NatLessThanWellFounded, Zenon DEF OpToRel
<1> HIDE DEF R
<1>2. \E x \in S : \A y \in S : ~ (<<y, x>> \in R)
  BY <1>1, WFMin
<1>3. \A x, y \in S : ~ (<<y, x>> \in R) => x <= y
  BY DEF R
<1> QED BY <1>2, <1>3

\* The event type found is one of the rows, if any.
LEMMA FirstMatchType ==
  ASSUME NEW list \in Catalog, NEW e \in Endpoints
  PROVE  FirstMatch(list, e) \in Rows \cup {None}
<1> DEFINE hits == {r \in Rows : list[r] # None /\ e \in list[r].lines}
           first == CHOOSE r \in hits : \A s \in hits : r <= s
<1>1. CASE hits = {}
  BY <1>1 DEF FirstMatch
<1>2. CASE hits # {}
  <2>1. hits \in SUBSET Nat
    OBVIOUS
  <2>2. \E r \in hits : \A s \in hits : r <= s
    BY <1>2, <2>1, FirstKey
  <2>3. FirstMatch(list, e) = first
    BY <1>2, Zenon DEF FirstMatch
  <2>4. hits \subseteq Rows
    OBVIOUS
  <2> HIDE DEF hits
  <2>5. first \in hits
    BY <2>2, Zenon
  <2> QED BY <2>3, <2>4, <2>5
<1> QED BY <1>1, <1>2

\* The initial values have their types, which those after a restart have too.
LEMMA InitialTypes ==
  /\ NoRules \in Catalog
  /\ Empty \in [Kinds -> Entry] /\ Idle \in Call
<1>1. NoRules \in Catalog
  BY DEF NoRules, Catalog
<1> QED BY <1>1 DEF NoEntry, Empty, Entry, Idle, Call

\* What grows older stays within the life of an entry.
LEMMA OlderType == \A n \in 0 .. TTL : Older(n) \in 0 .. TTL
  BY DEF Older

\* An entry that grows older keeps its list.
LEMMA OlderEntry ==
  ASSUME NEW x \in Entry, NEW n \in 0 .. TTL
  PROVE  LET y == [x EXCEPT !.age = n] IN y \in Entry /\ y.age = n /\ y.list = x.list
  BY DEF Entry

\* A request that grows older keeps the rest.
LEMMA OlderCall ==
  ASSUME NEW x \in Call, NEW n \in 0 .. TTL
  PROVE  LET y == [x EXCEPT !.age = n] IN
         /\ y \in Call /\ y.age = n
         /\ y.pc = x.pc /\ y.req = x.req /\ y.list = x.list
  BY DEF Call

\* The invariant holds at the start.
LEMMA CacheInit == Init => CacheInv
<1> SUFFICES ASSUME Init PROVE CacheInv
  OBVIOUS
<1>1. since \in 0 .. TTL /\ edits \in 0 .. MaxEdits
  BY DEF Init
<1>2. TypeOK
  BY <1>1, InitialTypes DEF Init, TypeOK
<1>3. YoungListsAgree
  BY DEF Init, YoungListsAgree, Empty, NoEntry
<1>4. EditorSeesChange
  BY DEF Init, EditorSeesChange, Empty, NoEntry, Usable
<1>5. ListsAgree /\ Serving
  BY DEF Init, ListsAgree, Serving, Idle
<1> QED BY <1>2, <1>3, <1>4, <1>5 DEF CacheInv

-----------------------------------------------------------------------------
(***************************************************************************)
(* The steps.  One lemma for an edit of the catalog, one for the clock, and *)
(* one for each step of a request.                                         *)
(***************************************************************************)

\* The catalog changes: nothing is younger than that, the editor has no lists,
\* and it serves no request.
LEMMA EditKeeps ==
  ASSUME CacheInv, NEW p \in Processes, NEW r \in Rows, NEW x \in Rule \cup {None},
         Edit(p, r, x), cache' = [cache EXCEPT ![p] = Empty]
  PROVE  CacheInv'
<1> USE DEF CacheInv
<1>1. TypeOK'
  BY InitialTypes DEF Edit, TypeOK, Catalog
<1>2. since' = 0 /\ editor' = p /\ call' = call /\ call[p].pc = "idle"
  BY DEF Edit
<1>3. Serving'
  BY <1>2 DEF Serving
<1>4. YoungListsAgree'
  BY <1>1, <1>2 DEF YoungListsAgree, TypeOK, Entry
<1>5. EditorSeesChange'
  <2>1. \A k \in Kinds : ~Usable(cache'[p][k])
    BY DEF TypeOK, Empty, NoEntry, Usable
  <2> QED BY <1>2, <2>1 DEF EditorSeesChange, Usable
<1>6. ListsAgree'
  BY <1>2 DEF ListsAgree, TypeOK, Call
<1> QED BY <1>1, <1>3, <1>4, <1>5, <1>6

\* A step that leaves the catalog and the caches alone needs to speak of the
\* calls only.
LEMMA CallKeeps ==
  ASSUME CacheInv, UNCHANGED <<catalog, cache>>, logged' \in SUBSET Rows,
         call' \in [Processes -> Call], Serving',
         NEW p \in Processes, \A q \in Processes \ {p} : call'[q] = call[q],
         call'[p].pc = "store" => call'[p].list = OfKind(KindOf[call'[p].req])
  PROVE  CacheInv'
<1> USE DEF CacheInv, catalog
<1>1. TypeOK'
  BY DEF TypeOK
<1>2. \A k \in Kinds : OfKind(k)' = OfKind(k)
  BY DEF OfKind
<1>3. YoungListsAgree' /\ EditorSeesChange'
  BY <1>2 DEF YoungListsAgree, EditorSeesChange, Usable
<1>4. ListsAgree'
  <2>1. rule' = rule /\ since' = since /\ editor' = editor
    OBVIOUS
  <2>2. ASSUME NEW q \in Processes, q # p
        PROVE  call'[q] = call[q]
    BY <2>2
  <2>3. call'[p].pc = "store" => call'[p].list = OfKind(KindOf[call'[p].req])
    OBVIOUS
  <2>4. ListsAgree
    OBVIOUS
  <2>5. \A q \in Processes :
           call'[q].pc = "store" /\ (call'[q].age < since \/ editor = q) =>
              call'[q].list = OfKind(KindOf[call'[q].req])
    BY <2>2, <2>3, <2>4 DEF ListsAgree
  <2> QED BY <2>1, <2>5 DEF ListsAgree, OfKind
<1> QED BY <1>1, <1>3, <1>4

\* A request takes the time and consults the cache: it has no list to store yet.
LEMMA RequestKeeps ==
  ASSUME CacheInv, NEW p \in Processes, NEW e \in Endpoints, Request(p, e)
  PROVE  CacheInv'
<1> DEFINE x == cache[p][KindOf[e]]
           c == IF Usable(x)
                THEN [Idle EXCEPT !.pc = "log", !.req = e,
                                  !.match = FirstMatch(x.list, e)]
                ELSE [Idle EXCEPT !.pc = "query", !.req = e]
<1>1. x.list \in Catalog
  BY DEF CacheInv, TypeOK, Entry
<1>2. FirstMatch(x.list, e) \in Rows \cup {None}
  BY <1>1, FirstMatchType
<1>3. call' = [call EXCEPT ![p] = c] /\ UNCHANGED <<catalog, logged, cache>>
  BY DEF Request
<1> HIDE DEF x
<1>4. c \in Call /\ c.pc # "store" /\ c.req = e
  BY <1>2, InitialTypes DEF Idle, Call
<1> HIDE DEF c
<1>5. /\ call' \in [Processes -> Call]
      /\ call'[p] = c /\ \A q \in Processes \ {p} : call'[q] = call[q]
  BY <1>3, <1>4 DEF CacheInv, TypeOK
<1>6. Serving'
  BY <1>4, <1>5 DEF Serving, CacheInv
<1>7. logged' \in SUBSET Rows
  BY <1>3 DEF CacheInv, TypeOK
<1> QED BY <1>3, <1>4, <1>5, <1>6, <1>7, CallKeeps

\* The list that a query returns is the catalog at that moment.
LEMMA QueryKeeps ==
  ASSUME CacheInv, NEW p \in Processes, Query(p)
  PROVE  CacheInv'
<1> DEFINE k == KindOf[call[p].req]
           c == [call[p] EXCEPT !.pc = "store", !.list = OfKind(k)]
<1>1. call[p] \in Call /\ call[p].req \in Endpoints
  BY DEF CacheInv, TypeOK, Serving, Query
<1>2. OfKind(k) \in Catalog
  BY <1>1, OfKindType DEF CacheInv, TypeOK
<1>3. call' = [call EXCEPT ![p] = c] /\ UNCHANGED <<catalog, logged, cache>>
  BY DEF Query, CacheInv, TypeOK
<1>4. c \in Call /\ c.req = call[p].req /\ c.list = OfKind(KindOf[c.req])
  BY <1>1, <1>2 DEF Call
<1> HIDE DEF c, k
<1>5. /\ call' \in [Processes -> Call]
      /\ call'[p] = c /\ \A q \in Processes \ {p} : call'[q] = call[q]
  BY <1>3, <1>4 DEF CacheInv, TypeOK
<1>6. Serving'
  BY <1>1, <1>4, <1>5 DEF Serving, CacheInv
<1>7. logged' \in SUBSET Rows
  BY <1>3 DEF CacheInv, TypeOK
<1> QED BY <1>3, <1>4, <1>5, <1>6, <1>7, CallKeeps

\* What the cache gets is as old as the request, and agrees with the catalog
\* whenever the request's list does.
LEMMA StoreKeeps ==
  ASSUME CacheInv, NEW p \in Processes, Store(p)
  PROVE  CacheInv'
<1> DEFINE c == call[p]
           k == KindOf[c.req]
           y == [age |-> c.age, list |-> c.list]
           d == [Idle EXCEPT !.pc = "log", !.req = c.req,
                             !.match = FirstMatch(c.list, c.req)]
<1>1. c \in Call /\ c.req \in Endpoints /\ k \in Kinds /\ c.pc = "store"
  BY DEF CacheInv, TypeOK, Serving, Store
<1>2. y \in Entry /\ FirstMatch(c.list, c.req) \in Rows \cup {None}
  BY <1>1, FirstMatchType DEF Call, Entry
<1>3. /\ cache' = [cache EXCEPT ![p][k] = y] /\ call' = [call EXCEPT ![p] = d]
      /\ UNCHANGED <<rule, since, editor, edits, logged>>
  BY DEF Store, catalog
<1>4. d \in Call /\ d.pc = "log" /\ d.req = c.req
  BY <1>1, <1>2, InitialTypes DEF Idle, Call
<1>5. c.age < since \/ editor = p => c.list = OfKind(k)
  BY <1>1 DEF CacheInv, ListsAgree
<1>6. y.age = c.age /\ y.list = c.list
  OBVIOUS
<1> HIDE DEF y, d
<1>7. TypeOK'
  <2>1. cache' \in [Processes -> [Kinds -> Entry]]
    BY <1>1, <1>2, <1>3 DEF CacheInv, TypeOK
  <2>2. call' \in [Processes -> Call]
    BY <1>3, <1>4 DEF CacheInv, TypeOK
  <2> QED BY <1>3, <2>1, <2>2 DEF CacheInv, TypeOK
<1>8. \A q \in Processes : call'[q] = IF q = p THEN d ELSE call[q]
  BY <1>3 DEF CacheInv, TypeOK
<1>9. \A q \in Processes, j \in Kinds :
         cache'[q][j] = IF q = p /\ j = k THEN y ELSE cache[q][j]
  BY <1>1, <1>3 DEF CacheInv, TypeOK
<1>10. \A j \in Kinds : OfKind(j)' = OfKind(j)
  BY <1>3 DEF OfKind
<1> HIDE DEF c, k
<1>11. Serving'
  BY <1>1, <1>4, <1>8 DEF Serving, CacheInv
<1>12. YoungListsAgree'
  BY <1>3, <1>5, <1>6, <1>9, <1>10 DEF YoungListsAgree, CacheInv
<1>13. EditorSeesChange'
  BY <1>3, <1>5, <1>6, <1>9, <1>10 DEF EditorSeesChange, Usable, CacheInv
<1>14. ListsAgree'
  <2>1. \A q \in Processes : call'[q].pc = "store" => q # p /\ call'[q] = call[q]
    BY <1>4, <1>8
  <2>2. rule' = rule /\ since' = since /\ editor' = editor
    BY <1>3
  <2>3. ListsAgree
    BY DEF CacheInv
  <2> QED BY <2>1, <2>2, <2>3 DEF ListsAgree, OfKind
<1> QED BY <1>7, <1>11, <1>12, <1>13, <1>14 DEF CacheInv

\* The end of a request.
LEMMA WriteKeeps ==
  ASSUME CacheInv, NEW p \in Processes, Write(p)
  PROVE  CacheInv'
<1>1. call' = [call EXCEPT ![p] = Idle] /\ UNCHANGED <<catalog, cache>>
  BY DEF Write
<1>2. logged' \in SUBSET Rows
  BY DEF Write, CacheInv, TypeOK, Call
<1>3. /\ call' \in [Processes -> Call]
      /\ call'[p] = Idle /\ \A q \in Processes \ {p} : call'[q] = call[q]
  BY <1>1, InitialTypes DEF CacheInv, TypeOK
<1>4. Idle.pc = "idle"
  BY DEF Idle
<1>5. Serving'
  BY <1>3, <1>4 DEF Serving, CacheInv
<1> QED BY <1>1, <1>2, <1>3, <1>4, <1>5, CallKeeps

\* A process that starts anew has no lists and no request.
LEMMA RestartKeeps ==
  ASSUME CacheInv, NEW p \in Processes, Restart(p)
  PROVE  CacheInv'
<1>1. /\ call' = [call EXCEPT ![p] = Idle] /\ cache' = [cache EXCEPT ![p] = Empty]
      /\ UNCHANGED <<rule, since, editor, edits, logged>>
  BY DEF Restart, catalog
<1>2. TypeOK'
  BY <1>1, InitialTypes DEF CacheInv, TypeOK
<1>3. \A q \in Processes : call'[q] = IF q = p THEN Idle ELSE call[q]
  BY <1>1 DEF CacheInv, TypeOK
<1>4. Idle.pc = "idle" /\ since \in 0 .. TTL
  BY DEF Idle, CacheInv, TypeOK
<1>5. \A q \in Processes, k \in Kinds :
         cache'[q][k] = cache[q][k] \/ cache'[q][k].age = TTL
  BY <1>1 DEF CacheInv, TypeOK, Empty, NoEntry
<1>6. \A k \in Kinds : OfKind(k)' = OfKind(k)
  BY <1>1 DEF OfKind
<1>7. Serving'
  BY <1>3, <1>4 DEF Serving, CacheInv
<1>8. YoungListsAgree'
  BY <1>1, <1>4, <1>5, <1>6 DEF YoungListsAgree, CacheInv
<1>9. EditorSeesChange'
  BY <1>1, <1>5, <1>6 DEF EditorSeesChange, Usable, CacheInv
<1>10. ListsAgree'
  BY <1>1, <1>3, <1>4 DEF ListsAgree, OfKind, CacheInv
<1> QED BY <1>2, <1>7, <1>8, <1>9, <1>10 DEF CacheInv

\* Time passes for the change and for the lists alike: none becomes younger than
\* the change that was not.
LEMMA TickKeeps == ASSUME CacheInv, Tick PROVE CacheInv'
<1>1. /\ since' = Older(since) /\ since \in 0 .. TTL
      /\ UNCHANGED <<rule, logged, editor, edits>>
  BY DEF Tick, CacheInv, TypeOK
<1>2. \A a \in 0 .. TTL : Older(a) < Older(since) => a < since
  BY <1>1 DEF Older
<1>3. \A a \in 0 .. TTL : Older(a) < TTL => a < TTL
  BY DEF Older
<1>4. \A p \in Processes, k \in Kinds :
         /\ cache[p][k] \in Entry
         /\ cache'[p][k] = [cache[p][k] EXCEPT !.age = Older(@)]
  BY DEF Tick, CacheInv, TypeOK
<1>5. \A p \in Processes, k \in Kinds :
         /\ cache[p][k].age \in 0 .. TTL
         /\ cache'[p][k].age = Older(cache[p][k].age)
         /\ cache'[p][k].list = cache[p][k].list
         /\ cache'[p][k] \in Entry
  <2> SUFFICES ASSUME NEW p \in Processes, NEW k \in Kinds
               PROVE  /\ cache[p][k].age \in 0 .. TTL
                      /\ cache'[p][k].age = Older(cache[p][k].age)
                      /\ cache'[p][k].list = cache[p][k].list
                      /\ cache'[p][k] \in Entry
    OBVIOUS
  <2> DEFINE x == cache[p][k]
  <2>1. x \in Entry /\ cache'[p][k] = [x EXCEPT !.age = Older(x.age)]
    BY <1>4
  <2>2. x.age \in 0 .. TTL
    BY <2>1 DEF Entry
  <2>3. Older(x.age) \in 0 .. TTL
    BY <2>2, OlderType
  <2> HIDE DEF x
  <2>4. LET y == [x EXCEPT !.age = Older(x.age)] IN
        y \in Entry /\ y.age = Older(x.age) /\ y.list = x.list
    BY <2>1, <2>3, OlderEntry
  <2> QED BY <2>1, <2>2, <2>4 DEF x
<1>6. \A p \in Processes :
         /\ call[p] \in Call
         /\ call'[p] = call[p] \/ call'[p] = [call[p] EXCEPT !.age = Older(@)]
         /\ call[p].pc = "store" => call'[p] = [call[p] EXCEPT !.age = Older(@)]
  BY DEF Tick, CacheInv, TypeOK
<1>7. \A p \in Processes :
         /\ call'[p] \in Call /\ call'[p].pc = call[p].pc
         /\ call'[p].req = call[p].req /\ call'[p].list = call[p].list
         /\ call[p].age \in 0 .. TTL
         /\ call[p].pc = "store" => call'[p].age = Older(call[p].age)
  <2> SUFFICES ASSUME NEW p \in Processes
               PROVE  /\ call'[p] \in Call /\ call'[p].pc = call[p].pc
                      /\ call'[p].req = call[p].req /\ call'[p].list = call[p].list
                      /\ call[p].age \in 0 .. TTL
                      /\ call[p].pc = "store" => call'[p].age = Older(call[p].age)
    OBVIOUS
  <2> DEFINE x == call[p]
             y == [x EXCEPT !.age = Older(x.age)]
  <2>1. /\ x \in Call /\ (call'[p] = x \/ call'[p] = y)
        /\ x.pc = "store" => call'[p] = y
    BY <1>6
  <2>2. x.age \in 0 .. TTL
    BY <2>1 DEF Call
  <2>3. Older(x.age) \in 0 .. TTL
    BY <2>2, OlderType
  <2>4. x \in Call
    BY <2>1
  <2>5. /\ y \in Call /\ y.age = Older(x.age)
        /\ y.pc = x.pc /\ y.req = x.req /\ y.list = x.list
    BY <2>3, <2>4, OlderCall
  <2> HIDE DEF x, y
  <2> QED BY <2>1, <2>2, <2>5 DEF x
<1>8. TypeOK'
  <2>1. cache' \in [Processes -> [Kinds -> Entry]]
    BY <1>5 DEF Tick
  <2>2. call' \in [Processes -> Call]
    BY <1>7 DEF Tick
  <2> QED BY <1>1, <2>1, <2>2, OlderType DEF CacheInv, TypeOK
<1>9. \A k \in Kinds : OfKind(k)' = OfKind(k)
  BY <1>1 DEF OfKind
<1>10. Serving'
  BY <1>7 DEF Serving, CacheInv
<1>11. YoungListsAgree'
  BY <1>1, <1>2, <1>5, <1>9 DEF YoungListsAgree, CacheInv
<1>12. EditorSeesChange'
  BY <1>1, <1>3, <1>5, <1>9 DEF EditorSeesChange, Usable, CacheInv
<1>13. ListsAgree'
  <2>1. \A p \in Processes :
           call'[p].pc = "store" /\ (call'[p].age < since' \/ editor' = p) =>
              call[p].pc = "store" /\ (call[p].age < since \/ editor = p)
    BY <1>1, <1>2, <1>7
  <2>2. ListsAgree /\ rule' = rule
    BY <1>1 DEF CacheInv
  <2> QED BY <1>7, <2>1, <2>2 DEF ListsAgree, OfKind
<1> QED BY <1>8, <1>10, <1>11, <1>12, <1>13 DEF CacheInv

\* What administrators enter makes an event type.
LEMMA EnteredRules == [kind : Kinds, lines : Texts] \subseteq Rule
  BY DEF Rule

\* Every step preserves the invariant.
LEMMA CacheNext == CacheInv /\ [Next]_vars => CacheInv'
<1> SUFFICES ASSUME CacheInv, [Next]_vars PROVE CacheInv'
  OBVIOUS
<1>1. ASSUME NEW p \in Processes, NEW r \in Rows, DeleteRule(p, r) PROVE CacheInv'
  BY <1>1, EditKeeps DEF DeleteRule, ClearCache
<1>2. ASSUME NEW p \in Processes, NEW r \in Rows,
             NEW x \in [kind : Kinds, lines : Texts], SaveRule(p, r, x)
      PROVE  CacheInv'
  BY <1>2, EnteredRules, EditKeeps DEF SaveRule, ClearCache
<1>3. CASE Tick
  BY <1>3, TickKeeps
<1>4. CASE UNCHANGED vars
  BY <1>4 DEF vars, CacheInv, TypeOK, Serving, YoungListsAgree, EditorSeesChange,
              ListsAgree, OfKind, Usable
<1> QED
  BY <1>1, <1>2, <1>3, <1>4, RequestKeeps, QueryKeeps, StoreKeeps, WriteKeeps,
     RestartKeeps DEF Next, Administer, Audit

\* The invariant holds for ever.
LEMMA CacheAlways == Spec => []CacheInv
  BY CacheInit, CacheNext, PTL DEF Spec

\* Values stay in their types.
THEOREM CacheTypeCorrect == Spec => []TypeOK
<1>1. CacheInv => TypeOK
  BY DEF CacheInv
<1> QED BY <1>1, CacheAlways, PTL

\* However slow a query is, and whatever changes meanwhile, a cached list that is
\* younger than the last change of the catalog is the catalog.
THEOREM YoungListsAreTrue == Spec => []YoungListsAgree
<1>1. CacheInv => YoungListsAgree
  BY DEF CacheInv
<1> QED BY <1>1, CacheAlways, PTL

\* The process that changed the catalog last decides by it, for both kinds.
THEOREM EditorsSeeTheirChange == Spec => []EditorSeesChange
<1>1. CacheInv => EditorSeesChange
  BY DEF CacheInv
<1> QED BY <1>1, CacheAlways, PTL
=============================================================================
