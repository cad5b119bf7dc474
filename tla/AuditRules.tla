------------------------------ MODULE AuditRules ------------------------------
(***************************************************************************)
(* Which requests are audited (app/apps/audit): the catalog of event types *)
(* with its admin form, the copy of the catalog that every process caches  *)
(* for a while, and the log that the API middleware and the web shell      *)
(* write for a request that some event type matches.                       *)
(*                                                                         *)
(* A process (a gunicorn worker, or daphne with its one thread for the     *)
(* database) serves one request at a time.  The handler that clears the    *)
(* cache when an event type is saved or deleted clears that of the process *)
(* it runs in; the others go on with what they have until it is too old.   *)
(***************************************************************************)
EXTENDS Naturals, FiniteSets

CONSTANTS
    Rows,           \* primary keys of event types, numbers in the order of "key"
    Endpoints,      \* classes of requests: endpoint, method and address
    KindOf,         \* KindOf[e]: the kind of traffic that requests of e are
    Texts,          \* the sets of classes that administrators enter
    Processes,
    None,
    TTL,            \* _CACHE_TTL_SECONDS, in ticks of the clock
    MaxEdits        \* bound on the event types saved and deleted

Kinds == {"api", "websocket"}

ASSUME RowsAssumption == Rows \subseteq Nat \ {0} /\ None \notin Rows
ASSUME EndpointsAssumption == KindOf \in [Endpoints -> Kinds] /\ Texts \subseteq SUBSET Endpoints
ASSUME BoundsAssumption == TTL \in Nat \ {0} /\ MaxEdits \in Nat

VARIABLES
    rule,       \* the committed event types
    logged,     \* rows that some log refers to
    cache,      \* cache[p][k]: the entry of process p for kind k
    call,       \* call[p]: the request that process p serves
    since,      \* ticks since the catalog was last changed, up to TTL
    editor,     \* history: the process that changed it last, or None
    edits

catalog == <<rule, since, editor, edits>>
vars == <<rule, logged, cache, call, since, editor, edits>>

-----------------------------------------------------------------------------
\* An event type: its kind and the requests that its endpoints and its lists of
\* addresses let through.
Rule == [kind : Kinds, lines : SUBSET Endpoints]
Catalog == [Rows -> Rule \cup {None}]
NoRules == [r \in Rows |-> None]

\* A cached list and its age. One as old as TTL is as good as none.
Entry == [age : 0 .. TTL, list : Catalog]
NoEntry == [age |-> TTL, list |-> NoRules]
Empty == [k \in Kinds |-> NoEntry]

\* query   the time is taken, and the query to be made
\* store   the list is to be put into the cache
\* log     the decision is made: a row, or None
Call == [pc : {"idle", "query", "store", "log"},
         req : Endpoints \cup {None},
         age : 0 .. TTL, list : Catalog,
         match : Rows \cup {None}]
Idle == [pc |-> "idle", req |-> None, age |-> 0, list |-> NoRules, match |-> None]

TypeOK ==
    /\ rule \in Catalog
    /\ logged \in SUBSET Rows
    /\ cache \in [Processes -> [Kinds -> Entry]]
    /\ call \in [Processes -> Call]
    /\ since \in 0 .. TTL
    /\ editor \in Processes \cup {None}
    /\ edits \in 0 .. MaxEdits

Init ==
    /\ rule = NoRules
    /\ logged = {}
    /\ cache = [p \in Processes |-> Empty]
    /\ call = [p \in Processes |-> Idle]
    /\ since = TTL
    /\ editor = None
    /\ edits = 0

-----------------------------------------------------------------------------
(***************************************************************************)
(* The catalog.                                                            *)
(***************************************************************************)

\* A change of the catalog is committed by process p, which serves nothing else.
Edit(p, r, x) ==
    /\ call[p].pc = "idle"
    /\ edits < MaxEdits
    /\ edits' = edits + 1
    /\ rule' = [rule EXCEPT ![r] = x]
    /\ since' = 0
    /\ editor' = p
    /\ UNCHANGED <<logged, call>>

\* Variant of ClearCache: the list of the kind of the row is forgotten.
ClearCache_OfKind(p, k) == cache' = [cache EXCEPT ![p][k] = NoEntry]

\* clear_event_type_cache: every list is forgotten, whatever the kind of the row
\* was or becomes.
ClearCache(p, k) == cache' = [cache EXCEPT ![p] = Empty]

\* The admin form of an event type, new or not, is saved.
SaveRule(p, r, x) == Edit(p, r, x) /\ ClearCache(p, x.kind)

\* A row that logs refer to is protected.
DeleteRule(p, r) ==
    /\ rule[r] # None
    /\ r \notin logged
    /\ Edit(p, r, None)
    /\ ClearCache(p, rule[r].kind)

-----------------------------------------------------------------------------
(***************************************************************************)
(* A request.                                                              *)
(***************************************************************************)

\* Variant of FirstMatch: the key of no row stands for none.
FirstMatch_Zero(list, e) ==
    LET hits == {r \in Rows : list[r] # None /\ e \in list[r].lines} IN
    IF hits = {} THEN 0 ELSE CHOOSE r \in hits : \A s \in hits : r <= s

\* The first event type that matches, find_matching_event_type.
FirstMatch(list, e) ==
    LET hits == {r \in Rows : list[r] # None /\ e \in list[r].lines} IN
    IF hits = {} THEN None ELSE CHOOSE r \in hits : \A s \in hits : r <= s

\* The rows of the query.
OfKind(k) == [r \in Rows |-> IF rule[r] # None /\ rule[r].kind = k THEN rule[r]
                             ELSE None]

\* Variant of Usable: an entry is good however old it is.
Usable_Forever(x) == x # NoEntry

\* The entry of a kind is not too old.
Usable(x) == x.age < TTL

\* The handler of a request has run, and find_matching_event_type takes the time
\* and consults the cache.
Request(p, e) ==
    LET x == cache[p][KindOf[e]] IN
    /\ call[p].pc = "idle"
    /\ call' = [call EXCEPT ![p] =
          IF Usable(x)
          THEN [Idle EXCEPT !.pc = "log", !.req = e, !.match = FirstMatch(x.list, e)]
          ELSE [Idle EXCEPT !.pc = "query", !.req = e]]
    /\ UNCHANGED <<catalog, logged, cache>>

Query(p) ==
    /\ call[p].pc = "query"
    /\ call' = [call EXCEPT ![p].pc = "store", ![p].list = OfKind(KindOf[call[p].req])]
    /\ UNCHANGED <<catalog, logged, cache>>

\* Variant of Store: the entry is stamped with the time of the write.
Store_StampedLate(p) ==
    LET c == call[p] IN
    /\ c.pc = "store"
    /\ cache' = [cache EXCEPT ![p][KindOf[c.req]] = [age |-> 0, list |-> c.list]]
    /\ call' = [call EXCEPT ![p] = [Idle EXCEPT !.pc = "log", !.req = c.req,
                                       !.match = FirstMatch(c.list, c.req)]]
    /\ UNCHANGED <<catalog, logged>>

\* The list goes into the cache with the time taken before the query.
Store(p) ==
    LET c == call[p] IN
    /\ c.pc = "store"
    /\ cache' = [cache EXCEPT ![p][KindOf[c.req]] = [age |-> c.age, list |-> c.list]]
    /\ call' = [call EXCEPT ![p] = [Idle EXCEPT !.pc = "log", !.req = c.req,
                                       !.match = FirstMatch(c.list, c.req)]]
    /\ UNCHANGED <<catalog, logged>>

\* AuditLog.objects.create; for a row that was deleted since, the foreign key
\* fails, and the exception is swallowed.
Write(p) ==
    LET r == call[p].match IN
    /\ call[p].pc = "log"
    /\ logged' = IF r # None /\ rule[r] # None THEN logged \cup {r} ELSE logged
    /\ call' = [call EXCEPT ![p] = Idle]
    /\ UNCHANGED <<catalog, cache>>

Older(n) == IF n < TTL THEN n + 1 ELSE n

\* The clock, by which entries and the time a request has taken grow older.
Tick ==
    /\ since' = Older(since)
    /\ cache' = [p \in Processes |-> [k \in Kinds |->
                    [cache[p][k] EXCEPT !.age = Older(@)]]]
    /\ call' = [p \in Processes |->
                   IF call[p].pc \in {"query", "store"}
                   THEN [call[p] EXCEPT !.age = Older(@)] ELSE call[p]]
    /\ UNCHANGED <<rule, logged, editor, edits>>

\* A process is replaced by a new one, and its request is lost.
Restart(p) ==
    /\ cache' = [cache EXCEPT ![p] = Empty]
    /\ call' = [call EXCEPT ![p] = Idle]
    /\ UNCHANGED <<catalog, logged>>

Administer(p) ==
    \E r \in Rows :
        \/ DeleteRule(p, r)
        \/ \E x \in [kind : Kinds, lines : Texts] : SaveRule(p, r, x)

Audit(p) == Query(p) \/ Store(p) \/ Write(p)

Next ==
    \/ \E p \in Processes :
          \/ Administer(p) \/ Audit(p) \/ Restart(p)
          \/ \E e \in Endpoints : Request(p, e)
    \/ Tick

Spec == Init /\ [][Next]_vars

\* Time passes, and a request that is served comes to its end.
FairSpec == Spec /\ WF_vars(Tick) /\ \A p \in Processes : WF_vars(Audit(p))

-----------------------------------------------------------------------------
(***************************************************************************)
(* Properties.                                                             *)
(***************************************************************************)

\* A list that is younger than the last change of the catalog is the catalog: a
\* query that is slow, during which the catalog changes and time passes, does not
\* make an old list look new.
YoungListsAgree ==
    \A p \in Processes, k \in Kinds :
        cache[p][k].age < since => cache[p][k].list = OfKind(k)

\* "The cache is cleared on save/delete" (matching.py:155): the process that made
\* the last change goes by it at once, for both kinds, also if the change moved
\* the event type from one kind to the other.
EditorSeesChange ==
    \A p \in Processes, k \in Kinds :
        editor = p /\ Usable(cache[p][k]) => cache[p][k].list = OfKind(k)

\* Once the catalog rests, every process comes to decide by it: for each request,
\* the first event type in the order of the catalog ("Deterministic first-match
\* semantics", matching.py:169).
ChangesReachAll ==
    \A p \in Processes :
        <>[](call[p].pc = "log" =>
                call[p].match = FirstMatch(OfKind(KindOf[call[p].req]), call[p].req))
=============================================================================
