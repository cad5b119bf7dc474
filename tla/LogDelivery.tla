----------------------------- MODULE LogDelivery -----------------------------
(***************************************************************************)
(* What the log shipping of the agent promises.  The cursor confirms a     *)
(* chain of journal entries, those after `base` up to the cursor, and the  *)
(* server has accepted every entry of the chain.  A chain is continued     *)
(* where it ended; another is begun only if there is no cursor to continue *)
(* from, or if the journal no longer retains the entry of the cursor.      *)
(***************************************************************************)
EXTENDS Naturals

VARIABLES
    head,       \* the oldest entry the journal retains
    tail,       \* the newest entry of the journal
    accepted,   \* entries the server has accepted
    base,       \* where the chain begins, exclusive
    cursor      \* where it ends, inclusive; base if there is no cursor

vars == <<head, tail, accepted, base, cursor>>

Init ==
    /\ head = 1 /\ tail = 0
    /\ accepted = {}
    /\ base = 0 /\ cursor = 0

Log == tail' = tail + 1 /\ UNCHANGED <<head, accepted, base, cursor>>

Vacuum == head' \in head + 1 .. tail /\ UNCHANGED <<tail, accepted, base, cursor>>

\* The server accepts entries, some for the second or the third time.
Accept ==
    /\ \E entries \in SUBSET (1 .. tail) : accepted' = accepted \cup entries
    /\ UNCHANGED <<head, tail, base, cursor>>

Continue ==
    /\ cursor' \in cursor + 1 .. tail
    /\ cursor + 1 .. cursor' \subseteq accepted
    /\ UNCHANGED <<head, tail, accepted, base>>

Begin ==
    /\ cursor = base \/ cursor < head
    /\ base' \in 0 .. tail
    /\ cursor' \in base' + 1 .. tail
    /\ base' + 1 .. cursor' \subseteq accepted
    /\ UNCHANGED <<head, tail, accepted>>

\* The file of the cursor is damaged.
Lose == cursor' = base /\ UNCHANGED <<head, tail, accepted, base>>

Next == Log \/ Vacuum \/ Accept \/ Continue \/ Begin \/ Lose

Spec == Init /\ [][Next]_vars
=============================================================================
