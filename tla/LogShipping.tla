----------------------------- MODULE LogShipping -----------------------------
(***************************************************************************)
(* The log shipping of the agent: shipLogs of                              *)
(* agent/cmd/keywarden-agent/main.go, run once per tick, with the          *)
(* collector, the spool and the cursor of agent/internal/logs.             *)
(*                                                                         *)
(* The journal entries are numbered from 1 in the order journald wrote     *)
(* them.  A cycle drains the spool, seeks the journal to the cursor, reads *)
(* a batch, sends it, and either advances the cursor or spools the batch.  *)
(* Calls and writes fail, and the agent dies, between any two of these.    *)
(***************************************************************************)
EXTENDS Integers, Sequences

CONSTANTS
    LogBatchSize,   \* the most entries in a batch
    TornWrites,     \* whether a write that fails leaves half of the file
    MaxEntries,     \* bound on the entries logged
    MaxVacuums,     \* bound on the times journald drops old entries
    MaxFailures,    \* bound on the calls and writes that fail
    MaxCrashes      \* bound on the deaths of the agent

ASSUME BatchAssumption == LogBatchSize \in Nat \ {0}
ASSUME BoundsAssumption ==
    /\ TornWrites \in BOOLEAN
    /\ MaxEntries \in Nat /\ MaxVacuums \in Nat
    /\ MaxFailures \in Nat /\ MaxCrashes \in Nat

VARIABLES
    head, tail, \* journal: the oldest and the newest entry retained
    accepted,   \* server: the entries it has accepted
    cursor,     \* host: the cursor file; NoCursor if absent or empty
    spool,      \* host: the files of the spool, the oldest first
    pc,         \* agent: where the cycle is
    pos,        \* agent: the last entry it has read or skipped
    batch,      \* agent: the end of the batch; it begins after pos
    base,       \* history: where the chain of batches up to the cursor began
    forgone,    \* history: the newest entry that was lost with the cursor file
                \* or to journald
    vacuums, failures, crashes

journal == <<head, tail, vacuums>>
host == <<cursor, spool, base, forgone>>
memory == <<pos, batch>>
counters == <<failures, crashes>>
vars == <<head, tail, accepted, cursor, spool, pos, batch, pc, base, forgone,
          vacuums, failures, crashes>>

-----------------------------------------------------------------------------
Entries == 1 .. MaxEntries

\* A file that is absent or empty, and one that holds no cursor of the journal.
NoCursor == 0
Garbage == -1

\* The entries after `first` up to `last`.
Interval(first, last) == first + 1 .. last

\* A file of the spool: the entries of a batch, torn if it does not parse.
Spooled == [first : 0 .. MaxEntries, last : Entries, torn : BOOLEAN]

TypeOK ==
    /\ head \in 1 .. MaxEntries + 1
    /\ tail \in 0 .. MaxEntries
    /\ accepted \in SUBSET Entries
    /\ cursor \in {NoCursor, Garbage} \cup Entries
    /\ spool \in Seq(Spooled)
    /\ pc \in {"idle", "drain", "seek", "read", "send", "spool", "cursor"}
    /\ pos \in 0 .. MaxEntries
    /\ batch \in 0 .. MaxEntries
    /\ base \in 0 .. MaxEntries
    /\ forgone \in 0 .. MaxEntries
    /\ vacuums \in 0 .. MaxVacuums
    /\ failures \in 0 .. MaxFailures
    /\ crashes \in 0 .. MaxCrashes

Init ==
    /\ head = 1 /\ tail = 0
    /\ accepted = {}
    /\ cursor = NoCursor
    /\ spool = <<>>
    /\ pc = "idle"
    /\ pos = 0 /\ batch = 0 /\ base = 0 /\ forgone = 0
    /\ vacuums = 0 /\ failures = 0 /\ crashes = 0

-----------------------------------------------------------------------------
(***************************************************************************)
(* The journal.                                                            *)
(***************************************************************************)
Log ==
    /\ tail < MaxEntries
    /\ tail' = tail + 1
    /\ UNCHANGED <<head, vacuums, accepted, host, pc, memory, counters>>

\* Entries after the cursor are dropped, and the oldest one kept comes next.
Vacuum ==
    /\ vacuums < MaxVacuums
    /\ vacuums' = vacuums + 1
    /\ head' \in head + 1 .. tail
    /\ forgone' = IF cursor < head' /\ forgone < head' THEN head' ELSE forgone
    /\ UNCHANGED <<tail, accepted, cursor, spool, base, pc, memory, counters>>

-----------------------------------------------------------------------------
(***************************************************************************)
(* The cycle.                                                              *)
(***************************************************************************)
Fail == failures < MaxFailures /\ failures' = failures + 1

Goto(from, to) == pc = from /\ pc' = to

\* The server validates the batch and answers with the entries it accepted.
Accepts(first, last) == accepted' = accepted \cup Interval(first, last)

Wake ==
    /\ Goto("idle", "drain")
    /\ UNCHANGED <<journal, accepted, host, memory, counters>>

\* Variant of DrainOne: the file is not removed.
DrainOne_Keeps ==
    /\ Goto("drain", "drain")
    /\ spool # <<>>
    /\ ~Head(spool).torn
    /\ Accepts(Head(spool).first, Head(spool).last)
    /\ UNCHANGED <<journal, host, memory, counters>>

\* DrainSpool: every file is sent, then removed.
DrainOne ==
    /\ Goto("drain", "drain")
    /\ spool # <<>>
    /\ ~Head(spool).torn
    /\ Accepts(Head(spool).first, Head(spool).last)
    /\ spool' = Tail(spool)
    /\ UNCHANGED <<journal, cursor, base, forgone, memory, counters>>

\* Variant of DrainFails: the cycle goes on.
DrainFails_GoesOn ==
    /\ Goto("drain", "seek")
    /\ spool # <<>>
    /\ Fail
    /\ UNCHANGED <<journal, accepted, host, memory, crashes>>

\* A file is not sent, or sent without an answer, or not removed: shipLogs
\* returns.
DrainFails ==
    /\ Goto("drain", "idle")
    /\ spool # <<>>
    /\ Fail
    /\ \/ UNCHANGED accepted
       \/ ~Head(spool).torn /\ Accepts(Head(spool).first, Head(spool).last)
    /\ UNCHANGED <<journal, host, memory, crashes>>

\* A file that does not parse is refused, and shipLogs returns.
DrainTorn ==
    /\ Goto("drain", "idle")
    /\ spool # <<>>
    /\ Head(spool).torn
    /\ UNCHANGED <<journal, accepted, host, memory, counters>>

Drained ==
    /\ Goto("drain", "seek")
    /\ spool = <<>>
    /\ UNCHANGED <<journal, accepted, host, memory, counters>>

\* Variants of Start: any cursor is believed; a cursor that cannot be sought is
\* taken for none; the entry after the cursor is skipped.
Start_Believes == IF cursor = NoCursor THEN tail ELSE cursor
Start_SeeksTail ==
    IF cursor \in {NoCursor, Garbage} THEN tail
    ELSE IF cursor < head THEN head ELSE cursor
Start_SkipsOne ==
    IF cursor = NoCursor THEN tail
    ELSE IF cursor = Garbage THEN head - 1
    ELSE IF cursor < head THEN head ELSE IF cursor < tail THEN cursor + 1 ELSE cursor

\* Where Collect begins to read: after the tail without a cursor, and at the
\* head if the cursor is not one.  After SeekCursor it calls Next once, which
\* skips the entry of the cursor, or the oldest entry if that one is gone.
Start ==
    IF cursor = NoCursor THEN tail
    ELSE IF cursor = Garbage THEN head - 1
    ELSE IF cursor < head THEN head ELSE cursor

\* The journal is opened and sought.  Its files stay readable while open.
Seek ==
    /\ Goto("seek", "read")
    /\ pos' = Start
    /\ forgone' = IF cursor = NoCursor THEN tail ELSE forgone
    /\ UNCHANGED <<journal, accepted, cursor, spool, base, batch, counters>>

\* Entries are read up to the limit or the end; without any, shipLogs returns.
Read ==
    /\ pc = "read"
    /\ batch' = IF tail - pos < LogBatchSize THEN tail ELSE pos + LogBatchSize
    /\ pc' = IF batch' = pos THEN "idle" ELSE "send"
    /\ UNCHANGED <<journal, accepted, host, pos, counters>>

\* The cursor file or the journal cannot be read: the entries are dropped.
CollectFails ==
    /\ pc \in {"seek", "read"}
    /\ pc' = "idle"
    /\ Fail
    /\ UNCHANGED <<journal, accepted, host, memory, crashes>>

Send ==
    /\ Goto("send", "cursor")
    /\ Accepts(pos, batch)
    /\ UNCHANGED <<journal, host, memory, counters>>

\* Every attempt of retry fails, though the server may have accepted the batch.
SendFails ==
    /\ Goto("send", "spool")
    /\ Fail
    /\ Accepts(pos, batch) \/ UNCHANGED accepted
    /\ UNCHANGED <<journal, host, memory, crashes>>

File(torn) == [first |-> pos, last |-> batch, torn |-> torn]

\* SaveSpool writes a temporary file and renames it; the cursor stays.
SaveSpool ==
    /\ Goto("spool", "idle")
    /\ spool' = Append(spool, File(FALSE))
    /\ UNCHANGED <<journal, accepted, cursor, base, forgone, memory, counters>>

\* An error or a crash in SaveSpool: no file, the whole temporary file or half
\* of it.  DrainSpool sends temporary files like the others.
SpoolCut ==
    \/ UNCHANGED spool
    \/ spool' = Append(spool, File(FALSE))
    \/ TornWrites /\ spool' = Append(spool, File(TRUE))

SaveSpoolFails ==
    /\ Goto("spool", "idle")
    /\ Fail
    /\ SpoolCut
    /\ UNCHANGED <<journal, accepted, cursor, base, forgone, memory, crashes>>

WriteCursor ==
    /\ Goto("cursor", "idle")
    /\ cursor' = batch
    /\ base' = IF pos = cursor /\ cursor # NoCursor THEN base ELSE pos
    /\ UNCHANGED <<journal, accepted, spool, forgone, memory, counters>>

\* os.WriteFile truncates the file before it writes.
CursorCut == UNCHANGED cursor \/ (TornWrites /\ cursor' \in {NoCursor, Garbage})

WriteCursorFails ==
    /\ Goto("cursor", "idle")
    /\ Fail
    /\ CursorCut
    /\ UNCHANGED <<journal, accepted, spool, base, forgone, memory, crashes>>

\* The agent dies and is started again.
Crash ==
    /\ pc # "idle"
    /\ crashes < MaxCrashes
    /\ crashes' = crashes + 1
    /\ pc' = "idle"
    /\ pos' = 0 /\ batch' = 0
    /\ IF pc = "spool" THEN SpoolCut ELSE UNCHANGED spool
    /\ IF pc = "cursor" THEN CursorCut ELSE UNCHANGED cursor
    /\ UNCHANGED <<journal, accepted, base, forgone, failures>>

Journal == Log \/ Vacuum

Ship ==
    \/ Wake \/ DrainOne \/ DrainFails \/ DrainTorn \/ Drained
    \/ Seek \/ Read \/ CollectFails \/ Send \/ SendFails
    \/ SaveSpool \/ SaveSpoolFails \/ WriteCursor \/ WriteCursorFails

Next == Journal \/ Ship \/ Crash

Spec == Init /\ [][Next]_vars

\* The ticker starts a cycle every few seconds, and a cycle runs to its end.
FairSpec == Spec /\ WF_vars(Ship)

-----------------------------------------------------------------------------
(***************************************************************************)
(* Properties.                                                             *)
(***************************************************************************)

\* The server has accepted every entry up to the cursor, whatever failed, was
\* spooled or was torn on the way (main.go:118-142), but for what the code gives
\* up: the entries logged before a cycle that found no cursor, at the first
\* start or after the file was truncated, and those that journald dropped
\* before they were read, with the oldest that it kept.  A cursor file that
\* holds no cursor loses nothing: the journal is read from its head.
NothingSkipped ==
    \A e \in Entries : e <= cursor /\ e > forgone => e \in accepted

\* The spool never holds a second file, however long the server is away: a
\* cycle that cannot drain the spool collects nothing (main.go:113-115).
AtMostOneSpooled == Len(spool) <= 1

\* The end of the chain; a cursor that is lost confirms none.
Confirmed == IF cursor \in {NoCursor, Garbage} THEN base ELSE cursor

\* The agent promises LogDelivery: the chain of entries it confirms goes on
\* where it ended, and breaks only when the cursor or its entry is lost.
Promise == INSTANCE LogDelivery WITH cursor <- Confirmed
DeliversLogs == Promise!Spec

\* What the agent can lose: the cursor, and the turn of what comes after a
\* file of the spool that the server refuses.
Damaged == cursor = NoCursor \/ \E i \in 1 .. Len(spool) : spool[i].torn

\* Once the agent has a cursor, every entry logged after it is accepted in the
\* end, however many calls fail and crashes come before ("log shipping
\* deferred; will retry", main.go:90), unless journald drops it first or a file
\* of the agent is damaged.
LogsDelivered ==
    \A e \in Entries :
        (cursor \in Entries /\ cursor < e /\ e <= tail)
            ~> (e \in accepted \/ e <= head \/ Damaged)
=============================================================================
