------------------------- MODULE LogShipping_proofs -------------------------
(***************************************************************************)
(* Proofs about LogShipping: for every size of a batch and every bound, no *)
(* entry is skipped, the spool holds one file at most, and the agent keeps *)
(* the promise of LogDelivery.                                             *)
(***************************************************************************)
EXTENDS LogShipping, TLAPS

-----------------------------------------------------------------------------
(***************************************************************************)
(* The inductive invariant.                                                *)
(***************************************************************************)

\* Nothing is known of an entry that is not in the journal yet.
WithinJournal ==
    /\ head = 1 \/ head <= tail
    /\ pos <= tail /\ batch <= tail /\ base <= tail
    /\ cursor <= tail
    /\ accepted \subseteq 1 .. tail
    /\ \A i \in 1 .. Len(spool) : spool[i].last <= tail

\* Once the spool is drained it stays empty until the batch is spooled.
SpoolDrained == pc \notin {"idle", "drain"} => spool = <<>>

Holding == {"send", "spool", "cursor"}

\* A cycle that holds a batch goes on at the cursor unless that was vacuumed,
\* and gets to the cursor file with an accepted batch.
BatchFollows ==
    /\ pc \in Holding => pos < batch
    /\ pc \in Holding \cup {"read"} =>
            (cursor \in Entries => pos = cursor \/ cursor < head)
    /\ pc = "cursor" => Interval(pos, batch) \subseteq accepted

\* The chain of LogDelivery is accepted.
ChainAccepted == Interval(base, Confirmed) \subseteq accepted

\* What a cycle has read or passed, and what journald dropped, is accepted or
\* given up; a cursor that journald dropped has given up the oldest entry too.
PassedAccepted ==
    /\ forgone <= tail
    /\ \A e \in Entries : e < head /\ e > forgone => e \in accepted
    /\ cursor \in Entries /\ cursor < head => head <= forgone
    /\ pc \in Holding \cup {"read"} =>
          /\ pos + 1 < head => head <= forgone
          /\ \A e \in Entries : e <= pos /\ e > forgone => e \in accepted

IInv ==
    /\ TypeOK /\ WithinJournal /\ SpoolDrained /\ BatchFollows
    /\ ChainAccepted /\ AtMostOneSpooled /\ PassedAccepted /\ NothingSkipped

-----------------------------------------------------------------------------
LEMMA InitInv == Init => IInv
  BY BatchAssumption, BoundsAssumption
     DEF Init, IInv, TypeOK, WithinJournal, SpoolDrained, BatchFollows,
         Holding, ChainAccepted, AtMostOneSpooled, PassedAccepted, NothingSkipped,
         Interval, Confirmed, NoCursor, Garbage, Entries

-----------------------------------------------------------------------------
(***************************************************************************)
(* The types.  SaveSpool appends a file only to an empty spool.            *)
(***************************************************************************)
LEMMA FileType ==
    ASSUME TypeOK, pc = "spool", BatchFollows, NEW torn \in BOOLEAN
    PROVE  File(torn) \in Spooled
  BY DEF TypeOK, BatchFollows, Holding, File, Spooled, Entries

\* What is sent is in the journal.
LEMMA HeadFile ==
    ASSUME TypeOK, WithinJournal, spool # <<>>
    PROVE  /\ Interval(Head(spool).first, Head(spool).last) \subseteq 1 .. tail
           /\ Tail(spool) \in Seq(Spooled)
           /\ \A i \in 1 .. Len(Tail(spool)) : Tail(spool)[i].last <= tail
<1>1. Head(spool) = spool[1] /\ Len(spool) \in Nat \ {0} /\ spool[1] \in Spooled
  BY DEF TypeOK
<1>2. spool[1].first \in Nat /\ spool[1].last \in Nat
  BY <1>1, BoundsAssumption DEF Spooled, Entries
<1>3. spool[1].last <= tail
  BY <1>1 DEF WithinJournal
<1>4. Interval(Head(spool).first, Head(spool).last) \subseteq 1 .. tail
  BY <1>1, <1>2, <1>3 DEF TypeOK, Interval
<1>5. Tail(spool) \in Seq(Spooled)
  BY <1>1 DEF TypeOK
<1>6. ASSUME NEW i \in 1 .. Len(Tail(spool)) PROVE Tail(spool)[i].last <= tail
  BY <1>1, <1>6 DEF WithinJournal, TypeOK
<1> QED
  BY <1>4, <1>5, <1>6

\* The steps that extend the accepted entries, and those that spool a batch.
LEMMA Accepting ==
    ASSUME IInv, DrainOne \/ DrainFails \/ Send \/ SendFails
    PROVE  /\ accepted' \subseteq 1 .. tail /\ accepted' \in SUBSET Entries
           /\ accepted' = accepted \cup accepted'
<1> USE DEF IInv
<1>1. Interval(pos, batch) \subseteq 1 .. tail
  BY BoundsAssumption DEF TypeOK, WithinJournal, Interval
<1>2. accepted \subseteq 1 .. tail
  BY DEF WithinJournal
<1>3. accepted' \subseteq 1 .. tail
  <2>1. CASE DrainOne
    BY <2>1, <1>2, HeadFile DEF DrainOne, Accepts
  <2>2. CASE DrainFails
    BY <2>2, <1>2, HeadFile DEF DrainFails, Accepts
  <2>3. CASE Send
    BY <2>3, <1>1, <1>2 DEF Send, Accepts
  <2>4. CASE SendFails
    BY <2>4, <1>1, <1>2 DEF SendFails, Accepts
  <2> QED
    BY <2>1, <2>2, <2>3, <2>4
<1>4. 1 .. tail \subseteq Entries
  BY BoundsAssumption DEF TypeOK, Entries
<1>5. accepted' = accepted \cup accepted'
  BY DEF DrainOne, DrainFails, Send, SendFails, Accepts
<1> QED
  BY <1>3, <1>4, <1>5

LEMMA Spooling ==
    ASSUME IInv, SaveSpool \/ SaveSpoolFails \/ Crash
    PROVE  /\ spool' \in Seq(Spooled)
           /\ \A i \in 1 .. Len(spool') : spool'[i].last <= tail
           /\ Len(spool') <= 1
<1> USE DEF IInv
<1>1. CASE UNCHANGED spool
  BY <1>1 DEF TypeOK, WithinJournal, AtMostOneSpooled
<1>2. ASSUME NEW torn \in BOOLEAN, pc = "spool", spool' = Append(spool, File(torn))
      PROVE  /\ spool' \in Seq(Spooled)
             /\ \A i \in 1 .. Len(spool') : spool'[i].last <= tail
             /\ Len(spool') <= 1
  <2>1. spool = <<>>
    BY <1>2 DEF SpoolDrained
  <2>2. File(torn) \in Spooled
    BY <1>2, FileType
  <2>3. File(torn).last <= tail
    BY DEF File, WithinJournal
  <2> QED
    BY <1>2, <2>1, <2>2, <2>3
<1>3. \/ UNCHANGED spool
      \/ pc = "spool" /\ \E torn \in BOOLEAN : spool' = Append(spool, File(torn))
  BY DEF SaveSpool, SaveSpoolFails, Crash, SpoolCut, Goto
<1> QED
  BY <1>1, <1>2, <1>3

LEMMA TypeStep == ASSUME IInv, Next PROVE TypeOK'
<1> USE BatchAssumption, BoundsAssumption DEF IInv
<1>1. ASSUME Log PROVE TypeOK'
  BY <1>1 DEF Log, TypeOK, WithinJournal, BatchFollows, Holding, Entries,
     NoCursor, Garbage, journal, host, memory, counters
<1>2. ASSUME Vacuum PROVE TypeOK'
  BY <1>2 DEF Vacuum, TypeOK, WithinJournal, BatchFollows, Holding, Entries,
     NoCursor, Garbage, journal, host, memory, counters
<1>3. ASSUME Wake PROVE TypeOK'
  BY <1>3 DEF Wake, Goto, TypeOK, WithinJournal, BatchFollows, Holding,
     Entries, NoCursor, Garbage, journal, host, memory, counters
<1>4. ASSUME DrainOne PROVE TypeOK'
  BY HeadFile, Accepting, <1>4 DEF DrainOne, Goto, TypeOK, WithinJournal,
     BatchFollows, Holding, Entries, NoCursor, Garbage, journal, host, memory,
     counters
<1>5. ASSUME DrainFails PROVE TypeOK'
  BY Accepting, <1>5 DEF DrainFails, Fail, Goto, TypeOK, WithinJournal,
     BatchFollows, Holding, Entries, NoCursor, Garbage, journal, host, memory,
     counters
<1>6. ASSUME DrainTorn PROVE TypeOK'
  BY <1>6 DEF DrainTorn, Goto, TypeOK, WithinJournal, BatchFollows, Holding,
     Entries, NoCursor, Garbage, journal, host, memory, counters
<1>7. ASSUME Drained PROVE TypeOK'
  BY <1>7 DEF Drained, Goto, TypeOK, WithinJournal, BatchFollows, Holding,
     Entries, NoCursor, Garbage, journal, host, memory, counters
<1>8. ASSUME Seek PROVE TypeOK'
  BY <1>8 DEF Seek, Start, Goto, TypeOK, WithinJournal, BatchFollows, Holding,
     Entries, NoCursor, Garbage, journal, host, memory, counters
<1>9. ASSUME Read PROVE TypeOK'
  BY <1>9 DEF Read, TypeOK, WithinJournal, BatchFollows, Holding, Entries,
     NoCursor, Garbage, journal, host, memory, counters
<1>10. ASSUME CollectFails PROVE TypeOK'
  BY <1>10 DEF CollectFails, Fail, TypeOK, WithinJournal, BatchFollows,
     Holding, Entries, NoCursor, Garbage, journal, host, memory, counters
<1>11. ASSUME Send PROVE TypeOK'
  BY Accepting, <1>11 DEF Send, Goto, TypeOK, WithinJournal, BatchFollows,
     Holding, Entries, NoCursor, Garbage, journal, host, memory, counters
<1>12. ASSUME SendFails PROVE TypeOK'
  BY Accepting, <1>12 DEF SendFails, Fail, Goto, TypeOK, WithinJournal,
     BatchFollows, Holding, Entries, NoCursor, Garbage, journal, host, memory,
     counters
<1>13. ASSUME SaveSpool PROVE TypeOK'
  BY Spooling, <1>13 DEF SaveSpool, Goto, TypeOK, WithinJournal, BatchFollows,
     Holding, Entries, NoCursor, Garbage, journal, host, memory, counters
<1>14. ASSUME SaveSpoolFails PROVE TypeOK'
  BY Spooling, <1>14 DEF SaveSpoolFails, Fail, Goto, TypeOK, WithinJournal,
     BatchFollows, Holding, Entries, NoCursor, Garbage, journal, host, memory,
     counters
<1>15. ASSUME WriteCursor PROVE TypeOK'
  BY <1>15 DEF WriteCursor, Goto, TypeOK, WithinJournal, BatchFollows,
     Holding, Entries, NoCursor, Garbage, journal, host, memory, counters
<1>16. ASSUME WriteCursorFails PROVE TypeOK'
  BY <1>16 DEF WriteCursorFails, Fail, CursorCut, Goto, TypeOK, WithinJournal,
     BatchFollows, Holding, Entries, NoCursor, Garbage, journal, host, memory,
     counters
<1>17. ASSUME Crash PROVE TypeOK'
  BY Spooling, <1>17 DEF Crash, CursorCut, TypeOK, WithinJournal,
     BatchFollows, Holding, Entries, NoCursor, Garbage, journal, host, memory,
     counters
<1> QED
  BY <1>1, <1>2, <1>3, <1>4, <1>5, <1>6, <1>7, <1>8, <1>9, <1>10, <1>11,
     <1>12, <1>13, <1>14, <1>15, <1>16, <1>17 DEF Next, Journal, Ship

-----------------------------------------------------------------------------
LEMMA WithinStep == ASSUME IInv, Next PROVE WithinJournal'
<1> USE BatchAssumption, BoundsAssumption DEF IInv
<1>1. ASSUME Log PROVE WithinJournal'
  <2>1. ASSUME NEW i \in 1 .. Len(spool) PROVE spool[i].last \in Nat
    <3>1. spool[i] \in Spooled
      BY DEF TypeOK
    <3> QED
      BY <3>1 DEF Spooled, Entries
  <2>2. /\ tail' = tail + 1
        /\ UNCHANGED <<head, accepted, cursor, spool, base, pos, batch>>
    BY <1>1 DEF Log, host, memory
  <2>3. /\ head \in Nat /\ tail \in Nat /\ pos \in Nat /\ batch \in Nat /\ base \in Nat
        /\ cursor \in Int
    BY DEF TypeOK, Entries, NoCursor, Garbage
  <2>4. accepted \subseteq 1 .. tail + 1
    BY <2>3 DEF WithinJournal
  <2> QED
    BY <2>1, <2>2, <2>3, <2>4 DEF WithinJournal
<1>2. ASSUME Vacuum PROVE WithinJournal'
  BY <1>2 DEF Vacuum, TypeOK, WithinJournal, BatchFollows, SpoolDrained,
     Holding, Entries, NoCursor, Garbage, journal, host, memory, counters
<1>3. ASSUME Wake PROVE WithinJournal'
  BY <1>3 DEF Wake, Goto, TypeOK, WithinJournal, BatchFollows, SpoolDrained,
     Holding, Entries, NoCursor, Garbage, journal, host, memory, counters
<1>4. ASSUME DrainOne PROVE WithinJournal'
  BY HeadFile, Accepting, <1>4 DEF DrainOne, Goto, TypeOK, WithinJournal,
     BatchFollows, SpoolDrained, Holding, Entries, NoCursor, Garbage, journal,
     host, memory, counters
<1>5. ASSUME DrainFails PROVE WithinJournal'
  BY Accepting, <1>5 DEF DrainFails, Fail, Goto, TypeOK, WithinJournal,
     BatchFollows, SpoolDrained, Holding, Entries, NoCursor, Garbage, journal,
     host, memory, counters
<1>6. ASSUME DrainTorn PROVE WithinJournal'
  BY <1>6 DEF DrainTorn, Goto, TypeOK, WithinJournal, BatchFollows,
     SpoolDrained, Holding, Entries, NoCursor, Garbage, journal, host, memory,
     counters
<1>7. ASSUME Drained PROVE WithinJournal'
  BY <1>7 DEF Drained, Goto, TypeOK, WithinJournal, BatchFollows,
     SpoolDrained, Holding, Entries, NoCursor, Garbage, journal, host, memory,
     counters
<1>8. ASSUME Seek PROVE WithinJournal'
  BY <1>8 DEF Seek, Start, Goto, TypeOK, WithinJournal, BatchFollows,
     SpoolDrained, Holding, Entries, NoCursor, Garbage, journal, host, memory,
     counters
<1>9. ASSUME Read PROVE WithinJournal'
  BY <1>9 DEF Read, TypeOK, WithinJournal, BatchFollows, SpoolDrained,
     Holding, Entries, NoCursor, Garbage, journal, host, memory, counters
<1>10. ASSUME CollectFails PROVE WithinJournal'
  BY <1>10 DEF CollectFails, Fail, TypeOK, WithinJournal, BatchFollows,
     SpoolDrained, Holding, Entries, NoCursor, Garbage, journal, host, memory,
     counters
<1>11. ASSUME Send PROVE WithinJournal'
  BY Accepting, <1>11 DEF Send, Goto, TypeOK, WithinJournal, BatchFollows,
     SpoolDrained, Holding, Entries, NoCursor, Garbage, journal, host, memory,
     counters
<1>12. ASSUME SendFails PROVE WithinJournal'
  BY Accepting, <1>12 DEF SendFails, Fail, Goto, TypeOK, WithinJournal,
     BatchFollows, SpoolDrained, Holding, Entries, NoCursor, Garbage, journal,
     host, memory, counters
<1>13. ASSUME SaveSpool PROVE WithinJournal'
  BY Spooling, <1>13 DEF SaveSpool, Goto, TypeOK, WithinJournal, BatchFollows,
     SpoolDrained, Holding, Entries, NoCursor, Garbage, journal, host, memory,
     counters
<1>14. ASSUME SaveSpoolFails PROVE WithinJournal'
  BY Spooling, <1>14 DEF SaveSpoolFails, Fail, Goto, TypeOK, WithinJournal,
     BatchFollows, SpoolDrained, Holding, Entries, NoCursor, Garbage, journal,
     host, memory, counters
<1>15. ASSUME WriteCursor PROVE WithinJournal'
  BY <1>15 DEF WriteCursor, Goto, TypeOK, WithinJournal, BatchFollows,
     SpoolDrained, Holding, Entries, NoCursor, Garbage, journal, host, memory,
     counters
<1>16. ASSUME WriteCursorFails PROVE WithinJournal'
  BY <1>16 DEF WriteCursorFails, Fail, CursorCut, Goto, TypeOK, WithinJournal,
     BatchFollows, SpoolDrained, Holding, Entries, NoCursor, Garbage, journal,
     host, memory, counters
<1>17. ASSUME Crash PROVE WithinJournal'
  BY Spooling, <1>17 DEF Crash, CursorCut, TypeOK, WithinJournal,
     BatchFollows, SpoolDrained, Holding, Entries, NoCursor, Garbage, journal,
     host, memory, counters
<1> QED
  BY <1>1, <1>2, <1>3, <1>4, <1>5, <1>6, <1>7, <1>8, <1>9, <1>10, <1>11,
     <1>12, <1>13, <1>14, <1>15, <1>16, <1>17 DEF Next, Journal, Ship

-----------------------------------------------------------------------------
LEMMA SpoolStep == ASSUME IInv, Next PROVE SpoolDrained' /\ AtMostOneSpooled'
<1> USE BatchAssumption, BoundsAssumption DEF IInv
<1>1. ASSUME Log PROVE SpoolDrained' /\ AtMostOneSpooled'
  BY <1>1 DEF Log, TypeOK, SpoolDrained, AtMostOneSpooled, Spooled, journal,
     host, memory, counters
<1>2. ASSUME Vacuum PROVE SpoolDrained' /\ AtMostOneSpooled'
  BY <1>2 DEF Vacuum, TypeOK, SpoolDrained, AtMostOneSpooled, Spooled,
     journal, host, memory, counters
<1>3. ASSUME Wake PROVE SpoolDrained' /\ AtMostOneSpooled'
  BY <1>3 DEF Wake, Goto, TypeOK, SpoolDrained, AtMostOneSpooled, Spooled,
     journal, host, memory, counters
<1>4. ASSUME DrainOne PROVE SpoolDrained' /\ AtMostOneSpooled'
  BY <1>4 DEF DrainOne, Accepts, Goto, TypeOK, SpoolDrained, AtMostOneSpooled,
     Spooled, journal, host, memory, counters
<1>5. ASSUME DrainFails PROVE SpoolDrained' /\ AtMostOneSpooled'
  BY <1>5 DEF DrainFails, Fail, Accepts, Goto, TypeOK, SpoolDrained,
     AtMostOneSpooled, Spooled, journal, host, memory, counters
<1>6. ASSUME DrainTorn PROVE SpoolDrained' /\ AtMostOneSpooled'
  BY <1>6 DEF DrainTorn, Goto, TypeOK, SpoolDrained, AtMostOneSpooled,
     Spooled, journal, host, memory, counters
<1>7. ASSUME Drained PROVE SpoolDrained' /\ AtMostOneSpooled'
  BY <1>7 DEF Drained, Goto, TypeOK, SpoolDrained, AtMostOneSpooled, Spooled,
     journal, host, memory, counters
<1>8. ASSUME Seek PROVE SpoolDrained' /\ AtMostOneSpooled'
  BY <1>8 DEF Seek, Start, Goto, TypeOK, SpoolDrained, AtMostOneSpooled,
     Spooled, journal, host, memory, counters
<1>9. ASSUME Read PROVE SpoolDrained' /\ AtMostOneSpooled'
  BY <1>9 DEF Read, TypeOK, SpoolDrained, AtMostOneSpooled, Spooled, journal,
     host, memory, counters
<1>10. ASSUME CollectFails PROVE SpoolDrained' /\ AtMostOneSpooled'
  BY <1>10 DEF CollectFails, Fail, TypeOK, SpoolDrained, AtMostOneSpooled,
     Spooled, journal, host, memory, counters
<1>11. ASSUME Send PROVE SpoolDrained' /\ AtMostOneSpooled'
  BY <1>11 DEF Send, Accepts, Goto, TypeOK, SpoolDrained, AtMostOneSpooled,
     Spooled, journal, host, memory, counters
<1>12. ASSUME SendFails PROVE SpoolDrained' /\ AtMostOneSpooled'
  BY <1>12 DEF SendFails, Accepts, Fail, Goto, TypeOK, SpoolDrained,
     AtMostOneSpooled, Spooled, journal, host, memory, counters
<1>13. ASSUME SaveSpool PROVE SpoolDrained' /\ AtMostOneSpooled'
  BY Spooling, <1>13 DEF SaveSpool, Goto, TypeOK, SpoolDrained,
     AtMostOneSpooled, Spooled, journal, host, memory, counters
<1>14. ASSUME SaveSpoolFails PROVE SpoolDrained' /\ AtMostOneSpooled'
  BY Spooling, <1>14 DEF SaveSpoolFails, Fail, Goto, TypeOK, SpoolDrained,
     AtMostOneSpooled, Spooled, journal, host, memory, counters
<1>15. ASSUME WriteCursor PROVE SpoolDrained' /\ AtMostOneSpooled'
  BY <1>15 DEF WriteCursor, Goto, TypeOK, SpoolDrained, AtMostOneSpooled,
     Spooled, journal, host, memory, counters
<1>16. ASSUME WriteCursorFails PROVE SpoolDrained' /\ AtMostOneSpooled'
  BY <1>16 DEF WriteCursorFails, Fail, CursorCut, Goto, TypeOK, SpoolDrained,
     AtMostOneSpooled, Spooled, journal, host, memory, counters
<1>17. ASSUME Crash PROVE SpoolDrained' /\ AtMostOneSpooled'
  BY Spooling, <1>17 DEF Crash, CursorCut, TypeOK, SpoolDrained,
     AtMostOneSpooled, Spooled, journal, host, memory, counters
<1> QED
  BY <1>1, <1>2, <1>3, <1>4, <1>5, <1>6, <1>7, <1>8, <1>9, <1>10, <1>11,
     <1>12, <1>13, <1>14, <1>15, <1>16, <1>17 DEF Next, Journal, Ship

-----------------------------------------------------------------------------
LEMMA ChainStep == ASSUME IInv, Next PROVE BatchFollows' /\ ChainAccepted'
<1> USE BatchAssumption, BoundsAssumption DEF IInv
<1>1. ASSUME Log PROVE BatchFollows' /\ ChainAccepted'
  BY <1>1 DEF Log, TypeOK, WithinJournal, BatchFollows, Holding,
     ChainAccepted, Confirmed, Interval, Entries, NoCursor, Garbage, journal,
     host, memory, counters
<1>2. ASSUME Vacuum PROVE BatchFollows' /\ ChainAccepted'
  BY <1>2 DEF Vacuum, TypeOK, WithinJournal, BatchFollows, Holding,
     ChainAccepted, Confirmed, Interval, Entries, NoCursor, Garbage, journal,
     host, memory, counters
<1>3. ASSUME Wake PROVE BatchFollows' /\ ChainAccepted'
  BY <1>3 DEF Wake, Goto, TypeOK, WithinJournal, BatchFollows, Holding,
     ChainAccepted, Confirmed, Interval, Entries, NoCursor, Garbage, journal,
     host, memory, counters
<1>4. ASSUME DrainOne PROVE BatchFollows' /\ ChainAccepted'
  BY <1>4 DEF DrainOne, Accepts, Goto, TypeOK, WithinJournal, BatchFollows,
     Holding, ChainAccepted, Confirmed, Interval, Entries, NoCursor, Garbage,
     journal, host, memory, counters
<1>5. ASSUME DrainFails PROVE BatchFollows' /\ ChainAccepted'
  BY <1>5 DEF DrainFails, Fail, Accepts, Goto, TypeOK, WithinJournal,
     BatchFollows, Holding, ChainAccepted, Confirmed, Interval, Entries,
     NoCursor, Garbage, journal, host, memory, counters
<1>6. ASSUME DrainTorn PROVE BatchFollows' /\ ChainAccepted'
  BY <1>6 DEF DrainTorn, Goto, TypeOK, WithinJournal, BatchFollows, Holding,
     ChainAccepted, Confirmed, Interval, Entries, NoCursor, Garbage, journal,
     host, memory, counters
<1>7. ASSUME Drained PROVE BatchFollows' /\ ChainAccepted'
  BY <1>7 DEF Drained, Goto, TypeOK, WithinJournal, BatchFollows, Holding,
     ChainAccepted, Confirmed, Interval, Entries, NoCursor, Garbage, journal,
     host, memory, counters
<1>8. ASSUME Seek PROVE BatchFollows' /\ ChainAccepted'
  BY <1>8 DEF Seek, Start, Goto, TypeOK, WithinJournal, BatchFollows, Holding,
     ChainAccepted, Confirmed, Interval, Entries, NoCursor, Garbage, journal,
     host, memory, counters
<1>9. ASSUME Read PROVE BatchFollows' /\ ChainAccepted'
  BY <1>9 DEF Read, TypeOK, WithinJournal, BatchFollows, Holding,
     ChainAccepted, Confirmed, Interval, Entries, NoCursor, Garbage, journal,
     host, memory, counters
<1>10. ASSUME CollectFails PROVE BatchFollows' /\ ChainAccepted'
  BY <1>10 DEF CollectFails, Fail, TypeOK, WithinJournal, BatchFollows,
     Holding, ChainAccepted, Confirmed, Interval, Entries, NoCursor, Garbage,
     journal, host, memory, counters
<1>11. ASSUME Send PROVE BatchFollows' /\ ChainAccepted'
  BY <1>11 DEF Send, Accepts, Goto, TypeOK, WithinJournal, BatchFollows,
     Holding, ChainAccepted, Confirmed, Interval, Entries, NoCursor, Garbage,
     journal, host, memory, counters
<1>12. ASSUME SendFails PROVE BatchFollows' /\ ChainAccepted'
  BY <1>12 DEF SendFails, Accepts, Fail, Goto, TypeOK, WithinJournal,
     BatchFollows, Holding, ChainAccepted, Confirmed, Interval, Entries,
     NoCursor, Garbage, journal, host, memory, counters
<1>13. ASSUME SaveSpool PROVE BatchFollows' /\ ChainAccepted'
  BY <1>13 DEF SaveSpool, Goto, TypeOK, WithinJournal, BatchFollows, Holding,
     ChainAccepted, Confirmed, Interval, Entries, NoCursor, Garbage, journal,
     host, memory, counters
<1>14. ASSUME SaveSpoolFails PROVE BatchFollows' /\ ChainAccepted'
  BY <1>14 DEF SaveSpoolFails, Fail, Goto, TypeOK, WithinJournal,
     BatchFollows, Holding, ChainAccepted, Confirmed, Interval, Entries,
     NoCursor, Garbage, journal, host, memory, counters
<1>15. ASSUME WriteCursor PROVE BatchFollows' /\ ChainAccepted'
  BY <1>15 DEF WriteCursor, Goto, TypeOK, WithinJournal, BatchFollows,
     Holding, ChainAccepted, Confirmed, Interval, Entries, NoCursor, Garbage,
     journal, host, memory, counters
<1>16. ASSUME WriteCursorFails PROVE BatchFollows' /\ ChainAccepted'
  BY <1>16 DEF WriteCursorFails, Fail, CursorCut, Goto, TypeOK, WithinJournal,
     BatchFollows, Holding, ChainAccepted, Confirmed, Interval, Entries,
     NoCursor, Garbage, journal, host, memory, counters
<1>17. ASSUME Crash PROVE BatchFollows' /\ ChainAccepted'
  BY <1>17 DEF Crash, CursorCut, TypeOK, WithinJournal, BatchFollows, Holding,
     ChainAccepted, Confirmed, Interval, Entries, NoCursor, Garbage, journal,
     host, memory, counters
<1> QED
  BY <1>1, <1>2, <1>3, <1>4, <1>5, <1>6, <1>7, <1>8, <1>9, <1>10, <1>11,
     <1>12, <1>13, <1>14, <1>15, <1>16, <1>17 DEF Next, Journal, Ship

-----------------------------------------------------------------------------
(***************************************************************************)
(* What the cursor passes.                                                 *)
(***************************************************************************)

\* The steps that leave the cursor, the journal and what was read where they are
\* keep it, as accepted entries stay accepted.
LEMMA PassedKept ==
    ASSUME IInv, accepted \subseteq accepted',
           UNCHANGED <<head, tail, forgone, pos>>,
           cursor' = cursor \/ cursor' \in {NoCursor, Garbage},
           \/ pc' \notin Holding \cup {"read"}
           \/ pc \in Holding \cup {"read"}
    PROVE  PassedAccepted' /\ NothingSkipped'
<1> USE BoundsAssumption DEF IInv, NoCursor, Garbage, Entries
<1>1. PassedAccepted'
  BY DEF PassedAccepted
<1>2. NothingSkipped'
  BY DEF NothingSkipped
<1> QED
  BY <1>1, <1>2

LEMMA PassedStep == ASSUME IInv, Next PROVE PassedAccepted' /\ NothingSkipped'
<1> USE BatchAssumption, BoundsAssumption DEF IInv
<1> DEFINE Goal == PassedAccepted' /\ NothingSkipped'
<1>1. ASSUME Log PROVE Goal
  BY <1>1 DEF Log, TypeOK, PassedAccepted, NothingSkipped, host, memory
<1>2. ASSUME Vacuum PROVE Goal
  <2>1. /\ head' \in head + 1 .. tail
        /\ forgone' = IF cursor < head' /\ forgone < head' THEN head' ELSE forgone
        /\ UNCHANGED <<tail, accepted, cursor, pc, pos>>
    BY <1>2 DEF Vacuum, memory
  <2>2. /\ head \in Nat /\ tail \in Nat /\ pos \in Nat /\ cursor \in Int
        /\ forgone \in Nat /\ Entries \subseteq Nat
    BY DEF TypeOK, Entries, NoCursor, Garbage
  <2>3. forgone' >= forgone /\ forgone' <= tail
    BY <2>1, <2>2 DEF PassedAccepted
  <2>4. cursor < head' => head' <= forgone'
    BY <2>1, <2>2
  <2>5. ASSUME NEW e \in Entries, e < head', e > forgone' PROVE e \in accepted
    BY <2>1, <2>2, <2>3, <2>4, <2>5 DEF NothingSkipped
  <2>6. ASSUME pc \in Holding \cup {"read"}, pos + 1 < head' PROVE head' <= forgone'
    <3>1. CASE cursor < head'
      BY <2>4, <3>1
    <3>2. CASE cursor >= head'
      <4>1. cursor \in Entries
        BY <2>1, <2>2, <3>2 DEF TypeOK, NoCursor, Garbage
      <4>2. pos = cursor \/ cursor < head
        BY <2>6, <4>1 DEF BatchFollows
      <4> QED
        BY <2>1, <2>2, <2>6, <3>2, <4>2
    <3> QED
      BY <2>1, <2>2, <3>1, <3>2
  <2>7. PassedAccepted'
    BY <2>1, <2>2, <2>3, <2>4, <2>5, <2>6 DEF PassedAccepted
  <2>8. NothingSkipped'
    BY <2>1, <2>2, <2>3 DEF NothingSkipped
  <2> QED
    BY <2>7, <2>8
<1>3. ASSUME Wake PROVE Goal
  BY <1>3, PassedKept DEF Wake, Goto, Holding, journal, host, memory
<1>4. ASSUME DrainOne PROVE Goal
  BY <1>4, PassedKept DEF DrainOne, Accepts, Goto, Holding, journal, memory
<1>5. ASSUME DrainFails PROVE Goal
  BY <1>5, PassedKept DEF DrainFails, Accepts, Goto, Holding, journal, host, memory
<1>6. ASSUME DrainTorn PROVE Goal
  BY <1>6, PassedKept DEF DrainTorn, Goto, Holding, journal, host, memory
<1>7. ASSUME Drained PROVE Goal
  BY <1>7, PassedKept DEF Drained, Goto, Holding, journal, host, memory
<1>8. ASSUME Seek PROVE Goal
  <2>1. /\ pc = "seek" /\ pc' = "read" /\ pos' = Start
        /\ forgone' = IF cursor = NoCursor THEN tail ELSE forgone
        /\ UNCHANGED <<head, tail, accepted, cursor>>
    BY <1>8 DEF Seek, Goto, journal
  <2>2. /\ head \in Nat \ {0} /\ tail \in Nat /\ cursor \in Int
        /\ forgone \in Nat /\ Entries \subseteq Nat
        /\ forgone <= tail /\ head <= tail + 1
    BY DEF TypeOK, Entries, NoCursor, Garbage, PassedAccepted, WithinJournal
  <2>3. CASE cursor = NoCursor
    BY <2>1, <2>2, <2>3 DEF Start, PassedAccepted, NothingSkipped, NoCursor, Entries
  <2>4. CASE cursor = Garbage
    BY <2>1, <2>2, <2>4 DEF Start, PassedAccepted, NothingSkipped, NoCursor, Garbage, Entries
  <2>5. CASE cursor \in Entries
    BY <2>1, <2>2, <2>5 DEF Start, PassedAccepted, NothingSkipped, NoCursor, Garbage, Entries
  <2> QED
    BY <2>3, <2>4, <2>5 DEF TypeOK
<1>9. ASSUME Read PROVE Goal
  BY <1>9, PassedKept DEF Read, Holding, journal, host
<1>10. ASSUME CollectFails PROVE Goal
  BY <1>10, PassedKept DEF CollectFails, Holding, journal, host, memory
<1>11. ASSUME Send PROVE Goal
  BY <1>11, PassedKept DEF Send, Accepts, Goto, Holding, journal, host, memory
<1>12. ASSUME SendFails PROVE Goal
  BY <1>12, PassedKept DEF SendFails, Accepts, Goto, Holding, journal, host, memory
<1>13. ASSUME SaveSpool PROVE Goal
  BY <1>13, PassedKept DEF SaveSpool, Goto, Holding, journal, memory
<1>14. ASSUME SaveSpoolFails PROVE Goal
  BY <1>14, PassedKept DEF SaveSpoolFails, Goto, Holding, journal, memory
<1>15. ASSUME WriteCursor PROVE Goal
  <2>1. /\ pc = "cursor" /\ pc' = "idle" /\ cursor' = batch
        /\ UNCHANGED <<head, tail, accepted, forgone>>
    BY <1>15 DEF WriteCursor, Goto, journal
  <2>2. /\ head \in Nat /\ pos \in Nat /\ batch \in Nat /\ pos < batch
        /\ forgone \in Nat /\ Entries \subseteq Nat
        /\ Interval(pos, batch) \subseteq accepted
    BY <2>1 DEF TypeOK, Entries, BatchFollows, Holding
  <2>3. /\ pos + 1 < head => head <= forgone
        /\ \A e \in Entries : e <= pos /\ e > forgone => e \in accepted
    BY <2>1 DEF PassedAccepted, Holding
  <2>4. PassedAccepted'
    BY <2>1, <2>2, <2>3 DEF PassedAccepted, Holding
  <2>5. NothingSkipped'
    BY <2>1, <2>2, <2>3 DEF NothingSkipped, Interval
  <2> QED
    BY <2>4, <2>5
<1>16. ASSUME WriteCursorFails PROVE Goal
  BY <1>16, PassedKept DEF WriteCursorFails, CursorCut, Goto, Holding, journal, memory
<1>17. ASSUME Crash PROVE Goal
  <2>1. /\ pc' = "idle" /\ UNCHANGED <<head, tail, accepted, forgone>>
        /\ cursor' = cursor \/ cursor' \in {NoCursor, Garbage}
    BY <1>17 DEF Crash, CursorCut, journal
  <2> QED
    BY <2>1 DEF PassedAccepted, NothingSkipped, Holding, NoCursor, Garbage, Entries
<1> QED
  BY <1>1, <1>2, <1>3, <1>4, <1>5, <1>6, <1>7, <1>8, <1>9, <1>10, <1>11,
     <1>12, <1>13, <1>14, <1>15, <1>16, <1>17 DEF Next, Journal, Ship

-----------------------------------------------------------------------------
THEOREM Invariance == Spec => []IInv
<1>1. IInv /\ [Next]_vars => IInv'
  <2> SUFFICES ASSUME IInv, [Next]_vars PROVE IInv'
    OBVIOUS
  <2>1. CASE Next
    BY <2>1, TypeStep, WithinStep, SpoolStep, ChainStep, PassedStep DEF IInv
  <2>2. CASE UNCHANGED vars
    BY <2>2
       DEF vars, IInv, TypeOK, WithinJournal, SpoolDrained, BatchFollows,
           ChainAccepted, AtMostOneSpooled, Confirmed, PassedAccepted,
           NothingSkipped
  <2> QED
    BY <2>1, <2>2
<1> QED
  BY InitInv, <1>1, PTL DEF Spec

\* The variables keep their types.
THEOREM ShippingTypeCorrect == Spec => []TypeOK
<1>1. IInv => TypeOK
  BY DEF IInv
<1> QED
  BY Invariance, <1>1, PTL

\* Every entry up to the cursor is accepted, but for those that a lost cursor or
\* journald made the agent give up, for any number of failures and crashes.
THEOREM CursorSkipsNothing == Spec => []NothingSkipped
<1>1. IInv => NothingSkipped
  BY DEF IInv
<1> QED
  BY Invariance, <1>1, PTL

\* The spool never holds a second file.
THEOREM SpoolBounded == Spec => []AtMostOneSpooled
<1>1. IInv => AtMostOneSpooled
  BY DEF IInv
<1> QED
  BY Invariance, <1>1, PTL

-----------------------------------------------------------------------------
(***************************************************************************)
(* The promise: every step of the agent is a step of LogDelivery.          *)
(***************************************************************************)
LEMMA PromiseInit == Init => Promise!Init
  BY DEF Init, Promise!Init, Confirmed, NoCursor

LEMMA PromiseStep == ASSUME IInv, Next PROVE [Promise!Next]_Promise!vars
<1> USE BatchAssumption, BoundsAssumption DEF IInv
<1>1. ASSUME Log PROVE [Promise!Next]_Promise!vars
  BY <1>1 DEF Log, Promise!vars, Promise!Next, Promise!Log, TypeOK,
     WithinJournal, BatchFollows, Holding, ChainAccepted, Confirmed,
     Interval, Entries, NoCursor, Garbage, journal, host, memory, counters
<1>2. ASSUME Vacuum PROVE [Promise!Next]_Promise!vars
  BY <1>2 DEF Vacuum, Promise!vars, Promise!Next, Promise!Vacuum, TypeOK,
     WithinJournal, BatchFollows, Holding, ChainAccepted, Confirmed,
     Interval, Entries, NoCursor, Garbage, journal, host, memory, counters
<1>3. ASSUME Wake PROVE [Promise!Next]_Promise!vars
  BY <1>3 DEF Wake, Goto, Promise!vars, Promise!Next, TypeOK, WithinJournal,
     BatchFollows, Holding, ChainAccepted, Confirmed, Interval, Entries,
     NoCursor, Garbage, journal, host, memory, counters
<1>4. ASSUME DrainOne PROVE [Promise!Next]_Promise!vars
  <2>1. accepted' \in SUBSET (1 .. tail) /\ accepted' = accepted \cup accepted'
    BY <1>4, Accepting
  <2>2. UNCHANGED <<head, tail, base, Confirmed>>
    BY <1>4 DEF DrainOne, Goto, Confirmed, journal, host, memory, counters
  <2> QED
    BY <2>1, <2>2 DEF Promise!Next, Promise!Accept
<1>5. ASSUME DrainFails PROVE [Promise!Next]_Promise!vars
  <2>1. accepted' \in SUBSET (1 .. tail) /\ accepted' = accepted \cup accepted'
    BY <1>5, Accepting
  <2>2. UNCHANGED <<head, tail, base, Confirmed>>
    BY <1>5 DEF DrainFails, Goto, Confirmed, journal, host, memory, counters
  <2> QED
    BY <2>1, <2>2 DEF Promise!Next, Promise!Accept
<1>6. ASSUME DrainTorn PROVE [Promise!Next]_Promise!vars
  BY <1>6 DEF DrainTorn, Goto, Promise!vars, Promise!Next, TypeOK,
     WithinJournal, BatchFollows, Holding, ChainAccepted, Confirmed,
     Interval, Entries, NoCursor, Garbage, journal, host, memory, counters
<1>7. ASSUME Drained PROVE [Promise!Next]_Promise!vars
  BY <1>7 DEF Drained, Goto, Promise!vars, Promise!Next, TypeOK,
     WithinJournal, BatchFollows, Holding, ChainAccepted, Confirmed,
     Interval, Entries, NoCursor, Garbage, journal, host, memory, counters
<1>8. ASSUME Seek PROVE [Promise!Next]_Promise!vars
  BY <1>8 DEF Seek, Goto, Promise!vars, Promise!Next, TypeOK, WithinJournal,
     BatchFollows, Holding, ChainAccepted, Confirmed, Interval, Entries,
     NoCursor, Garbage, journal, host, memory, counters
<1>9. ASSUME Read PROVE [Promise!Next]_Promise!vars
  BY <1>9 DEF Read, Promise!vars, Promise!Next, TypeOK, WithinJournal,
     BatchFollows, Holding, ChainAccepted, Confirmed, Interval, Entries,
     NoCursor, Garbage, journal, host, memory, counters
<1>10. ASSUME CollectFails PROVE [Promise!Next]_Promise!vars
  BY <1>10 DEF CollectFails, Fail, Promise!vars, Promise!Next, TypeOK,
     WithinJournal, BatchFollows, Holding, ChainAccepted, Confirmed,
     Interval, Entries, NoCursor, Garbage, journal, host, memory, counters
<1>11. ASSUME Send PROVE [Promise!Next]_Promise!vars
  <2>1. accepted' \in SUBSET (1 .. tail) /\ accepted' = accepted \cup accepted'
    BY <1>11, Accepting
  <2>2. UNCHANGED <<head, tail, base, Confirmed>>
    BY <1>11 DEF Send, Goto, Confirmed, journal, host, memory, counters
  <2> QED
    BY <2>1, <2>2 DEF Promise!Next, Promise!Accept
<1>12. ASSUME SendFails PROVE [Promise!Next]_Promise!vars
  <2>1. accepted' \in SUBSET (1 .. tail) /\ accepted' = accepted \cup accepted'
    BY <1>12, Accepting
  <2>2. UNCHANGED <<head, tail, base, Confirmed>>
    BY <1>12 DEF SendFails, Goto, Confirmed, journal, host, memory, counters
  <2> QED
    BY <2>1, <2>2 DEF Promise!Next, Promise!Accept
<1>13. ASSUME SaveSpool PROVE [Promise!Next]_Promise!vars
  BY <1>13 DEF SaveSpool, Goto, Promise!vars, Promise!Next, TypeOK,
     WithinJournal, BatchFollows, Holding, ChainAccepted, Confirmed,
     Interval, Entries, NoCursor, Garbage, journal, host, memory, counters
<1>14. ASSUME SaveSpoolFails PROVE [Promise!Next]_Promise!vars
  BY <1>14 DEF SaveSpoolFails, Fail, Goto, Promise!vars, Promise!Next, TypeOK,
     WithinJournal, BatchFollows, Holding, ChainAccepted, Confirmed,
     Interval, Entries, NoCursor, Garbage, journal, host, memory, counters
<1>15. ASSUME WriteCursor PROVE [Promise!Next]_Promise!vars
  BY <1>15 DEF WriteCursor, Goto, Promise!vars, Promise!Next,
     Promise!Continue, Promise!Begin, TypeOK, WithinJournal, BatchFollows,
     Holding, ChainAccepted, Confirmed, Interval, Entries, NoCursor, Garbage,
     journal, host, memory, counters
<1>16. ASSUME WriteCursorFails PROVE [Promise!Next]_Promise!vars
  BY <1>16 DEF WriteCursorFails, Fail, CursorCut, Goto, Promise!vars,
     Promise!Next, Promise!Lose, TypeOK, WithinJournal, BatchFollows, Holding,
     ChainAccepted, Confirmed, Interval, Entries, NoCursor, Garbage, journal,
     host, memory, counters
<1>17. ASSUME Crash PROVE [Promise!Next]_Promise!vars
  BY <1>17 DEF Crash, CursorCut, Promise!vars, Promise!Next, Promise!Lose,
     TypeOK, WithinJournal, BatchFollows, Holding, ChainAccepted, Confirmed,
     Interval, Entries, NoCursor, Garbage, journal, host, memory, counters
<1> QED
  BY <1>1, <1>2, <1>3, <1>4, <1>5, <1>6, <1>7, <1>8, <1>9, <1>10, <1>11,
     <1>12, <1>13, <1>14, <1>15, <1>16, <1>17 DEF Next, Journal, Ship

\* The agent implements LogDelivery, for every size of a batch and every bound.
THEOREM AgentDeliversLogs == Spec => DeliversLogs
<1>1. IInv /\ [Next]_vars => [Promise!Next]_Promise!vars
  <2> SUFFICES ASSUME IInv, [Next]_vars PROVE [Promise!Next]_Promise!vars
    OBVIOUS
  <2>1. CASE Next
    BY <2>1, PromiseStep
  <2>2. CASE UNCHANGED vars
    BY <2>2 DEF vars, Promise!vars, Confirmed
  <2> QED
    BY <2>1, <2>2
<1> QED
  BY PromiseInit, Invariance, <1>1, PTL DEF Spec, DeliversLogs, Promise!Spec
=============================================================================
