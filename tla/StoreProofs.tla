---------------------------- MODULE StoreProofs -----------------------------
(***************************************************************************)
(* What the repository guarantees for every set of processes and of        *)
(* transactions and every choice of faults, while one process has the      *)
(* directory open at a time.                                               *)
(***************************************************************************)
EXTENDS Store, SequenceTheorems, TLAPS

-----------------------------------------------------------------------------
(* Prefixes of histories.                                                  *)

\* A prefix is what agrees on every index it has (the comparison of histories
\* behind every property of the store).
LEMMA PrefixByIndex ==
    ASSUME NEW h \in History, NEW s \in History
    PROVE  IsPrefix(h, s) <=> Len(h) <= Len(s) /\ \A i \in 1..Len(h) : h[i] = s[i]
<1>1. SubSeq(h, 1, Len(h)) = h
    BY SubSeqFull DEF History
<1>2. ASSUME Len(h) <= Len(s)
      PROVE  /\ SubSeq(s, 1, Len(h)) \in History
             /\ Len(SubSeq(s, 1, Len(h))) = Len(h)
             /\ \A i \in 1..Len(h) : SubSeq(s, 1, Len(h))[i] = s[i]
    BY <1>2, SubSeqProperties, LenProperties DEF History
<1>3. CASE Len(h) <= Len(s)
    BY <1>1, <1>2, <1>3, SeqEqual DEF IsPrefix, History
<1>4. CASE ~(Len(h) <= Len(s))
    BY <1>4 DEF IsPrefix
<1> QED
    BY <1>3, <1>4

\* Every history is a prefix of itself.
LEMMA PrefixReflexive ==
    ASSUME NEW h \in History
    PROVE  IsPrefix(h, h)
BY PrefixByIndex, LenProperties DEF History

\* What continues a continuation of h continues h.
LEMMA PrefixTransitive ==
    ASSUME NEW h \in History, NEW s \in History, NEW u \in History,
           IsPrefix(h, s), IsPrefix(s, u)
    PROVE  IsPrefix(h, u)
<1>1. Len(h) \in Nat /\ Len(s) \in Nat /\ Len(u) \in Nat
    BY LenProperties DEF History
<1>2. Len(h) <= Len(s) /\ \A i \in 1..Len(h) : h[i] = s[i]
    BY PrefixByIndex
<1>3. Len(s) <= Len(u) /\ \A i \in 1..Len(s) : s[i] = u[i]
    BY PrefixByIndex
<1>4. Len(h) <= Len(u) /\ \A i \in 1..Len(h) : h[i] = u[i]
    BY <1>1, <1>2, <1>3
<1> QED
    BY <1>4, PrefixByIndex

\* One more transaction continues a history.
LEMMA PrefixAppend ==
    ASSUME NEW h \in History, NEW t \in Txn
    PROVE  Append(h, t) \in History /\ IsPrefix(h, Append(h, t))
<1>1. Append(h, t) \in History
    BY DEF History
<1>2. Len(h) <= Len(Append(h, t)) /\ \A i \in 1..Len(h) : h[i] = Append(h, t)[i]
    BY LenProperties DEF History
<1> QED
    BY <1>1, <1>2, PrefixByIndex

\* Nothing but the empty history precedes the empty history, and it precedes all.
LEMMA PrefixOfEmpty ==
    ASSUME NEW h \in History, NEW s \in History, IsPrefix(h, << >>)
    PROVE  IsPrefix(h, s)
<1>1. << >> \in History /\ Len(<< >>) = 0
    BY EmptySeq DEF History
<1>2. Len(h) <= Len(<< >>)
    BY <1>1, PrefixByIndex
<1>3. Len(h) \in Nat /\ Len(s) \in Nat
    BY LenProperties DEF History
<1>4. Len(h) = 0
    BY <1>1, <1>2, <1>3
<1>5. Len(h) <= Len(s) /\ \A i \in 1..Len(h) : h[i] = s[i]
    BY <1>3, <1>4
<1> QED
    BY <1>5, PrefixByIndex

-----------------------------------------------------------------------------
(* Files as sequences of lines.                                            *)

\* Appending to a journal, whole or in part, and losing its unsynced end leave
\* a journal made of the same kinds of lines (O_APPEND writes, power loss).
LEMMA JournalEdits ==
    ASSUME NEW L, Torn \in L, Garbled \in L, NEW j \in Seq(L), NEW n \in Nat
    PROVE  /\ \A line \in L : AppendLine(j, line) \in Seq(L)
           /\ AppendPartOfLine(j) \in Seq(L)
           /\ n <= Len(j) => SubSeq(j, 1, n) \in Seq(L)
           /\ Survivors(j, n) \subseteq Seq(L)
<1>1. Len(j) \in Nat /\ DOMAIN j = 1..Len(j) /\ \A i \in 1..Len(j) : j[i] \in L
    BY LenProperties, ElementOfSeq
<1>2. EndsTorn(j) => Len(j) \in 1..Len(j)
    BY <1>1, EmptySeq DEF EndsTorn
<1>3. EndsTorn(j) => [j EXCEPT ![Len(j)] = Garbled] \in Seq(L)
    BY <1>2, ExceptSeq
<1>4. \A line \in L : Append(j, line) \in Seq(L)
    OBVIOUS
<1>5. \A k \in 0..Len(j) : SubSeq(j, 1, k) \in Seq(L)
    <2>1. TAKE k \in 0..Len(j)
    <2>2. \A i \in 1..k : j[i] \in L
        BY <1>1
    <2> QED
        BY <1>1, <2>2, SubSeqProperties
<1>6. Survivors(j, n) \subseteq Seq(L)
    <2>1. \A k \in n..Len(j) : SubSeq(j, 1, k) \in Seq(L)
        BY <1>1, <1>5
    <2>2. \A k \in n..(Len(j) - 1) : Append(SubSeq(j, 1, k), Torn) \in Seq(L)
        BY <1>1, <1>5
    <2> QED
        BY <2>1, <2>2 DEF Survivors
<1> QED
    BY <1>1, <1>3, <1>4, <1>5, <1>6 DEF AppendLine, AppendPartOfLine

\* Sound lines are lines, so a sound journal is a journal.
LEMMA SoundIsTyped == SoundLine \subseteq Line /\ Seq(SoundLine) \subseteq Seq(Line)
<1>1. SoundLine \subseteq Line
    BY DEF SoundLine, Line
<1> QED
    BY <1>1, SeqMonotonic

-----------------------------------------------------------------------------
(* The invariant.                                                          *)

\* A new directory satisfies it.
LEMMA InitEstablishes == Init => StoreInvariant
<1> SUFFICES ASSUME Init PROVE StoreInvariant
    OBVIOUS
<1>1. << >> \in History /\ << >> \in Seq(Line) /\ << >> \in Seq(SoundLine)
    BY EmptySeq DEF History
<1>2. TypeOK
    BY <1>1 DEF Init, TypeOK, Fresh, Opened, Closed, Working
<1>3. OneProcess /\ SoundDisk /\ ConfirmedIsDurable
    BY <1>1 DEF Init, OneProcess, SoundDisk, ConfirmedIsDurable, Opened, Working
<1>4. \A p \in Proc : SoundProcess(p)
    BY DEF Init, SoundProcess, Fresh
<1> QED
    BY <1>2, <1>3, <1>4 DEF StoreInvariant

Jobs == {"none", "update", "close", "compact"}

\* A step of one process that touches no file, no state and no pending commit
\* keeps the invariant, unless it starts an append or claims to have replaced
\* the snapshot (the error returns, and the first steps of Close and Compact).
LEMMA QuietStep ==
    ASSUME StoreInvariant, NEW p \in Proc, pc[p] \in Opened,
           NEW c \in Opened \cup Closed, NEW j \in Jobs,
           c \notin {"write", "sync", "dirsync"}, c = "snapshot" => j # "update",
           pc' = [pc EXCEPT ![p] = c], job' = [job EXCEPT ![p] = j],
           UNCHANGED <<diskVars, state, next, position, ghostVars>>
    PROVE  StoreInvariant'
<1>1. TypeOK'
    BY DEF StoreInvariant, TypeOK, Jobs, diskVars, ghostVars
<1>2. OneProcess'
    BY DEF StoreInvariant, TypeOK, OneProcess
<1>3. SoundDisk'
    BY DEF StoreInvariant, SoundDisk, diskVars
<1>4. \A q \in Proc : SoundProcess(q)'
    BY DEF StoreInvariant, TypeOK, SoundProcess, SnapshotOf, diskVars
<1>5. ConfirmedIsDurable'
    BY DEF StoreInvariant, TypeOK, ConfirmedIsDurable, diskVars, ghostVars, HistoryOf
<1> QED
    BY <1>1, <1>2, <1>3, <1>4, <1>5 DEF StoreInvariant

\* Refusing a line, giving up a call and the first steps of Close and Compact keep
\* the invariant (the error returns of replayJournal, Update, Close and Compact).
LEMMA QuietActions ==
    ASSUME StoreInvariant, NEW p \in Proc,
           \/ RefuseLine(p) \/ SyncJournalFails(p) \/ SnapshotFails(p)
           \/ SyncDirectoryFails(p) \/ RotateFails(p)
           \/ BeginClose(p) \/ BeginCompact(p)
    PROVE  StoreInvariant'
<1>1. job[p] \in Jobs /\ job = [job EXCEPT ![p] = job[p]]
    BY DEF StoreInvariant, TypeOK, Jobs
<1>2. CASE RefuseLine(p)
    BY <1>1, <1>2, QuietStep DEF RefuseLine, Reading, Opened, Closed, Working
<1>3. CASE BeginClose(p) \/ BeginCompact(p)
    BY <1>3, QuietStep DEF BeginClose, BeginCompact, Opened, Working, Jobs
<1>4. ASSUME pc[p] \in Working, GiveUp(p),
             UNCHANGED <<diskVars, state, next, position, ghostVars>>
      PROVE  StoreInvariant'
    BY <1>4, QuietStep DEF GiveUp, Opened, Closed, Working, Jobs
<1>5. CASE SyncJournalFails(p) \/ SnapshotFails(p) \/ SyncDirectoryFails(p) \/ RotateFails(p)
    BY <1>4, <1>5 DEF SyncJournalFails, SnapshotFails, SyncDirectoryFails, RotateFails, Working
<1> QED
    BY <1>2, <1>3, <1>5

\* Opening reads a snapshot that already holds every confirmed write.
LEMMA OpenKeeps ==
    ASSUME Exclusive, StoreInvariant, NEW p \in Proc, Open(p)
    PROVE  StoreInvariant'
<1> DEFINE s == IF snapshot = NoSnapshot THEN Fresh ELSE Stamped(snapshot)
<1>1. /\ s.history = HistoryOf(snapshot) /\ s.history \in History
      /\ s.digest \in {NoDigest, s.history}
      /\ s.digest = NoDigest => s.history = << >>
    BY NoDigestAssumption, EmptySeq
    DEF StoreInvariant, TypeOK, Fresh, Stamped, HistoryOf, History
<1>2. /\ pc' = [pc EXCEPT ![p] = "replay"] /\ job' = [job EXCEPT ![p] = "none"]
      /\ state' = [state EXCEPT ![p] = s] /\ position' = [position EXCEPT ![p] = 0]
      /\ UNCHANGED <<diskVars, next, ghostVars>>
      /\ \A q \in Proc : pc[q] \in Closed
    BY DEF Open
<1>3. \A h \in confirmed : IsPrefix(h, s.history)
    BY <1>1 DEF StoreInvariant, ConfirmedIsDurable
<1>4. s \in [history: History, digest: History \cup {NoDigest}]
    BY EmptySeq DEF StoreInvariant, TypeOK, Fresh, Stamped, History
<1> HIDE DEF s
<1>5. TypeOK'
    BY <1>2, <1>4 DEF StoreInvariant, TypeOK, Opened, diskVars, ghostVars
<1>6. OneProcess'
    <2>1. \A q \in Proc : q # p => pc'[q] \in Closed
        BY <1>2 DEF StoreInvariant, TypeOK
    <2>2. \A c \in Closed : c \notin Opened
        BY DEF Opened, Closed, Working
    <2> QED
        BY <2>1, <2>2 DEF OneProcess
<1>7. SoundDisk'
    BY <1>2 DEF StoreInvariant, SoundDisk, diskVars
<1>8. \A q \in Proc : SoundProcess(q)'
    BY <1>1, <1>2 DEF StoreInvariant, TypeOK, SoundProcess, SnapshotOf, diskVars, Closed
<1>9. ConfirmedIsDurable'
    BY <1>2, <1>3
    DEF StoreInvariant, TypeOK, ConfirmedIsDurable, diskVars, ghostVars, HistoryOf,
        Opened, Closed, Working
<1> QED
    BY <1>5, <1>6, <1>7, <1>8, <1>9 DEF StoreInvariant

\* Passing over an entry the snapshot covers keeps the invariant.
LEMMA SkipLineKeeps ==
    ASSUME StoreInvariant, NEW p \in Proc, SkipLine(p)
    PROVE  StoreInvariant'
<1>1. TypeOK'
    BY DEF StoreInvariant, TypeOK, SkipLine, diskVars, ghostVars
<1>2. (OneProcess /\ SoundDisk)'
    BY DEF StoreInvariant, OneProcess, SoundDisk, SkipLine, diskVars
<1>3. \A q \in Proc : SoundProcess(q)'
    BY DEF StoreInvariant, SoundProcess, SnapshotOf, SkipLine, diskVars
<1>4. ConfirmedIsDurable'
    BY DEF StoreInvariant, ConfirmedIsDurable, HistoryOf, SkipLine, diskVars, ghostVars
<1> QED
    BY <1>1, <1>2, <1>3, <1>4 DEF StoreInvariant

\* An entry that continues the replayed state is one transaction further.
LEMMA ApplyLineKeeps ==
    ASSUME StoreInvariant, NEW p \in Proc, ApplyLine(p)
    PROVE  StoreInvariant'
<1> DEFINE e == LineRead(p)
<1>1. e \in SoundLine
    <2>1. position[p] + 1 \in 1..Len(journal)
        BY LenProperties DEF StoreInvariant, TypeOK, ApplyLine, Reading
    <2> QED
        BY <2>1, ElementOfSeq DEF StoreInvariant, SoundDisk, LineRead
<1>2. /\ e.history \in History /\ e.previous = state[p].digest
      /\ e.previous = NoDigest \/ (e.previous \in History /\ IsPrefix(e.previous, e.history))
    BY <1>1, LineAssumption DEF ApplyLine, Parses, IsEntry, Continues, SoundLine, Entry
<1>3. pc[p] = "replay"
    BY DEF ApplyLine, Reading
<1>4. \A h \in confirmed : IsPrefix(h, e.history)
    <2>1. TAKE h \in confirmed
    <2>2. h \in History /\ IsPrefix(h, state[p].history) /\ state[p].history \in History
        BY <1>3 DEF StoreInvariant, TypeOK, ConfirmedIsDurable, Opened
    <2>3. CASE e.previous = NoDigest
        <3>1. IsPrefix(h, << >>)
            BY <1>2, <2>2, <2>3 DEF StoreInvariant, SoundProcess
        <3> QED
            BY <1>2, <2>2, <3>1, PrefixOfEmpty
    <2>4. CASE e.previous # NoDigest
        <3>1. e.previous = state[p].history
            BY <1>2, <2>4 DEF StoreInvariant, SoundProcess
        <3> QED
            BY <1>2, <2>2, <2>4, <3>1, PrefixTransitive
    <2> QED
        BY <2>3, <2>4
<1>5. /\ state' = [state EXCEPT ![p] = Stamped(e.history)]
      /\ position' = [position EXCEPT ![p] = @ + 1]
      /\ UNCHANGED <<diskVars, pc, job, next, ghostVars>>
    BY DEF ApplyLine
<1> HIDE DEF e
<1>6. TypeOK'
    BY <1>2, <1>5 DEF StoreInvariant, TypeOK, Stamped, diskVars, ghostVars
<1>7. (OneProcess /\ SoundDisk)'
    BY <1>5 DEF StoreInvariant, OneProcess, SoundDisk, diskVars
<1>8. \A q \in Proc : SoundProcess(q)'
    BY <1>2, <1>3, <1>5, NoDigestAssumption
    DEF StoreInvariant, TypeOK, SoundProcess, SnapshotOf, Stamped, diskVars, History
<1>9. ConfirmedIsDurable'
    BY <1>4, <1>5
    DEF StoreInvariant, TypeOK, ConfirmedIsDurable, HistoryOf, Stamped, diskVars, ghostVars
<1> QED
    BY <1>6, <1>7, <1>8, <1>9 DEF StoreInvariant

\* Serving what was replayed changes no file but an unfinished last line.
LEMMA ServingKeeps ==
    ASSUME StoreInvariant, NEW p \in Proc, TruncateTail(p) \/ FinishReplay(p)
    PROVE  StoreInvariant'
<1>1. /\ pc[p] = "replay" /\ pc' = [pc EXCEPT ![p] = "idle"]
      /\ served' = state[p].history
      /\ outage' \in {"past", outage}
      /\ UNCHANGED <<snapshot, dirSnapshots, dirJournals, job, state, next, position,
                     issued, confirmed>>
    BY DEF TruncateTail, FinishReplay, Reading, Serve, diskVars
<1>2. journal' \in Seq(SoundLine) /\ synced' \in Nat
    <2>1. CASE FinishReplay(p)
        BY <2>1 DEF StoreInvariant, TypeOK, SoundDisk, FinishReplay, diskVars
    <2>2. CASE TruncateTail(p)
        <3>1. position[p] \in Nat /\ synced \in Nat /\ position[p] < Len(journal)
            BY <2>2 DEF StoreInvariant, TypeOK, TruncateTail, Reading
        <3>2. Torn \in SoundLine /\ Garbled \in SoundLine /\ journal \in Seq(SoundLine)
            BY DEF SoundLine, StoreInvariant, SoundDisk
        <3>3. Len(journal) \in Nat
            BY <3>2, LenProperties
        <3>4. position[p] <= Len(journal)
            BY <3>1, <3>3
        <3>5. SubSeq(journal, 1, position[p]) \in Seq(SoundLine)
            BY <3>1, <3>2, <3>4, JournalEdits
        <3> QED
            BY <2>2, <3>1, <3>5 DEF TruncateTail, LinesKept
    <2> QED
        BY <2>1, <2>2
<1>3. TypeOK'
    BY <1>1, <1>2, SoundIsTyped DEF StoreInvariant, TypeOK, Opened
<1>4. (OneProcess /\ SoundDisk)'
    BY <1>1, <1>2 DEF StoreInvariant, TypeOK, OneProcess, SoundDisk, Opened
<1>5. \A q \in Proc : SoundProcess(q)'
    BY <1>1 DEF StoreInvariant, TypeOK, SoundProcess, SnapshotOf
<1>6. ConfirmedIsDurable'
    BY <1>1 DEF StoreInvariant, TypeOK, ConfirmedIsDurable, HistoryOf, Opened
<1> QED
    BY <1>3, <1>4, <1>5, <1>6 DEF StoreInvariant

\* An Update starts to commit a continuation of the state it holds.
LEMMA BeginUpdateKeeps ==
    ASSUME StoreInvariant, NEW p \in Proc, NEW t \in Txn, BeginUpdate(p, t)
    PROVE  StoreInvariant'
<1>1. /\ Append(state[p].history, t) \in History
      /\ IsPrefix(state[p].history, Append(state[p].history, t))
    BY PrefixAppend DEF StoreInvariant, TypeOK
<1>2. TypeOK'
    BY <1>1 DEF StoreInvariant, TypeOK, BeginUpdate, Opened, Working, diskVars
<1>3. (OneProcess /\ SoundDisk)'
    BY DEF StoreInvariant, TypeOK, OneProcess, SoundDisk, BeginUpdate, diskVars, Opened
<1>4. \A q \in Proc : SoundProcess(q)'
    BY <1>1 DEF StoreInvariant, TypeOK, SoundProcess, SnapshotOf, BeginUpdate, diskVars
<1>5. ConfirmedIsDurable'
    BY DEF StoreInvariant, TypeOK, ConfirmedIsDurable, HistoryOf, BeginUpdate, diskVars, Opened
<1> QED
    BY <1>2, <1>3, <1>4, <1>5 DEF StoreInvariant

\* The entry written names the state it is built on, whole or in part.
LEMMA AppendKeeps ==
    ASSUME StoreInvariant, NEW p \in Proc,
           WriteEntry(p) \/ WriteFails(p) \/ Crash(p)
    PROVE  StoreInvariant'
<1> DEFINE entry == [previous |-> state[p].digest, history |-> next[p]]
<1>1. Torn \in SoundLine /\ Garbled \in SoundLine /\ journal \in Seq(SoundLine)
    BY DEF StoreInvariant, SoundDisk, SoundLine
<1>2. pc[p] = "write" => entry \in SoundLine
    BY DEF StoreInvariant, TypeOK, SoundProcess, SoundLine, Entry
<1>3. AppendPartOfLine(journal) \in Seq(SoundLine)
    BY <1>1, JournalEdits, 0 \in Nat
<1>4. entry \in SoundLine => AppendLine(journal, entry) \in Seq(SoundLine)
    BY <1>1, JournalEdits, 0 \in Nat
<1> HIDE DEF entry
<1>5. journal' \in Seq(SoundLine)
    BY <1>1, <1>2, <1>3, <1>4 DEF WriteEntry, WriteFails, Crash, entry
<1>6. \E c \in {"sync", "idle", "down"}, j \in Jobs :
          /\ pc' = [pc EXCEPT ![p] = c] /\ job' = [job EXCEPT ![p] = j]
          /\ c = "sync" => pc[p] = "write"
    <2>1. job[p] \in Jobs /\ job = [job EXCEPT ![p] = job[p]]
        BY DEF StoreInvariant, TypeOK, Jobs
    <2> QED
        BY <2>1 DEF WriteEntry, WriteFails, Crash, GiveUp, Jobs
<1>7. pc[p] \in Opened
    BY DEF WriteEntry, WriteFails, Crash, Opened, Working
<1>8. UNCHANGED <<snapshot, dirSnapshots, synced, dirJournals, state, next, position, ghostVars>>
    BY DEF WriteEntry, WriteFails, Crash
<1>9. TypeOK'
    BY <1>5, <1>6, <1>8, SoundIsTyped
    DEF StoreInvariant, TypeOK, Opened, Closed, Working, Jobs, ghostVars
<1>10. (OneProcess /\ SoundDisk)'
    BY <1>5, <1>6, <1>7, <1>8 DEF StoreInvariant, TypeOK, OneProcess, SoundDisk
<1>11. \A q \in Proc : SoundProcess(q)'
    BY <1>6, <1>8 DEF StoreInvariant, TypeOK, SoundProcess, SnapshotOf
<1>12. ConfirmedIsDurable'
    BY <1>6, <1>7, <1>8 DEF StoreInvariant, TypeOK, ConfirmedIsDurable, HistoryOf, ghostVars
<1> QED
    BY <1>9, <1>10, <1>11, <1>12 DEF StoreInvariant

\* Syncing the journal changes no line of it.
LEMMA SyncJournalKeeps ==
    ASSUME StoreInvariant, NEW p \in Proc, SyncJournal(p)
    PROVE  StoreInvariant'
<1>1. Len(journal) \in Nat
    BY LenProperties DEF StoreInvariant, TypeOK
<1>2. TypeOK'
    BY <1>1 DEF StoreInvariant, TypeOK, SyncJournal, Opened, Working, ghostVars
<1>3. (OneProcess /\ SoundDisk)'
    BY DEF StoreInvariant, TypeOK, OneProcess, SoundDisk, SyncJournal, Opened, Working
<1>4. \A q \in Proc : SoundProcess(q)'
    BY DEF StoreInvariant, TypeOK, SoundProcess, SnapshotOf, SyncJournal
<1>5. ConfirmedIsDurable'
    BY DEF StoreInvariant, TypeOK, ConfirmedIsDurable, HistoryOf, SyncJournal, Opened,
           Working, ghostVars
<1> QED
    BY <1>2, <1>3, <1>4, <1>5 DEF StoreInvariant

\* Whatever a call puts in the snapshot continues every confirmed history.
LEMMA ReplaceSnapshotKeeps ==
    ASSUME StoreInvariant, NEW p \in Proc, ReplaceSnapshot(p)
    PROVE  StoreInvariant'
<1> DEFINE s == SnapshotOf(p)
<1>1. /\ pc[p] = "snapshot" /\ pc' = [pc EXCEPT ![p] = "dirsync"]
      /\ snapshot' = s /\ dirSnapshots' = dirSnapshots \cup {s}
      /\ UNCHANGED <<journal, synced, dirJournals, job, state, next, position, ghostVars>>
    BY DEF ReplaceSnapshot
<1>2. /\ s \in History /\ state[p].history \in History
      /\ IsPrefix(state[p].history, s)
    BY <1>1, PrefixReflexive DEF SnapshotOf, StoreInvariant, TypeOK, SoundProcess
<1>3. \A h \in confirmed : IsPrefix(h, s)
    BY <1>1, <1>2, PrefixTransitive
    DEF StoreInvariant, TypeOK, ConfirmedIsDurable, Opened, Working
<1>4. HistoryOf(s) = s
    BY <1>2, NoSnapshotAssumption DEF HistoryOf, History
<1>5. \A q \in Proc : q # p => pc[q] \notin Opened
    BY <1>1 DEF StoreInvariant, OneProcess, Opened, Working
<1>6. s = SnapshotOf(p)'
    BY <1>1 DEF SnapshotOf
<1> HIDE DEF s
<1>7. TypeOK'
    BY <1>1, <1>2 DEF StoreInvariant, TypeOK, Opened, Working, ghostVars
<1>8. (OneProcess /\ SoundDisk)'
    BY <1>1 DEF StoreInvariant, TypeOK, OneProcess, SoundDisk, Opened, Working
<1>9. \A q \in Proc : SoundProcess(q)'
    BY <1>1, <1>5, <1>6 DEF StoreInvariant, TypeOK, SoundProcess, Opened, Working
<1>10. ConfirmedIsDurable'
    BY <1>1, <1>3, <1>4
    DEF StoreInvariant, TypeOK, ConfirmedIsDurable, Opened, Working, ghostVars
<1> QED
    BY <1>7, <1>8, <1>9, <1>10 DEF StoreInvariant

\* The write is confirmed when the only snapshot left to find is its own.
LEMMA CommitUpdateKeeps ==
    ASSUME StoreInvariant, NEW p \in Proc, CommitUpdate(p)
    PROVE  StoreInvariant'
<1>1. /\ pc[p] = "dirsync" /\ job[p] = "update"
      /\ snapshot' = snapshot /\ dirSnapshots' = {snapshot} /\ dirJournals' = {}
      /\ UNCHANGED <<journal, synced, next, position, issued, outage>>
      /\ state' = [state EXCEPT ![p] = Stamped(next[p])]
      /\ confirmed' = confirmed \cup {next[p]} /\ served' = next[p]
      /\ pc' = [pc EXCEPT ![p] = "idle"] /\ job' = [job EXCEPT ![p] = "none"]
    BY DEF CommitUpdate, Committed, DirectorySynced
<1>2. /\ snapshot = next[p] /\ next[p] \in History /\ state[p].history \in History
      /\ IsPrefix(state[p].history, next[p])
    BY <1>1 DEF StoreInvariant, TypeOK, SoundProcess, SnapshotOf
<1>3. HistoryOf(snapshot) = next[p]
    BY <1>2, NoSnapshotAssumption DEF HistoryOf, History
<1>4. \A q \in Proc : q # p => pc[q] \notin Opened
    BY <1>1 DEF StoreInvariant, OneProcess, Opened, Working
<1>5. \A h \in confirmed' : IsPrefix(h, next[p])
    BY <1>1, <1>2, PrefixTransitive, PrefixReflexive
    DEF StoreInvariant, TypeOK, ConfirmedIsDurable, Opened, Working
<1>6. TypeOK'
    BY <1>1, <1>2 DEF StoreInvariant, TypeOK, Stamped, Opened
<1>7. (OneProcess /\ SoundDisk)'
    BY <1>1 DEF StoreInvariant, TypeOK, OneProcess, SoundDisk, Opened, Working
<1>8. \A q \in Proc : SoundProcess(q)'
    BY <1>1, <1>2, <1>4, NoDigestAssumption
    DEF StoreInvariant, TypeOK, SoundProcess, SnapshotOf, Stamped, Opened, Working, History
<1>9. ConfirmedIsDurable'
    BY <1>1, <1>3, <1>4, <1>5
    DEF StoreInvariant, TypeOK, ConfirmedIsDurable, HistoryOf, Stamped, Opened
<1> QED
    BY <1>6, <1>7, <1>8, <1>9 DEF StoreInvariant

\* Close and Compact leave the snapshot they wrote as the only one to be found.
LEMMA DirectorySyncKeeps ==
    ASSUME StoreInvariant, NEW p \in Proc, FinishClose(p) \/ CompactSynced(p)
    PROVE  StoreInvariant'
<1>1. /\ pc[p] = "dirsync"
      /\ snapshot' = snapshot /\ dirSnapshots' = {snapshot} /\ dirJournals' = {}
      /\ UNCHANGED <<journal, synced, state, next, position, ghostVars>>
    BY DEF FinishClose, CompactSynced, DirectorySynced
<1>2. \E c \in {"down", "rotate"}, j \in Jobs :
          pc' = [pc EXCEPT ![p] = c] /\ job' = [job EXCEPT ![p] = j]
    <2>1. job[p] \in Jobs /\ job = [job EXCEPT ![p] = job[p]]
        BY DEF StoreInvariant, TypeOK, Jobs
    <2> QED
        BY <2>1 DEF FinishClose, CompactSynced, Jobs
<1>3. TypeOK'
    BY <1>1, <1>2 DEF StoreInvariant, TypeOK, Opened, Closed, Working, Jobs, ghostVars
<1>4. (OneProcess /\ SoundDisk)'
    BY <1>1, <1>2 DEF StoreInvariant, TypeOK, OneProcess, SoundDisk, Opened, Working
<1>5. \A q \in Proc : SoundProcess(q)'
    BY <1>1, <1>2 DEF StoreInvariant, TypeOK, SoundProcess, SnapshotOf
<1>6. ConfirmedIsDurable'
    BY <1>1, <1>2
    DEF StoreInvariant, TypeOK, ConfirmedIsDurable, HistoryOf, Opened, Working, ghostVars
<1> QED
    BY <1>3, <1>4, <1>5, <1>6 DEF StoreInvariant

\* Rotating the journal away loses no confirmed write: the snapshot holds them.
LEMMA RotateJournalKeeps ==
    ASSUME StoreInvariant, NEW p \in Proc, RotateJournal(p)
    PROVE  StoreInvariant'
<1>1. Torn \in SoundLine /\ Garbled \in SoundLine /\ journal \in Seq(SoundLine) /\ synced \in Nat
    BY DEF StoreInvariant, TypeOK, SoundDisk, SoundLine
<1>2. Survivors(journal, synced) \subseteq Seq(SoundLine)
    BY <1>1, JournalEdits
<1>3. << >> \in Seq(SoundLine)
    BY EmptySeq
<1>4. TypeOK'
    BY <1>2, <1>3, SoundIsTyped
    DEF StoreInvariant, TypeOK, RotateJournal, Opened, Working, ghostVars
<1>5. (OneProcess /\ SoundDisk)'
    BY <1>2, <1>3
    DEF StoreInvariant, TypeOK, OneProcess, SoundDisk, RotateJournal, Opened, Working
<1>6. \A q \in Proc : SoundProcess(q)'
    BY DEF StoreInvariant, TypeOK, SoundProcess, SnapshotOf, RotateJournal
<1>7. ConfirmedIsDurable'
    BY DEF StoreInvariant, TypeOK, ConfirmedIsDurable, HistoryOf, RotateJournal, Opened,
           Working, ghostVars
<1> QED
    BY <1>4, <1>5, <1>6, <1>7 DEF StoreInvariant

\* Every snapshot a power loss can bring back holds every confirmed write.
LEMMA PowerLossKeeps ==
    ASSUME StoreInvariant, PowerLoss
    PROVE  StoreInvariant'
<1>1. Torn \in SoundLine /\ Garbled \in SoundLine /\ journal \in Seq(SoundLine) /\ synced \in Nat
    BY DEF StoreInvariant, TypeOK, SoundDisk, SoundLine
<1>2. journal' \in Seq(SoundLine)
    BY <1>1, JournalEdits DEF PowerLoss, StoreInvariant, SoundDisk
<1>3. Len(journal') \in Nat
    BY <1>2, LenProperties
<1>4. TypeOK'
    BY <1>2, <1>3, SoundIsTyped DEF StoreInvariant, TypeOK, PowerLoss, Closed, ghostVars
<1>5. (OneProcess /\ SoundDisk)'
    BY <1>2 DEF StoreInvariant, TypeOK, OneProcess, SoundDisk, PowerLoss, Opened, Working
<1>6. \A q \in Proc : SoundProcess(q)'
    BY DEF StoreInvariant, TypeOK, SoundProcess, PowerLoss
<1>7. ConfirmedIsDurable'
    BY DEF StoreInvariant, ConfirmedIsDurable, HistoryOf, PowerLoss, Opened, Working, ghostVars
<1> QED
    BY <1>4, <1>5, <1>6, <1>7 DEF StoreInvariant

\* Every step keeps the invariant when one process runs at a time.
LEMMA NextKeeps ==
    ASSUME Exclusive, StoreInvariant, [Next]_vars
    PROVE  StoreInvariant'
<1>1. ASSUME NEW p \in Proc, Step(p)
      PROVE  StoreInvariant'
    BY <1>1, QuietActions, OpenKeeps, SkipLineKeeps, ApplyLineKeeps, ServingKeeps,
       BeginUpdateKeeps, AppendKeeps, SyncJournalKeeps, ReplaceSnapshotKeeps,
       CommitUpdateKeeps, DirectorySyncKeeps, RotateJournalKeeps DEF Step
<1>2. CASE PowerLoss
    BY <1>2, PowerLossKeeps
<1>3. CASE UNCHANGED vars
    <2>1. TypeOK' /\ OneProcess' /\ SoundDisk'
        BY <1>3 DEF vars, diskVars, ghostVars, StoreInvariant, TypeOK, OneProcess, SoundDisk
    <2>2. (\A p \in Proc : SoundProcess(p))' /\ ConfirmedIsDurable'
        BY <1>3 DEF vars, diskVars, ghostVars, StoreInvariant, SoundProcess, SnapshotOf,
                    ConfirmedIsDurable, HistoryOf
    <2> QED
        BY <2>1, <2>2 DEF StoreInvariant
<1> QED
    BY <1>1, <1>2, <1>3 DEF Next

\* With one process at a time, the store's invariant holds in every reachable
\* state, for any processes, transactions and faults, power loss included.
THEOREM StoreIsSound == ASSUME Exclusive PROVE Spec => []StoreInvariant
BY InitEstablishes, NextKeeps, PTL DEF Spec

\* A write reported done is never lost: it is in the snapshot, in every
\* snapshot a power loss may bring back, and in what every process serves.
THEOREM ConfirmedWritesSurvive == ASSUME Exclusive PROVE Spec => []ConfirmedIsDurable
<1>1. StoreInvariant => ConfirmedIsDurable
    BY DEF StoreInvariant
<1> QED
    BY <1>1, StoreIsSound, PTL

\* Every variable keeps its type.
THEOREM StoreIsTyped == ASSUME Exclusive PROVE Spec => []TypeOK
<1>1. StoreInvariant => TypeOK
    BY DEF StoreInvariant
<1> QED
    BY <1>1, StoreIsSound, PTL
=============================================================================
