------------------------------- MODULE Store --------------------------------
(***************************************************************************)
(* The file repository (src/internal/store/store.go): a snapshot file that *)
(* is replaced by rename, a journal that is appended and synced before it, *)
(* and the processes that open the directory.  A domain state is known by  *)
(* the history of transactions that produced it, so its Sequence is the    *)
(* length of the history and its digest is the history itself.  The one    *)
(* state without a digest is the empty state of a directory that has no    *)
(* snapshot yet.                                                           *)
(*                                                                         *)
(* Every step a process can be killed after is an action of its own.       *)
(***************************************************************************)
EXTENDS Integers, Sequences, SequencesExt, FiniteSets

CONSTANTS
    Proc,           \* processes that may open the directory
    Txn,            \* transactions, each asked for at most once (a bound)
    MaxUpdates,     \* bound: Updates begun
    Unreadable,     \* those of a value that is written in a form nothing reads back
    Exclusive,      \* whether the operator runs one process at a time
    Faults,         \* which of the FaultKinds may happen
    NoDigest,       \* the empty string in State.Digest
    NoSnapshot,     \* the snapshot file does not exist
    Torn,           \* a journal line that was begun and has no newline
    Garbled         \* such a line with another one written after it

FaultKinds == {"append", "sync", "snapshot", "dirsync", "rotate", "power"}

ASSUME ExclusiveAssumption == Exclusive \in BOOLEAN
ASSUME UnreadableAssumption == Unreadable \subseteq Txn
ASSUME FaultsAssumption == Faults \subseteq FaultKinds
ASSUME NoDigestAssumption == NoDigest \notin Seq(Txn)
ASSUME NoSnapshotAssumption == NoSnapshot \notin Seq(Txn)

VARIABLES
    snapshot,       \* state.json as every process sees it
    dirSnapshots,   \* what state.json may be after a power loss
    journal,        \* the lines of journal.ndjson as every process sees it
    synced,         \* how many of its lines a power loss cannot take
    dirJournals,    \* other files journal.ndjson may be after a power loss
    pc,             \* where each process is
    job,            \* the call it is executing
    state,          \* Repository.state of each process
    next,           \* the state its Update is committing
    position,       \* how many journal lines its replay has read
    issued,         \* histories the Updates so far have tried to commit
    confirmed,      \* histories whose last transaction Update reported done
    served,         \* the history readers were last shown
    outage          \* whether power was lost: never, since they saw it, before

diskVars == <<snapshot, dirSnapshots, journal, synced, dirJournals>>
ghostVars == <<issued, confirmed, served, outage>>
vars == <<diskVars, pc, job, state, next, position, ghostVars>>

History == Seq(Txn)

Entry == [previous: History \cup {NoDigest}, history: History]
Line == {Torn, Garbled} \cup Entry

ASSUME LineAssumption == Torn # Garbled /\ Torn \notin Entry /\ Garbled \notin Entry

IsEntry(line) == line \notin {Torn, Garbled}
\* json.Unmarshal takes a state that can be written, and a whole line of one, if
\* every value in it can be read back (domain.Fixed: not the smallest integer).
Decodes(h) == \A i \in DOMAIN h : h[i] \notin Unreadable
Parses(line) == IsEntry(line) /\ Decodes(line.history)
Entries(j) == {i \in DOMAIN j : IsEntry(j[i])}
Written(j) == [i \in Entries(j) |-> j[i].history]

Stamped(h) == [history |-> h, digest |-> h]
Fresh == [history |-> << >>, digest |-> NoDigest]
HistoryOf(s) == IF s = NoSnapshot THEN << >> ELSE s
DigestOf(s) == IF s = NoSnapshot THEN NoDigest ELSE s

\* O_APPEND: what follows an unfinished line lands on that line.
EndsTorn(j) == j # << >> /\ j[Len(j)] = Torn
AppendLine(j, line) ==
    IF EndsTorn(j) THEN [j EXCEPT ![Len(j)] = Garbled] ELSE Append(j, line)
AppendPartOfLine(j) == IF EndsTorn(j) THEN j ELSE Append(j, Torn)

\* What a power loss may leave of a file whose first n lines are synced.
Survivors(j, n) ==
    {SubSeq(j, 1, k) : k \in n..Len(j)}
        \cup {Append(SubSeq(j, 1, k), Torn) : k \in n..(Len(j) - 1)}

Working == {"write", "sync", "snapshot", "dirsync", "rotate"}
Opened == {"replay", "idle"} \cup Working
Closed == {"down", "refused"}
Serving(p) == pc[p] \in {"idle"} \cup Working /\ job[p] # "close"

TypeOK ==
    /\ snapshot \in History \cup {NoSnapshot}
    /\ dirSnapshots \subseteq History \cup {NoSnapshot}
    /\ journal \in Seq(Line)
    /\ synced \in Nat
    /\ dirJournals \subseteq Seq(Line)
    /\ pc \in [Proc -> Opened \cup Closed]
    /\ job \in [Proc -> {"none", "update", "close", "compact"}]
    /\ state \in [Proc -> [history: History, digest: History \cup {NoDigest}]]
    /\ next \in [Proc -> History]
    /\ position \in [Proc -> Nat]
    /\ issued \subseteq History
    /\ confirmed \subseteq History
    /\ served \in History
    /\ outage \in {"never", "now", "past"}

\* A new directory: nothing in it is durable before its first sync.
Init ==
    /\ snapshot = NoSnapshot
    /\ dirSnapshots = {NoSnapshot}
    /\ journal = << >>
    /\ synced = 0
    /\ dirJournals = {<< >>}
    /\ pc = [p \in Proc |-> "down"]
    /\ job = [p \in Proc |-> "none"]
    /\ state = [p \in Proc |-> Fresh]
    /\ next = [p \in Proc |-> << >>]
    /\ position = [p \in Proc |-> 0]
    /\ issued = {}
    /\ confirmed = {}
    /\ served = << >>
    /\ outage = "never"

-----------------------------------------------------------------------------
(* Open: loadSnapshot, then replayJournal line by line.                    *)

Open(p) ==
    /\ pc[p] \in Closed
    /\ Exclusive => \A q \in Proc : pc[q] \in Closed
    /\ pc' = [pc EXCEPT ![p] = "replay"]
    /\ job' = [job EXCEPT ![p] = "none"]
    /\ state' = [state EXCEPT ![p] =
                    IF snapshot = NoSnapshot THEN Fresh ELSE Stamped(snapshot)]
    /\ position' = [position EXCEPT ![p] = 0]
    /\ UNCHANGED <<diskVars, next, ghostVars>>

Reading(p) == pc[p] = "replay" /\ position[p] < Len(journal)
LineRead(p) == journal[position[p] + 1]

\* Mutant: an entry of the sequence number reached is expected to be new.
Covered_Strict(p, line) == Len(line.history) < Len(state[p].history)
\* Lines the snapshot already covers are passed over, if they parse.
Covered(p, line) == Len(line.history) <= Len(state[p].history)
\* Mutant: an entry of the right sequence number is applied whatever it was built on.
Continues_AnyDigest(p, line) == Len(line.history) = Len(state[p].history) + 1
Continues(p, line) ==
    /\ Len(line.history) = Len(state[p].history) + 1
    /\ line.previous = state[p].digest

SkipLine(p) ==
    /\ Reading(p)
    /\ Parses(LineRead(p))
    /\ Covered(p, LineRead(p))
    /\ position' = [position EXCEPT ![p] = @ + 1]
    /\ UNCHANGED <<diskVars, pc, job, state, next, ghostVars>>

ApplyLine(p) ==
    /\ Reading(p)
    /\ Parses(LineRead(p))
    /\ Continues(p, LineRead(p))
    /\ state' = [state EXCEPT ![p] = Stamped(LineRead(p).history)]
    /\ position' = [position EXCEPT ![p] = @ + 1]
    /\ UNCHANGED <<diskVars, pc, job, next, ghostVars>>

\* A whole line that does not parse, a gap in the sequence or a foreign digest.
RefuseLine(p) ==
    /\ Reading(p)
    /\ LineRead(p) # Torn
    /\ \/ ~Parses(LineRead(p))
       \/ /\ IsEntry(LineRead(p))
          /\ ~Covered(p, LineRead(p))
          /\ ~Continues(p, LineRead(p))
    /\ pc' = [pc EXCEPT ![p] = "refused"]
    /\ UNCHANGED <<diskVars, job, state, next, position, ghostVars>>

\* The store starts serving what it has recovered.
Serve(p) ==
    /\ pc' = [pc EXCEPT ![p] = "idle"]
    /\ served' = state[p].history
    /\ outage' = IF outage = "now" THEN "past" ELSE outage

\* Mutant: the cut takes the last whole line with it.
LinesKept_OffByOne(p) == position[p] - 1
LinesKept(p) == position[p]

TruncateTail(p) ==
    /\ Reading(p)
    /\ LineRead(p) = Torn
    /\ journal' = SubSeq(journal, 1, LinesKept(p))
    /\ synced' = IF synced < LinesKept(p) THEN synced ELSE LinesKept(p)
    /\ Serve(p)
    /\ UNCHANGED <<snapshot, dirSnapshots, dirJournals, job, state, next, position,
                   issued, confirmed>>

FinishReplay(p) ==
    /\ pc[p] = "replay"
    /\ position[p] >= Len(journal)
    /\ Serve(p)
    /\ UNCHANGED <<diskVars, job, state, next, position, issued, confirmed>>

-----------------------------------------------------------------------------
(* Update: appendJournal, writeSnapshot, and only then r.state = next.  An *)
(* Update whose function changes nothing returns early and is a stutter.   *)

BeginUpdate(p, t) ==
    /\ pc[p] = "idle"
    /\ \A h \in issued : t # h[Len(h)]
    /\ Cardinality(issued) < MaxUpdates
    /\ issued' = issued \cup {Append(state[p].history, t)}
    /\ next' = [next EXCEPT ![p] = Append(state[p].history, t)]
    /\ job' = [job EXCEPT ![p] = "update"]
    /\ pc' = [pc EXCEPT ![p] = "write"]
    /\ UNCHANGED <<diskVars, state, position, confirmed, served, outage>>

WriteEntry(p) ==
    /\ pc[p] = "write"
    /\ journal' = AppendLine(journal, [previous |-> state[p].digest, history |-> next[p]])
    /\ pc' = [pc EXCEPT ![p] = "sync"]
    /\ UNCHANGED <<snapshot, dirSnapshots, synced, dirJournals, job, state, next,
                   position, ghostVars>>

\* The call reports the error and the repository keeps serving its old state.
GiveUp(p) ==
    /\ pc' = [pc EXCEPT ![p] = IF job[p] = "close" THEN "down" ELSE "idle"]
    /\ job' = [job EXCEPT ![p] = "none"]

\* The file cannot be opened or written, or only part of the line fits.
WriteFails(p) ==
    /\ "append" \in Faults
    /\ pc[p] = "write"
    /\ journal' \in {journal, AppendPartOfLine(journal)}
    /\ GiveUp(p)
    /\ UNCHANGED <<snapshot, dirSnapshots, synced, dirJournals, state, next,
                   position, ghostVars>>

SyncJournal(p) ==
    /\ pc[p] = "sync"
    /\ synced' = Len(journal)
    /\ pc' = [pc EXCEPT ![p] = "snapshot"]
    /\ UNCHANGED <<snapshot, dirSnapshots, journal, dirJournals, job, state, next,
                   position, ghostVars>>

SyncJournalFails(p) ==
    /\ "sync" \in Faults
    /\ pc[p] = "sync"
    /\ GiveUp(p)
    /\ UNCHANGED <<diskVars, state, next, position, ghostVars>>

-----------------------------------------------------------------------------
(* writeSnapshot, on behalf of Update, Close or Compact.                   *)

\* Mutant: the snapshot is written from the state before the update.
SnapshotOf_Before(p) == state[p].history
SnapshotOf(p) == IF job[p] = "update" THEN next[p] ELSE state[p].history

ReplaceSnapshot(p) ==
    /\ pc[p] = "snapshot"
    /\ Decodes(SnapshotOf(p))
    /\ snapshot' = SnapshotOf(p)
    /\ dirSnapshots' = dirSnapshots \cup {SnapshotOf(p)}
    /\ pc' = [pc EXCEPT ![p] = "dirsync"]
    /\ UNCHANGED <<journal, synced, dirJournals, job, state, next, position, ghostVars>>

\* The temporary file cannot be written, synced or renamed, or what was written
\* cannot be read back.
SnapshotFails(p) ==
    /\ pc[p] = "snapshot"
    /\ "snapshot" \in Faults \/ ~Decodes(SnapshotOf(p))
    /\ GiveUp(p)
    /\ UNCHANGED <<diskVars, state, next, position, ghostVars>>

\* Mutant: the rename is reported done without syncing the directory.
DirectorySynced_Skipped == UNCHANGED diskVars
DirectorySynced ==
    /\ dirSnapshots' = {snapshot}
    /\ dirJournals' = {}
    /\ UNCHANGED <<snapshot, journal, synced>>

\* Mutant: the committed state keeps the digest of its predecessor.
Committed_StaleDigest(p) == [state[p] EXCEPT !.history = next[p]]
Committed(p) == Stamped(next[p])

CommitUpdate(p) ==
    /\ pc[p] = "dirsync"
    /\ job[p] = "update"
    /\ DirectorySynced
    /\ state' = [state EXCEPT ![p] = Committed(p)]
    /\ confirmed' = confirmed \cup {next[p]}
    /\ served' = next[p]
    /\ pc' = [pc EXCEPT ![p] = "idle"]
    /\ job' = [job EXCEPT ![p] = "none"]
    /\ UNCHANGED <<next, position, issued, outage>>

FinishClose(p) ==
    /\ pc[p] = "dirsync"
    /\ job[p] = "close"
    /\ DirectorySynced
    /\ pc' = [pc EXCEPT ![p] = "down"]
    /\ job' = [job EXCEPT ![p] = "none"]
    /\ UNCHANGED <<state, next, position, ghostVars>>

SyncDirectoryFails(p) ==
    /\ "dirsync" \in Faults
    /\ pc[p] = "dirsync"
    /\ GiveUp(p)
    /\ UNCHANGED <<diskVars, state, next, position, ghostVars>>

-----------------------------------------------------------------------------
(* Close and Compact.                                                      *)

BeginClose(p) ==
    /\ pc[p] = "idle"
    /\ pc' = [pc EXCEPT ![p] = "snapshot"]
    /\ job' = [job EXCEPT ![p] = "close"]
    /\ UNCHANGED <<diskVars, state, next, position, ghostVars>>

\* Mutant: the journal is rotated without a snapshot of what it holds.
BeginCompact_RotateFirst(p) ==
    /\ pc[p] = "idle"
    /\ pc' = [pc EXCEPT ![p] = "rotate"]
    /\ job' = [job EXCEPT ![p] = "compact"]
    /\ UNCHANGED <<diskVars, state, next, position, ghostVars>>

BeginCompact(p) ==
    /\ pc[p] = "idle"
    /\ pc' = [pc EXCEPT ![p] = "snapshot"]
    /\ job' = [job EXCEPT ![p] = "compact"]
    /\ UNCHANGED <<diskVars, state, next, position, ghostVars>>

CompactSynced(p) ==
    /\ pc[p] = "dirsync"
    /\ job[p] = "compact"
    /\ DirectorySynced
    /\ pc' = [pc EXCEPT ![p] = "rotate"]
    /\ UNCHANGED <<job, state, next, position, ghostVars>>

\* The journal is renamed away and an empty one created; neither is synced.
RotateJournal(p) ==
    /\ pc[p] = "rotate"
    /\ journal' = << >>
    /\ synced' = 0
    /\ dirJournals' = dirJournals \cup Survivors(journal, synced)
    /\ pc' = [pc EXCEPT ![p] = "idle"]
    /\ job' = [job EXCEPT ![p] = "none"]
    /\ UNCHANGED <<snapshot, dirSnapshots, state, next, position, ghostVars>>

RotateFails(p) ==
    /\ "rotate" \in Faults
    /\ pc[p] = "rotate"
    /\ GiveUp(p)
    /\ UNCHANGED <<diskVars, state, next, position, ghostVars>>

-----------------------------------------------------------------------------
(* The process is killed; the machine loses power.                         *)

Crash(p) ==
    /\ pc[p] \in Opened
    /\ pc' = [pc EXCEPT ![p] = "down"]
    /\ job' = [job EXCEPT ![p] = "none"]
    /\ journal' \in IF pc[p] = "write" THEN {journal, AppendPartOfLine(journal)}
                                       ELSE {journal}
    /\ UNCHANGED <<snapshot, dirSnapshots, synced, dirJournals, state, next, position,
                   ghostVars>>

PowerLoss ==
    /\ "power" \in Faults
    /\ snapshot' \in dirSnapshots
    /\ dirSnapshots' = {snapshot'}
    /\ journal' \in dirJournals \cup Survivors(journal, synced)
    /\ synced' = Len(journal')
    /\ dirJournals' = {}
    /\ pc' = [p \in Proc |-> "down"]
    /\ job' = [p \in Proc |-> "none"]
    /\ outage' = "now"
    /\ UNCHANGED <<state, next, position, issued, confirmed, served>>

-----------------------------------------------------------------------------

Step(p) ==
    \/ Open(p) \/ SkipLine(p) \/ ApplyLine(p) \/ RefuseLine(p)
    \/ TruncateTail(p) \/ FinishReplay(p)
    \/ \E t \in Txn : BeginUpdate(p, t)
    \/ WriteEntry(p) \/ WriteFails(p) \/ SyncJournal(p) \/ SyncJournalFails(p)
    \/ ReplaceSnapshot(p) \/ SnapshotFails(p) \/ CommitUpdate(p)
    \/ SyncDirectoryFails(p)
    \/ BeginClose(p) \/ FinishClose(p)
    \/ BeginCompact(p) \/ CompactSynced(p) \/ RotateJournal(p) \/ RotateFails(p)
    \/ Crash(p)

Next ==
    \/ \E p \in Proc : Step(p)
    \/ PowerLoss

Spec == Init /\ [][Next]_vars

-----------------------------------------------------------------------------
(* Properties                                                              *)

\* A write reported done is in every snapshot a restart or a power loss can
\* find, and in every state a serving process holds (Update returns nil only
\* after journal, snapshot and directory are synced).
ConfirmedIsDurable ==
    \A h \in confirmed :
        /\ \A s \in {snapshot} \cup dirSnapshots : IsPrefix(h, HistoryOf(s))
        /\ \A p \in Proc : pc[p] \in Opened => IsPrefix(h, state[p].history)

\* The inductive invariant behind ConfirmedIsDurable.  An entry that names its
\* predecessor extends it, so replay only ever moves forward; a commit extends
\* the state it starts from; and what stands in the directory when it is synced
\* is what the call has just written there.
SoundLine ==
    {Torn, Garbled}
        \cup {e \in Entry : e.previous = NoDigest \/ IsPrefix(e.previous, e.history)}
OneProcess ==
    \A p, q \in Proc : pc[p] \in Opened /\ pc[q] \in Opened => p = q
SoundDisk ==
    /\ snapshot \in dirSnapshots
    /\ journal \in Seq(SoundLine)
    /\ dirJournals \subseteq Seq(SoundLine)
SoundProcess(p) ==
    /\ state[p].digest \in {NoDigest, state[p].history}
    /\ state[p].digest = NoDigest => state[p].history = << >>
    /\ pc[p] \in {"write", "sync"} \/ (pc[p] \in {"snapshot", "dirsync"} /\ job[p] = "update")
          => IsPrefix(state[p].history, next[p])
    /\ pc[p] = "dirsync" => snapshot = SnapshotOf(p)
StoreInvariant ==
    /\ TypeOK
    /\ OneProcess
    /\ SoundDisk
    /\ \A p \in Proc : SoundProcess(p)
    /\ ConfirmedIsDurable

\* What could make an intact directory unreadable: a whole line that does not
\* parse, because it was written over an unfinished one or holds a value that
\* cannot be read back; a first entry whose predecessor, the empty state, has no
\* digest in memory but one on disk (or the reverse); two entries for one place
\* in the sequence.
Unparsed(j) == \E i \in DOMAIN j : j[i] # Torn /\ ~Parses(j[i])
Orphans(s, j) ==
    /\ HistoryOf(s) = << >>
    /\ \E i \in Entries(j) : Len(j[i].history) = 1 /\ j[i].previous # DigestOf(s)
Forks(j) ==
    \E i, k \in Entries(j) :
        Len(j[i].history) = Len(j[k].history) /\ j[i].history # j[k].history

\* Open refuses a directory only for one of those reasons, and for a
\* fork only where power was lost: a crash at any step of Update, Close or
\* Compact leaves files that can be read again.
RefusedForAReason ==
    \A p \in Proc : pc[p] = "refused" =>
        \/ Unparsed(journal)
        \/ Orphans(snapshot, journal)
        \/ outage # "never" /\ Forks(journal)

\* The part of it a second process on the same directory breaks: README.md runs
\* arcproof-import on the server's data directory.
SnapshotHoldsConfirmed == \A h \in confirmed : IsPrefix(h, HistoryOf(snapshot))

\* What docs/recovery.md promises: an interrupted append is cut off, and only
\* files from elsewhere are refused.
NeverRefused == \A p \in Proc : pc[p] # "refused"

\* A reader is never shown a history that drops what an earlier reader saw,
\* across failed calls, crashes and restarts; only the first recovery after a
\* power loss may take back what was never confirmed.
ServedOnlyGrows == [][IsPrefix(served, served') \/ outage = "now"]_vars

\* The abstract ledger: in doubt is the transaction of a call under way, and every
\* complete record of one transaction more than what is served.
OneMore(h, g) == IsPrefix(h, g) /\ Len(g) = Len(h) + 1
Recorded == {HistoryOf(snapshot)} \cup Range(Written(journal))
InDoubt ==
    IF outage = "now" THEN {}
    ELSE {h \in Recorded : OneMore(served, h)}
            \cup {next[p] : p \in {q \in Proc : job[q] = "update"}}
LongestConfirmed ==
    CHOOSE h \in confirmed \cup {<< >>} : \A g \in confirmed : Len(g) <= Len(h)

Asked ==
    LET firm == LongestConfirmed
    IN  {h \in issued : IsStrictPrefix(firm, h)}
Up == \E p \in Proc : Serving(p)

TheLedger == INSTANCE Ledger WITH
    chain <- served,
    firm <- LongestConfirmed,
    asked <- Asked,
    doubt <- InDoubt,
    up <- Up,
    lost <- outage = "now"

\* What callers and readers see of the files, failed calls, crashes and power
\* losses is the ledger: a history, its confirmed part, and proposals in doubt.
ImplementsLedger == TheLedger!Spec

-----------------------------------------------------------------------------
(* The inductive invariant behind TheLedger.  b is the history in the      *)
(* snapshot, w the histories in the entries of the journal by line.        *)

\* The first entry of its length is the one replay applies.
Leads(w, i) == \A j \in DOMAIN w : j < i => Len(w[j]) < Len(w[i])

\* What replay has recovered after k lines, if it was not refused.
Replayed(b, w, k, h) ==
    /\ IsPrefix(b, h)
    /\ \A i \in DOMAIN w : i <= k => Len(w[i]) <= Len(h)
    /\ Len(b) < Len(h) => \E i \in DOMAIN w : i <= k /\ w[i] = h /\ Leads(w, i)
    /\ \A i \in DOMAIN w :
          i <= k /\ Leads(w, i) /\ Len(b) < Len(w[i]) => IsPrefix(w[i], h)

\* Files from which replay can only recover h or one transaction more.
Recovers(b, w, h) ==
    /\ IsPrefix(b, h) \/ OneMore(h, b)
    /\ \A i \in DOMAIN w : Len(w[i]) <= Len(h) + 1
    /\ Len(b) < Len(h) => \E i \in DOMAIN w : w[i] = h /\ Leads(w, i)
    /\ \A i \in DOMAIN w :
          Leads(w, i) /\ Len(b) < Len(w[i]) /\ Len(w[i]) <= Len(h) => IsPrefix(w[i], h)

\* Nothing follows an unfinished line, and every history in the files was issued.
Intact(j) == \A i \in DOMAIN j : j[i] = Torn => i = Len(j)
Known(h) == h = << >> \/ h \in issued
IssuedInOrder ==
    \A h \in issued :
        /\ h # << >>
        /\ \A n \in 1..Len(h) : \E g \in issued : Len(g) = n /\ IsPrefix(g, h)
KnownFiles ==
    /\ \A s \in dirSnapshots : Known(HistoryOf(s))
    /\ \A j \in dirJournals \cup {journal} :
          Intact(j) /\ \A i \in DOMAIN Written(j) : Known(Written(j)[i])

\* Where a process stands: what it serves is what readers see, and what it is
\* committing has no successor yet.
JobFits(p) ==
    /\ pc[p] \in Closed \cup {"replay", "idle"} => job[p] = "none"
    /\ pc[p] \in {"write", "sync"} => job[p] = "update"
    /\ pc[p] \in {"snapshot", "dirsync"} => job[p] # "none"
    /\ pc[p] = "rotate" => job[p] = "compact" /\ snapshot = state[p].history
Placed(p) ==
    /\ JobFits(p)
    /\ pc[p] \in Opened => Known(state[p].history)
    /\ pc[p] = "replay" =>
          /\ position[p] <= Len(journal)
          /\ Replayed(HistoryOf(snapshot), Written(journal), position[p], state[p].history)
    /\ pc[p] \in {"idle"} \cup Working => state[p].history = served /\ outage # "now"
    /\ job[p] = "update" =>
          /\ OneMore(state[p].history, next[p])
          /\ next[p] \in issued
          /\ \A h \in issued : ~IsStrictPrefix(next[p], h)

\* What is served can be recovered, one transaction more at most, until power is
\* lost; a longest confirmed history exists.
RecoveryInvariant ==
    /\ IssuedInOrder
    /\ KnownFiles
    /\ \A p \in Proc : Placed(p)
    /\ Known(served)
    /\ outage # "now" => Recovers(HistoryOf(snapshot), Written(journal), served)
    /\ \E h \in confirmed \cup {<< >>} : \A g \in confirmed : Len(g) <= Len(h)

-----------------------------------------------------------------------------
(* The inductive invariant behind RefusedForAReason, for a snapshot s and  *)
(* a journal j that a start may find.                                      *)

\* A leading entry names the state that replay has when it comes to it.
Follows(s, j, i) ==
    IF Len(j[i].history) = Len(HistoryOf(s)) + 1 THEN j[i].previous = DigestOf(s)
    ELSE \E k \in Entries(j) :
            /\ k < i /\ Leads(Written(j), k)
            /\ Len(j[i].history) = Len(j[k].history) + 1
            /\ j[i].previous = j[k].history

\* The lines at which replay is refused, whoever replays.
Blocks(s, j, i) ==
    \/ j[i] # Torn /\ ~Parses(j[i])
    \/ /\ IsEntry(j[i])
       /\ Leads(Written(j), i) /\ Len(HistoryOf(s)) < Len(j[i].history)
       /\ ~Follows(s, j, i)
Excused(s, j) == (\E i \in DOMAIN j : Blocks(s, j, i)) => Unparsed(j) \/ Orphans(s, j)
Readable(s, j) == Excused(s, j) \/ Forks(j)

\* An update that is past its write, and a snapshot whose rename may not last, have
\* left their entry in the journal, unless it was spoilt.
Spoilt == Unparsed(journal) \/ Forks(journal)
Leading(h) ==
    \E i \in DOMAIN Written(journal) :
        Written(journal)[i] = h /\ Leads(Written(journal), i)
Backed(b) ==
    \/ Spoilt
    \/ IsPrefix(b, served) /\ (Len(b) < Len(served) => Leading(served))
    \/ OneMore(served, b) /\ Leading(b)

\* The newest entries name what is served.
NamesServed(j) ==
    \A i \in Entries(j) :
        /\ Len(j[i].history) <= Len(served) + 1
        /\ Len(j[i].history) = Len(served) + 1 =>
              j[i].previous = served \/ (j[i].previous = NoDigest /\ served = << >>)

PastWrite(p) == pc[p] = "sync" \/ (pc[p] \in {"snapshot", "dirsync"} /\ job[p] = "update")
Refusable(p) ==
    /\ pc[p] = "replay" =>
          /\ Len(state[p].history) = Len(HistoryOf(snapshot))
                => state[p].digest = DigestOf(snapshot)
          /\ \A i \in 1..position[p] : ~Blocks(snapshot, journal, i)
    /\ pc[p] = "refused" =>
          /\ position[p] + 1 \in DOMAIN journal
          /\ Blocks(snapshot, journal, position[p] + 1)
          /\ \A q \in Proc : pc[q] \notin {"idle"} \cup Working
    /\ pc[p] = "write" => \A i \in Entries(journal) : journal[i].history # next[p]
    /\ PastWrite(p) => Spoilt \/ Leading(next[p])
    /\ pc[p] = "rotate" => dirSnapshots = {snapshot} /\ dirJournals = {}

\* Whatever files a start may find, now or after a power loss, replay reads them to
\* the end, or they are excused.
FilesReadable ==
    /\ synced <= Len(journal)
    /\ outage = "never" => Excused(snapshot, journal)
    /\ \A s \in dirSnapshots, j \in dirJournals \cup Survivors(journal, synced) :
          Readable(s, j)
FilesFit ==
    /\ outage = "now" => dirSnapshots = {snapshot} /\ dirJournals = {}
    /\ outage # "now" =>
          /\ \A j \in dirJournals \cup {journal} : NamesServed(j)
          /\ \A s \in dirSnapshots : Backed(HistoryOf(s))
RefusalInvariant == FilesReadable /\ FilesFit /\ \A p \in Proc : Refusable(p)
=============================================================================
