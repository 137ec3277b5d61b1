# ArcProof in TLA+

ArcProof reviews whether welding procedures apply to production joints. It is
one Go process over one directory: an HTTP interface calls a service, the
service runs every operation as one transaction of a file repository, and two
background loops work through review tasks and look for expired evidence. A
second program imports joint requirements into the same directory.

This directory holds TLA+ models of its own logic, the TLC configurations that
check them, and proofs checked by TLAPS. Line numbers refer to the repository's
files under `src/`; every definition that models code is listed with its lines
in the `map` of `PROJECT.json`.

Contents: 1 inventory, 2 modules, 3 runs, 4 proofs, 5 where code and
documentation disagree, 6 what is left out, 7 plan.

## 1. Inventory

### The parts and how they meet

```
 clients --HTTP--> httpapi/server.go --> app/service.go --Update/View--> store/store.go --> state.json
 importer ------------------------------^     |   ^                           ^             journal.ndjson
                                              v   |                           |
                                  rules/engine.go  jobs/manager.go    a second process (the importer)
                                              |
                                  domain/types.go, domain/units.go
```

* **File repository** (`internal/store/store.go`). *State:* the current domain
  state in memory, `state.json` (replaced by rename), `journal.ndjson`
  (appended and synced before the snapshot), flags `closed` and `degraded`.
  *Operations:* `Open` (load snapshot, replay journal), `View`, `Update`,
  `Compact`, `Close`, `Probe`. *Hard:* every file call can fail or be the last
  thing before a kill or a power loss; `Update` reports an error although its
  entry may already be durable; nothing keeps two processes apart.
  *Correct when:* a write reported done is never lost; readers never see time
  run backwards; a directory the program wrote itself can be opened again.
* **Service** (`internal/app/service.go`). *State:* eight maps of aggregates,
  the tasks and the idempotency records, all in one `domain.State`. *Interacts*
  by read-modify-write of that state under the repository's lock; an operation
  of one aggregate marks and queues work for others.
  * *Rule sets* – created, revised and published; publishing supersedes the one
    in force. *Correct when* at most one is in force and a published one never
    changes.
  * *Qualifications* – collect evidence under a rule set, are evaluated,
    withdrawn. *Correct when* a qualified one met each test its service calls
    for, and versions and idempotency keys make concurrent and repeated
    requests safe.
  * *Procedures and revisions* – a revision names a rule and sources, derives
    its range from them, is published and replaces its predecessor. *Correct
    when* the published range is what rule and sources give, procedure and
    revisions agree, and a blocking change review stops publication.
  * *Requirements and assessments* – requirements come one by one or as an
    import; an assessment compares one with a published revision. *Correct when*
    conclusions never change and are marked stale once something is known
    against them.
  * *Change reviews* – compare two revisions under a rule and are decided.
  * *Review tasks* – one per reason, object and trigger; worked through in
    batches. *Correct when* deduplicated and eventually done.
* **Background loops** (`internal/jobs/manager.go`). Two tickers, one calling
  `RunDueTasks` with a batch of 20, one calling `ScanExpiredEvidence`. Both look
  at a snapshot without the lock and update later. *Correct when* nothing that
  is due is forgotten.
* **Rule engine** (`internal/rules/engine.go`). Pure functions: validation of a
  rule set, evaluation of evidence, derivation and intersection of ranges,
  assessment, comparison. *Correct when* a weld found applicable is one every
  source warrants and the order of sources does not matter.
* **Domain types, fixed-point numbers, units** (`internal/domain`). Records,
  intervals, three-decimal numbers in 64 bits, exact unit conversion. *Hard:*
  wrap-around, signs in odd places. *Correct when* a text is read as the number
  it spells, what is written can be read back, and one quantity in two units
  gives one result.
* **HTTP interface** (`internal/httpapi/server.go`). Decodes, routes, cuts lists
  into pages after a cursor. Keeps no state. *Hard:* lists change between two
  pages; answers get lost and requests are repeated. *Correct when* no item is
  listed twice or missed and a key stands for one object.
* **Health** (`app/service.go:882-921`, `store.go` `Probe`, `Degraded`). Reads
  the state, verifies the audit chain, writes a probe file.
* **Server process** (`cmd/arcproof/main.go`). Starts repository, loops and
  server; stops them in the order server, loops, repository. *Hard:* the wait
  for the server has a limit, the wait for the loops has none, and a kill may
  come in between. *Correct when* nothing is at work on a repository being
  closed unless the limit has passed, and a shutdown ends.
* **Import command** (`cmd/arcproof-import/main.go`). Opens the directory
  itself, calls `ImportRequirements`, closes it.
* **Queries and export, configuration, clock, samples, acceptance tests.** Reads,
  input checking, fixtures.

The behaviours that are hard to test are listed, each at its line and with the
properties that watch it, under `hazards` in `PROJECT.json`.

## 2. Modules

| Module | Models | Extends / used by |
|---|---|---|
| `Ledger` | what the repository promises its readers, without files | refined by `Store` |
| `Store` | `store.go`: `Open`, `Update`, `Compact`, `Close`, file call by file call | `MCStore`, `StoreProofs`, `LedgerProofs`, `RefusalProofs` |
| `CaseState` | the state the operations share, and the helpers that queue tasks and mark assessments | all below |
| `RuleSets`, `Qualifications`, `Procedures`, `Assessments`, `ChangeReviews`, `ReviewTasks` | the operations of one aggregate each | `Casework` |
| `Casework` | their composition: any request in any order, the two loops, the clock; the properties | `MCCasework` |
| `Sorting` | what `sort.Strings` and `sort.Slice` make of different values | `Rules`, `Paging` |
| `Rules` | `engine.go` as operators | `MCFunctions` |
| `Fixed` | `ParseFixed`, `String`, `NormalizeMeasurement` as operators over small machine integers | `MCFunctions` |
| `Paging` | `server.go`: lists cut into pages while they change | `MCFunctions`, `PagingProofs` |
| `Server` | `main.go` and `manager.go`: requests under a key, loops, start and shutdown, over a `Ledger` | `MCServer`, `ServerProofs` |
| `MCStore`, `MCCasework`, `MCFunctions`, `MCServer` | small instances | the `.cfg` files |
| `StoreProofs`, `LedgerProofs`, `RefusalProofs` | theorems about `Store`, each on top of the one before | |
| `CaseworkProofs`, `ServerProofs`, `PagingProofs` | theorems about `Casework`, `Server`, `Paging` | |
| `SortingProofs` | sorting, and two forms of induction over sets of numbers | `PagingProofs`, `FunctionsProofs` |
| `FunctionsProofs` | theorems about `Rules`, `Fixed` and the runs of `MCFunctions` | |

The composition is in two steps. `Store` implements `Ledger` (`ImplementsLedger`,
checked and proved), and `Server` uses `Ledger` in the place of the files, so
that requests, retries, crashes and power losses can be taken together. Every
step of `Server` is one the `Ledger` allows (`ServerUsesLedger`, proved).
`Casework` is what happens inside one transaction of either.

### Store

A domain state is known by the *history* of transactions that led to it: the
state's `Sequence` is its length, and its digest is the history itself. This
assumes what the code relies on too, that two states with one digest are equal.
What a history is written as need not be what is read back: a transaction in
`Unreadable` brings in a value that `json.Marshal` writes and `json.Unmarshal`
refuses (the smallest integer of a `Fixed`), so a state that has it does not
decode (`Decodes`), and a whole journal line of it does not parse (`Parses`).
The exception is the state of a directory without a snapshot: `NewState` gives
it no digest, and the constant `NoDigest` stands for the empty string.

`snapshot` and `journal` are the files as processes see them. What a power loss
may make of them is kept apart: `dirSnapshots` holds the contents `state.json`
may have until the directory is synced, `synced` counts the journal lines that
have been synced, and `dirJournals` the files that may be found under the
journal's name after a rotation that was not synced. A kill takes only the
process and leaves the files as processes see them; `PowerLoss` chooses among
what may be left, and tears the first line it loses.

`Update` is `BeginUpdate`, `WriteEntry`, `SyncJournal`, `ReplaceSnapshot`,
`CommitUpdate`: the steps after which a process can die. Each has a failing
counterpart that leaves the repository with its old state, as the early returns
of `Update` do; `WriteFails` may leave part of a line. `Close` and `Compact`
share the snapshot steps (`job` says for whom they run). `Open` replays the
journal line by line. The transient temporary file needs no variable: only its
rename can be seen, which includes that `writeSnapshot` reads back what it wrote
and gives up before the rename when it does not decode: `ReplaceSnapshot` needs a
state that does, and `SnapshotFails` happens to any other without a fault. The
entry of such a state is in the journal all the same, written and synced before,
and `RefuseLine` refuses it at the next start.

Readers hold the read lock, writers the lock, so a read happens between two
steps of the model and sees `state`; the ghost variable `served` records it at
the moment it is first shown, `confirmed` the histories `Update` returned nil
for, `issued` those an `Update` has tried to commit, and with them how many
transactions there are. The ghost `outage` is "now" from a power loss until a
process serves again, and "past" from then on.

`Ledger` has no files: `chain` is what readers are shown, `firm` what was last
confirmed, `asked` every history a call tried to commit since, `doubt` those a
failed or interrupted call may have left behind, `lost` whether power was lost
since it last served. A restart finds the chain or something in doubt; after a
power loss it finds `firm` or something asked for on top of it.

### Casework

Every operation runs inside one `Update` or `View`, so every operation is one
action over the whole state and needs no files; what happens to an operation
whose transaction fails or is in doubt is `Store`'s business. Each action has
the guards of the code in their order (existence, version, status, consistency
of references), including the tasks it queues and the assessments it marks. The
arguments are any members of the constant sets, any version and any key. An
operation refused by the code changes nothing and is not an action; nor is a
call repeated under a recorded idempotency key, which is answered with what was
recorded.

Every request names a version, any version, as a client that has read the object
some time ago would; `Current` is the guard that refuses it. The history variable
`based` collects the version each accepted write was made on, so that a property
can say what a lost update is.

A pass of a loop is two actions, because the code reads the clock and looks at a
snapshot without the lock and updates under it later: `LookForTasks` and
`RunDueTasks`, `LookForExpired` and `ScanExpiredEvidence`. Between the two
requests, the other loop and the clock go on. `due` is what the worker found;
its update selects again, so of what was queued since it takes any part, up to
`Batch`, by whose clock was read first, and the first of its tasks for a
revision, in the order of their random identifiers, gives the reason. `scanTime`
is the clock the scanner read; its update looks through all evidence again, by
that time. A pass whose update the store refuses changes nothing and the next
looks again.

What the rule engine computes is five constant operators here: `NeedsTest`,
`Coverage`, `HasGaps`, `Conclude`, `Blocking`. The sources are given to them as a
function from identifiers to variables (`SourceVariables`), so that two sources on
one weld stay two, which matters to the engine. A rule may ask no test of a weld
(`NeedsTest`), and a qualification then passes without evidence. `MCCasework`
gives them the values of three contents and two welds between which everything
can differ: a wide rule set covers both welds, a narrow and a lenient one only
that of the source; what is not covered is a gap, refused under a narrow rule and
a condition under a lenient one; a narrow one asks no test of a low weld. They
stand for the operators of `Rules` (`RevisionCoverage`, `Assess`, `Blocking`),
which has runs of its own.

### Rules

Variables are those the code treats apart: the pair of base materials, a
discrete variable, a numeric one and the service condition. Numbers are small
integers and units names; `Fixed` has their conversion. `MCFunctions` puts the
engine to a growing list of sources and a growing list of evidence, so that
properties can relate what is granted before and after one more of them.

### Fixed

A machine integer is a member of `-Half .. Half - 1`, and `Wrap` does what Go's
arithmetic does beyond it. A text is what `strings.TrimSpace` and `strings.Split`
leave: whether a minus was taken off the front, and the parts between the dots,
each with a sign of its own or none (`strconv.ParseInt` accepts one) and its
digits. The parameters are scaled down from 2^63, base 10, three decimals and
1000 to 32, base 3, two decimals and 3, which keeps what matters: a few texts
are beyond the machine, most are inside, and as in the program the machine has
the number 1.000 and the fraction of the smallest integer fills all its decimals
(`WidthAssumption`). A power of the base is written as the number that a one and
zeros spell (`Power`), because the provers know nothing of `^`.

### Paging

`GetPage` is `paginate` (`server.go:491-549`) over a list made afresh: the
elements behind the cursor's identifier, as many as the limit says, and the last
identifier as the next cursor. Between two pages tasks come to be under any free
identifier and others, served or not, are finished and leave or enter the
filter. Identifiers are numbers because only their order is used. The ghost
`constant` holds the tasks that matched all the time.

### Server

`phase` is where `run()` is: serving, draining (in `Server.Shutdown`), stopping
(in `Manager.Stop`), closed (the repository, with handlers perhaps still alive)
and down. A handler is received, committing (it holds the lock of the
repository), answering, gone. `BeginCreate` is what happens under the lock up to
the journal write: the key is looked up and the transaction proposed to the
ledger; then it is `Committed`, or `CommitFails` and stays in doubt. The answer
may arrive or get lost. A client asks again while it has no answer or an error,
also while its earlier request is still in the process.

A loop takes a look without the lock, and updates under it if something is due;
before each look it may find its context cancelled (`EndLoop`). `Start` includes
the loops, started before the address is bound, and goes straight to the
shutdown when binding fails. `StopWaiting` is both the ten seconds that pass and
a `Serve` that fails. `Vanish` is what every end of the process, `Exit`, `Crash`
and `PowerLoss`, does to handlers, loops and lock.

An entry of the ledger is one transaction: the object created, its key and its
content; the work of a loop has no key. `hurried` and `outage` are ghosts: the
shutdown gave up waiting, and power was lost at some time.

## 3. Runs

| Run | Checks | Bounds |
|---|---|---|
| `store_power` | `ConfirmedIsDurable`, `RefusedForAReason`, `StoreInvariant`, `RecoveryInvariant`, `RefusalInvariant`, `ServedOnlyGrows`, `ImplementsLedger` | one process, three `Update`s at most out of four transactions, one of them unreadable, every fault and power losses |
| `casework_lifecycle` | `TypeOK`, `OneRuleInForce`, `PublishedIsPointedAt`, `RangeIsReproducible`, `VersionsCountWrites`, `NoLostUpdate`, `NoBlockedPublication` | two rule sets, each edited once, a qualification, a procedure of two revisions, a change review; a batch holds every task |
| `casework_stale` | `CaseInvariant`, `TasksAreDeduplicated`, `ConclusionIsReproducible`, `NoLostUpdate`, `TriggersMarkAtOnce` | two rule sets of two contents, a revision on one source, a requirement of either weld assessed twice, evidence that expires, a batch of two |
| `casework_retry` | `RetriesCreateNothing` | two keys, two welds, two requirements, two pieces of evidence |
| `casework_live` | `EveryTaskIsDone`, `TasksOvertakeAssessments`, `ExpiryReachesAssessments` | one revision and assessment, all three triggers |
| `functions` | `ApplicableIsWarranted`, `SourceOrderIsIrrelevant`, `UnblockedChangeStaysInRange`, `QualifiedIsTested`, `LaterEvidenceCannotUndo` | three sources, two pieces of evidence, every class and condition |
| | `TextMeansItsValue`, `WrittenReadsBack`, `SameQuantitySameResult` | texts of up to four digits before the dot and three after it, with signs in every place and with a dot too many, the values of these texts, every kind of test and unit |
| | `PagesAscend`, `PagesAreComplete` | four tasks, pages of one or two, every filter |
| `server` | `AtMostOnce`, `AnswersHold`, `LoopsFindItOpen`, `DrainedBeforeClosing`, `ServerInvariant`, `ShutdownEnds` | two clients with one key, the same or other content, one of them with a retry; one loop with one update |
| `store_torn`, `store_fresh`, `store_shared`, `casework_challenged`, `rules_intersect` | one violated statement each, section 5 | |

**Store.** `ConfirmedIsDurable` says what a client may rely on after an answer:
its write is in every snapshot a restart *or a power loss* can find.
`ServedOnlyGrows` says that readers never see time run backwards, except in the
first recovery after a power loss: an entry that was written and not synced may
be replayed by a restart, served, and then lost with the power, since `Open`
does not write what it replayed into a snapshot. It was never reported done.
`ImplementsLedger` says what a *failed* `Update` means: its transaction is in
doubt, a restart may find it committed, but only directly on top of what was
served, and never once another was committed in its place; a power loss takes
back only what was never confirmed. `RefusedForAReason` bounds what can make
`Open` refuse: a whole line that does not parse, because it was written over an
unfinished one or holds a value nothing reads back; a first entry whose
predecessor had no digest; and, after a power loss only, two entries for one
place in the sequence. A crash alone, at any step, never does. Three `Update`s
are enough for one to be confirmed, the next to be left in doubt and a third to
be written over it, with a crash, failure or rotation between any two of them,
and any one of them may be the unreadable one; the fault actions are unbounded.

**Lifecycle.** `RangeIsReproducible` is the property behind the audit: whatever
happened to rules and sources since, the range a revision was published with can
be derived again from what it names. It needs that contents are frozen once
published, that sources keep their rule, and that the gaps found at derivation
are those that stop publication. Two revisions and two rule sets let everything
that supersedes or retires something happen while other work is under way.
`NoLostUpdate` relates the requests to the objects: each version an object has
left behind was the base of the writes that made the next, so a client that read
an older one was refused. It fails as soon as one guard on the expected version
lets an older version pass. `VersionsCountWrites` is the other half: the versions
of qualifications, procedures and requirements count what can be read off them.

**Stale.** `TriggersMarkAtOnce` compares the two states of every step: nothing
becomes known against a revision in a step that leaves one of its assessments
fresh, and no mark is ever removed, given another reason, or accompanied by a
changed conclusion. `TasksAreDeduplicated` watches publications, withdrawals and
scans that race with the worker, also between its look and its update.
`ConclusionIsReproducible` draws each conclusion again, from the contents and
sources as they are now and not from what the assessment copied: with one revision
on either weld, under either content, and requirements of either weld there are
conclusions of all three kinds, while the rule is superseded by the other content
and the source withdrawn. One revision is enough here; the run `casework_lifecycle`
and the proofs have two. Two assessments of a requirement are made by clients that
may have read the same version of it, and `NoLostUpdate` has one of them refused.

**Retry.** A key stands for everything created under it, so a lost answer
followed by the same request, or a request with other content under the same
key, creates nothing. Other requests with other keys run in between.
The invariant the proof needs is checked by `casework_stale`.

**Functions.** One run holds the pure algorithms, each walking its own inputs.
`TextMeansItsValue` compares `ParseFixed` with the number a text spells, for
every text whose only sign is at its front: it is what the machine makes of that
number, and nothing else if the machine has it; what the code makes of texts with
other signs is in section 5. `WrittenReadsBack` says that every number, however
it was spelled, is read as itself from the form `String` gives it in the journal,
and that the smallest is the one exception. `SameQuantitySameResult` says that two accepted measurements of one
quantity give one stored value, whatever their units, unless the multiplication
of kilojoules wraps around. For pages the properties hold for every way the list
can change between any two requests.

**Server.** `AtMostOnce` and `AnswersHold` speak of the composition: whatever a
client repeats after a lost answer, a failed commit, a crash or a power loss, a
key has one object, and what a client was told exists stays. The one exception
is part of `AnswersHold`: a *repeated* request may be answered from an entry that
a restart replayed without syncing it, and a power loss can still take that.
`LoopsFindItOpen` and `DrainedBeforeClosing` are about the order of the shutdown:
loops are always awaited, handlers unless the ten seconds pass. Two clients that
share a key are enough for a request, its retry and a foreign request to be in
the process at once, with one content or two; one loop that updates is enough
to be in the way of each of them. Deadlock is checked: the process can always
be killed or started again.

**Liveness and its fairness.** In `Casework`, `Fairness` is weak fairness of the
looks (`LookForTasks`, `LookForExpired`) and of the updates that follow them
(`RunDueTasks`, `ScanExpiredEvidence`). Each pair is called by a loop
(`jobs/manager.go`) that ticks for as long as the process lives and that goes on
whatever the last call returned; a look finds what is due as long as it stays
due, and a call that has looked goes on to its update. No fairness is
assumed of clients or of the clock. `Batch` is two where the code has twenty, so
that more tasks than fit into a batch can be queued (six in `casework_lifecycle`,
which is not about batches).

In `Server`, `ShutdownEnds` assumes that handlers and loops inside an update get
on (an update is a finite sequence of file calls and gives the lock back), that
the ten seconds of the shutdown pass, and that `run()` goes on when what it waits
for has happened: weak fairness of each. The end of a loop needs strong fairness:
when its tick and its cancellation are both ready Go's `select` picks one of
them at random (`manager.go:54-60`), so that EndLoop is possible again and again,
not all the time. Nothing is assumed of clients, of signals or of how often
there is work.

**Bounds.** `MaxUpdates`, `MaxTime`, `MaxEvidence`, `MaxEdits`, `Batch`, `MaxSources`,
`MaxDigits`, `MaxLimit`, `MaxTries`, `MaxChores` and the sets of identifiers are
the only bounds, all named in the `.cfg` files (`MaxTries` and the wishes of the
clients in `MCServer`).
Identifiers are used once, as the code's random ones are. Symmetry is declared
over identifiers only, and in no run that checks liveness. Deadlock is checked
for the store and the server, which can always crash and start again, and not
for the others, which really stop when their identifiers are used up.

**Mutants.** For every property of every passing run `PROJECT.json` names a
plausible mistake in the code (a guard left out, an order reversed, a version
not counted) as an operator next to the one it replaces, commented "Mutant:";
TLC finds the property violated when it does.

## 4. Proofs

The modules of theorems share a shape: an inductive invariant that TLC checks as
well, lemmas that its parts survive the steps, and one short temporal theorem per
property.

`StoreProofs` proves, for any set of transactions, any processes and any subset
of the faults including power losses:

* `StoreIsSound`: `Spec => []StoreInvariant`;
* `ConfirmedWritesSurvive`: `Spec => []ConfirmedIsDurable`;
* `StoreIsTyped`: `Spec => []TypeOK`.

The theorems assume `Exclusive` (one process at a time on a directory); the run
`store_shared` shows that they need it. The other assumptions are those `Store`
declares about its constants: the marks for torn and garbled lines, a missing
snapshot and a missing digest are none of the values they stand beside.

`ConfirmedIsDurable` is not inductive. What may go wrong from an arbitrary state
that satisfies it: a replay applies an entry that does not extend the state it
is applied to; an update commits a state that does not extend the one it began
with; a directory is synced with a snapshot other than the one just written; a
second process replaces the snapshot. `StoreInvariant` excludes each:

* `SoundDisk` – each journal entry, in the journal and in every file a power loss
  can bring back, extends the state its digest names;
* `SoundProcess` – the digest in memory is that of the state in memory or, for
  the empty state only, missing; the state being committed extends it; between
  rename and directory sync the snapshot is what this call wrote;
* `OneProcess`.

There is one lemma per group of actions (`QuietActions` for those that touch
neither files nor states, then `OpenKeeps`, `ApplyLineKeeps`, `AppendKeeps`,
`CommitUpdateKeeps`, `PowerLossKeeps`, ...), put together in `NextKeeps`. They
rest on lemmas about prefixes and about the edits of a journal (`PrefixByIndex`,
`PrefixTransitive`, `PrefixAppend`, `JournalEdits`).

`LedgerProofs` goes on, under the same assumptions:

* `FilesHoldWhatIsServed`: `Spec => []RecoveryInvariant`;
* `ReadersSeeGrowth`: `Spec => ServedOnlyGrows`;
* `StoreImplementsLedger`: `Spec => ImplementsLedger`, the refinement.

`StoreInvariant` says what files may hold; to know what the next start will
*find*, one has to know where entries stand. An entry of the journal *leads* if
none before it is as long: those are the entries a replay applies, the others it
takes for covered. `Recovers` says of a snapshot and the entries behind it that
together they hold what was served, and that what leads beyond it is at most one
transaction more and directly on top of it. `RecoveryInvariant` says so of the
files as they are, until power is lost, and of whatever a process in the middle
of a replay has still to read (`Placed`); that every history in a file was asked
for once (`KnownFiles`); and that a transaction is asked for only on top of what
is served, which makes it new (`IssuedInOrder`, `NewTransaction`). That an
unfinished line spoils the next entry is harmless here: an entry that cannot be
read leads nowhere. `ReadersSeeGrowth` is then one lemma about the end of a
replay (`ServedIsRecovered`).

For the refinement every action of `Store` is mapped: `BeginUpdate` to `Propose`,
`CommitUpdate` to `Commit`, the end of `Open` to `Restart`, the end of a process
to `Stop`, power lost to `PowerLoss`, and every other step to `Forget` or a
stutter. In doubt (`InDoubt`) is the transaction of the call under way and every
complete record, in the snapshot or the journal, of one transaction more than
what is served. The attempt to prove it corrected that mapping, which had
dropped a call once its entry was written: an entry that lands on an unfinished
line is no record, and the call is still under way.

`RefusalProofs` explains every refusal:

* `FilesStayReadable`: `Spec => []RefusalInvariant`;
* `RefusalsAreExcused`: `Spec => []RefusedForAReason`.

`Blocks(s, j, i)` says without any process that replay is refused at a line: it
is whole and does not parse (`Unparsed`, whether it was written over an unfinished
one or holds a value nothing reads back), or it leads beyond the snapshot and names a state other than the one
replay has when it comes to it (`Follows`). `RefusalInvariant` says that for the
files now, and for *every* pair of a snapshot and a journal a power loss may
leave, either nothing blocks or the excuse can be seen in the same two files.
For that the newest entries must name what is served (`NamesServed`), and every
snapshot whose rename may not last must still be backed by its entry in the
journal (`Backed`): otherwise a lost rename could leave a journal that jumps
over a transaction.

`CaseworkProofs` proves, for any sets of identifiers, contents, variables and
keys, any bounds, and any rule engine whose results have the right type
(`OperatorsAssumption`):

* `CasesHoldTogether`: `Spec => []CaseInvariant`, and from it `CasesAreTyped`,
  `OneRuleAtATime`, `PublishedArePointedAt`, `RangesAreReproducible`,
  `ConclusionsAreReproducible`, `TasksStayDeduplicated`, `RetriesAreAnswered`,
  `VersionsAreCounts` (qualifications, procedures and requirements) and
  `NoUpdateIsLost` (all six kinds of objects with versions), one for each invariant of the runs;
* `BlockedStayUnpublished`: `Spec => NoBlockedPublication`, and
  `TriggersAlwaysMark`: `Spec => TriggersMarkAtOnce`, the two action properties.

Of the properties only `OneRuleInForce` and `TasksAreDeduplicated` are inductive
given the types. Why a range stays reproducible takes more: the rule and the
sources a revision names exist and have their own place in time (`SourcesHold`:
the rule is no draft, so no edit reaches its content; each source has passed its
evaluation, so no evidence is added to it), a procedure exists for each revision
and lists it (`ProceduresHold`), an assessment is of a revision that was
published once, so that its range is final (`AssessmentsHold`), a blocking review
is never approved (`ReviewsHold`), and a record of evidence is of a
qualification there is (`RecordsHold`). For `NoLostUpdate`,
`RecordsWrites` says what a step adds to `based`, and `OneWrittenFollows`, once for
all kinds of objects, that a write made on the current version leaves no version
out and uses none twice.
`VersionsCountWrites` counts what a qualification, a procedure or a requirement has
collected, which is sound only because each list is exactly the
objects that name their owner, finite, and gains one new member with each write
(`ListsHold`). `CaseInvariant` is these and the properties.

The proof has a part per aggregate. Its `...Keep` lemma says that the aggregate's
part of the invariant survives any step, and a `...Last` predicate what a step
may not do to its objects: a rule set that is no draft keeps its content
(`RulesLast`), a qualification that has passed keeps its evidence
(`QualificationsLast`), a revision keeps its range once derived
(`RevisionsLast`), what is recorded under a key stays (`RecordsLast`). The parts
that relate aggregates follow from these alone (`RangesKeep`, `ConclusionsKeep`),
without another look at the actions; `NextKeeps` puts the parts together.
`TriggersMark` shows for each trigger that what becomes known against a revision
is what the marking reaches.

`ServerProofs` proves, for any clients, keys, contents, wishes, loops and numbers
of requests:

* `ServerIsSound`: `Spec => []ServerInvariant`, with `ServerIsTyped`;
* `KeysCreateOnce`: `Spec => []AtMostOnce`;
* `AnswersAreKept`: `Spec => []AnswersHold`;
* `LoopsEndFirst` and `RequestsEndFirst`: `Spec => []LoopsFindItOpen` and
  `Spec => []DrainedBeforeClosing`.

That a key has one object in what is served is not inductive: a restart may serve
another history. So every history that may come back, the confirmed one, those in
doubt and all that were asked for, has to have each key once (`HistoriesFit`),
and a transaction may only be proposed by who holds the lock and has just looked
its key up. What is confirmed is kept by what is served and that by what is in
doubt; an answer is backed by one of them from the moment it is made
(`AnswersBacked`), since the client may get it after any number of other steps.
`LockHeld` ties the lock to the one handler or loop inside an update, and `Quiet`
says what has ended in which phase. The lemmas follow these parts:
`HistoriesKept`, `AnswersKept`, `TypesKept`, `LockKept`, `QuietKept` and
`DrainedKept`.

`ServerProofs` rests on `Ledger`'s actions, which `LedgerProofs` shows the files to
implement. `ServerUsesLedger`: `Spec => Log!Spec` is the other side: handlers,
loops and the shutdown, in whatever order they run, take only the steps `Ledger`
offers.

`PagingProofs` proves, for lists and pages of any size and any changes between two
pages, `PagesStayInOrder` (`[]PagesAscend`) and `PagesMissNothing`
(`[]PagesAreComplete`). The invariant adds to the two properties that the cursor
names the last item received (`CursorFits`) and that what has matched all along
matches now. That a page holds the elements behind the cursor, the least ones
first, rests on `SortingProofs`: `AscendingSorts` says that `Ascending(S)` lists
all of a finite set of numbers, each once and in order, since ranks are
different (`RanksAreDifferent`) and none is left out (`EveryRankIsTaken`).

`FunctionsProofs` proves the properties of the rule engine and of measurements.
The lemmas speak of any rule set of the right shape (`RuleFits`), any welds and
any evidence; the theorems carry them to the inputs of `MCFunctions` through
`FunctionsInvariant`, which says that what was computed belongs to what came in:

* `ApplicableWeldsAreWarranted` and `SourcesInAnyOrder`. The code merges sources
  two by two, and such a merge is no intersection: a material joined to itself
  loses a place, an empty result drops a variable. `StandsFor(c, r, W)` says what
  a range `c` merged from the welds `W` can be: it holds what all of them grant,
  and lacks a variable only if one of them does not grant it or nothing is left.
  `OneMore` shows that merging one more weld keeps this, `SourcesGrantTogether`
  that after the second weld the range is a function of the set alone
  (`Together`); a single weld still has its own order of materials, which a swap
  does not change. `ApplicableWeld` reads what a source must have been from there.
* `QualifiedOnTests` and `LaterEvidenceIsHarmless`. The first active report of a
  type decides (`Deciding`). `LaterEvidence` shows that an appended report is
  never first where another was, `ExpiredEvidence` that taking a report out of
  force away moves the others without changing which of them comes first.
* `UnblockedChangesStay`, of changes within one service, variable by variable, from what a validated rule set
  demands of each class.
* `SameQuantitiesAgree`, for machine integers of any width and any number of
  decimals: what is parsed is a machine integer (`ParsedIsMachine`), a division
  is exact or rejected (`ExactDivision`), so that the result times its unit is
  the quantity (`ResultIsQuantity`), and equal quantities have equal results.

* `TextsMeanTheirValues` and `NumbersReadBack`, for texts of any length, any base
  and any number of decimals. `NumberUnfolds` has the value of digits as a function
  on their prefixes; from there on appending a zero multiplies by the base
  (`PowerSteps`), n digits spell any number below the n-th power and no other
  (`NumberInRange`, `DigitsSpell`), and zeros behind a fraction do what
  multiplication by a power does (`PaddedNumber`). Go wraps after each operation;
  `WrapLater` shows that it may as well wrap once, at the end, so that a text is
  read as what its value wraps to (`PlainTextMeansItsValue`). A whole part that the
  machine lacks cannot belong to a value that it has. Written numbers are such
  texts (`WrittenIsRead`) but for the smallest: its negation is itself, so the
  fraction gets a sign of its own, and with all decimals filled it is one character
  too long (`SmallestIsRefused`).

Sources come in a sequence and ranges are folded over it; the library's theorems
about induction take an operator, which the provers cannot instantiate.
`SortingProofs` states induction as `SetInduction` over a *set* of numbers
instead, from the well-founded order of the naturals, and `IntersectionUnfolds`
and `NumberUnfolds` use it over the lengths for which the fold unfolds as it should.

The assumptions are those of the modules: `WidthAssumption` for numbers (a base of
at least two, at least one decimal, a machine of even width that has the number
1.000, and a smallest integer whose fraction fills all decimals), the bound
`MaxDigits` a natural number for the runs' texts, the sets of identifiers being
numbers for pages.

Every invariant and every action property of the passing runs is proved. Liveness
stays with TLC alone: its proof needs `ENABLED`, which the installed provers do not
handle.

## 5. Where code and documentation disagree

Each is shown by a run that TLC ends with a counterexample; `findings` in
`PROJECT.json` quotes the lines.

* `store_torn` – an unfinished journal line is cut off by the next start only. A
  process that goes on after a failed append writes the entry of its next update
  onto that line; the two are one whole line that does not parse, and after a kill
  the next start is refused at it, the last line of the journal.
* `store_fresh` – in a new directory, a first update whose snapshot fails
  followed by a regular close leaves a snapshot with a digest and an entry
  without one; the next start is refused.
* `store_shared` – the importer run beside the server, as the repository's
  `README.md` shows it, and the server overwrite each other's confirmed writes.
* `casework_challenged` – an assessment made after the tasks of a withdrawal have
  run is fresh, on a withdrawn source, and nothing will mark it.
* `rules_intersect` – a material joined to itself is the pair `[P1, P1]`; the
  intersection of two such ranges is `[P1]`, which no weld matches.

Others have no run of their own but can be read off the models: tasks are never
retried nor `DEAD`, since a task that is taken is always finished
(`service.go:796-816`, `docs/business-rules.md:25`); tasks for rule sets, change
reviews and qualifications are finished without effect; a revision whose
derivation finds gaps stays `IN_REVIEW` for good (`service.go:458, 539`), as does
the target of a blocking review (`548, 721`); a change review may use a draft
rule (`690`) and a qualification a superseded one (`159`); a variable without
coverage is a blocking mismatch even when its class is `NON_ESSENTIAL`
(`engine.go:311-315`).

Of numbers: only the part before the dot is checked against the range, so that a
large one wraps around, and the parts may carry signs of their own, so that
`1.-5` is read as 0.950 and `--5` as 5 (`types.go:58-81`). `9223372036854775.808`
wraps around to the smallest integer, which is its own negation and is written
with a sign in every part (`types.go:82-89`); no one can read that text again,
neither the check of the snapshot nor the next start. `WrittenReadsBack` names
that one number, and `Unreadable` in `Store` is an update that brings it in: the
update fails after its entry is durable, and the next start is refused for it.
A multiplication of kilojoules is not checked against the range
(`units.go:26`) and stores another quantity when it wraps around;
`SameQuantitySameResult` leaves these quantities out, because no document says
what should become of them.

Of a change of service: `Blocking` asks for the condition of a variable in the
service of the target only (`engine.go:399`), so a change that brings a condition
in is not blocked by it. `UnblockedChangeStaysInRange` does not speak of such
changes; the range of the target, derived afterwards, has to be free of gaps.

Of the processes: an answer to a repeated request may rest on an entry that was
replayed and not synced, and a power loss may take it back (`store.go:259`); the
importer writes a snapshot on closing even with `-dry-run`
(`cmd/arcproof-import/main.go`, `store.go:101`), as `store_shared` includes.

## 6. Not modelled

* *Contents of the audit chain and `ValidateState`*: in `Store` a state is its
  history, so the chain cannot disagree with it.
* *Damage to files by other hands*: no action writes to the directory but the
  program.
* *Wording, layout, export, routing, decoding, flags*: formatting and input
  checking.
* *Clauses, input digests and gap texts in ranges*: carried along, never decided
  on; likewise names and editions.
* *Health, Probe, the degraded flag*: each reads what is there and reports it;
  nothing depends on them, and a property would restate their conditions.
* *`NormalizeLength`, `NormalizeTemperature`, `NormalizeHeatInput`*: they have no
  caller outside their tests.
* *The self-check of the server*: a script of requests against itself.
* *Tasks on an assessment* (`service.go:802-808`): the worker could handle them,
  but no operation creates one.
* *Connections accepted before the signal, or still open after `Serve` failed*
  (`main.go:60-71`): a request that arrives on one is like one that was received
  before, and is refused or awaited as that is.
* *Two servers on one directory*: `Server` is one process. What a second one does
  to the files is `store_shared`.

## 7. Plan

All of the plan's modules are written, and every safety property of the passing
runs is proved.
