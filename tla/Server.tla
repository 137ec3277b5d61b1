------------------------------- MODULE Server -------------------------------
(***************************************************************************)
(* The server process (src/cmd/arcproof/main.go) between its clients and   *)
(* its store: handlers of requests that create an object under an          *)
(* idempotency key, the background loops (src/internal/jobs/manager.go),   *)
(* and the shutdown that drains the first, stops the second and closes the *)
(* repository.  A client that has no answer asks again, perhaps while its  *)
(* earlier request is still being handled; its connection, the process or  *)
(* the machine may fail at any step.                                       *)
(*                                                                         *)
(* The store is the Ledger it implements (Store, ImplementsLedger).  An    *)
(* entry of the chain is one transaction: the object a request created,    *)
(* its key and its content; or the work of a loop, which has no key.       *)
(***************************************************************************)
EXTENDS Integers, Sequences, SequencesExt

CONSTANTS
    Client,             \* callers, each with one thing to create
    Key, Content,       \* idempotency keys, and what may be asked for under one
    Wishes,             \* what each client may want: a key and a content
    Loop,               \* the background loops
    Nobody,             \* holds the lock of the repository when it is free
    NoKey, NoReply,
    MaxTries,           \* bound: requests of each client
    MaxChores           \* bound: updates the loops begin

\* A request is known by its client and its number; the identifier newID gives
\* its object is as unique.
Request == UNION {{c} \X (1..MaxTries[c]) : c \in Client}

ASSUME NobodyAssumption == Nobody \notin (Client \X Nat) \cup Loop
ASSUME LoopAssumption == Loop \cap (Client \X Nat) = {}
ASSUME NoKeyAssumption == NoKey \notin Key
ASSUME WishesAssumption == Wishes \subseteq [Client -> [key: Key, content: Content]]
ASSUME BoundsAssumption == MaxTries \in [Client -> Nat] /\ MaxChores \in Nat

VARIABLES
    chain, firm, asked, doubt, up, lost,    \* the store (Ledger)
    phase,              \* where run() is
    lock,               \* who is inside Repository.Update
    handler,            \* where the handler of each request is
    reply,              \* what it is about to answer
    answer,             \* the answer each client has
    worker,             \* where each loop is
    chores,             \* updates the loops have begun
    request,            \* the key and the content each client uses
    hurried,            \* run() stopped waiting for its handlers
    outage              \* power was lost at some time

storeVars == <<chain, firm, asked, doubt, up, lost>>
clientVars == <<answer, request>>
handlerVars == <<lock, handler, reply>>
loopVars == <<worker, chores>>
serverVars == <<storeVars, phase, clientVars, handlerVars, loopVars, hurried, outage>>

Entry ==
    [key: Key \cup {NoKey}, content: Content \cup {NoKey}, object: Request \cup Loop]
History == Seq(Entry)

Log == INSTANCE Ledger WITH Txn <- Entry

EntryOf(a) == [key |-> request[a[1]].key, content |-> request[a[1]].content, object |-> a]
ChoreOf(l) == [key |-> NoKey, content |-> NoKey, object |-> l]
Objects(h) == {h[i].object : i \in DOMAIN h}

Created(o) == [result |-> "created", object |-> o]
Repeated(o) == [result |-> "repeated", object |-> o]
Refusal(why) == [result |-> why, object |-> Nobody]
Reply ==
    [result: {"created", "repeated", "conflict", "failed", "closed"},
     object: Request \cup Loop \cup {Nobody}]
ASSUME NoReplyAssumption == NoReply \notin Reply

Active(a) == handler[a] \in {"received", "committing", "answering"}
Running == {"serving", "draining", "stopping"}

Init ==
    /\ Log!Init
    /\ phase = "down"
    /\ lock = Nobody
    /\ handler = [a \in Request |-> "none"]
    /\ reply = [a \in Request |-> NoReply]
    /\ answer = [c \in Client |-> NoReply]
    /\ worker = [l \in Loop |-> "ended"]
    /\ chores = 0
    /\ request \in Wishes
    /\ hurried = FALSE
    /\ outage = FALSE

-----------------------------------------------------------------------------
(* Clients.                                                                *)

\* A client asks again after an error as it does without any answer, so only
\* the other answers are kept.
Final(r) == r.result \in {"created", "repeated", "conflict"}
Settled(c) == answer[c] # NoReply

Ask(a) ==
    /\ phase = "serving"
    /\ ~Settled(a[1])
    /\ handler[a] = "none"
    /\ \A b \in Request : b[1] = a[1] /\ b[2] < a[2] => handler[b] # "none"
    /\ handler' = [handler EXCEPT ![a] = "received"]
    /\ UNCHANGED <<storeVars, phase, lock, reply, clientVars, loopVars, hurried, outage>>

Answer(a) ==
    /\ handler[a] = "answering"
    /\ handler' = [handler EXCEPT ![a] = "gone"]
    /\ reply' = [reply EXCEPT ![a] = NoReply]
    /\ answer' = IF Final(reply[a]) /\ ~Settled(a[1])
                 THEN [answer EXCEPT ![a[1]] = reply[a]] ELSE answer
    /\ UNCHANGED <<storeVars, phase, lock, request, loopVars, hurried, outage>>

AnswerLost(a) ==
    /\ handler[a] = "answering"
    /\ handler' = [handler EXCEPT ![a] = "gone"]
    /\ reply' = [reply EXCEPT ![a] = NoReply]
    /\ UNCHANGED <<storeVars, phase, lock, clientVars, loopVars, hurried, outage>>

-----------------------------------------------------------------------------
(* The Update of a request (Service.CreateRequirement, AddEvidence): the   *)
(* record of its key is looked up under the lock it commits under.         *)

\* Mutant: a record counts only for a request with its content.
Recorded_SameContent(a) ==
    {i \in DOMAIN chain :
        chain[i].key = EntryOf(a).key /\ chain[i].content = EntryOf(a).content}
Recorded(a) == {i \in DOMAIN chain : chain[i].key = EntryOf(a).key}

Replay(a, i) ==
    IF chain[i].content = EntryOf(a).content THEN Repeated(chain[i].object)
    ELSE Refusal("conflict")

MayUpdate(a) == handler[a] = "received" /\ lock = Nobody

Finish(a, r) ==
    /\ handler' = [handler EXCEPT ![a] = "answering"]
    /\ reply' = [reply EXCEPT ![a] = r]
    /\ lock' = Nobody

RepeatResult(a) ==
    /\ MayUpdate(a)
    /\ phase \in Running
    /\ \E i \in Recorded(a) : Finish(a, Replay(a, i))
    /\ UNCHANGED <<storeVars, phase, clientVars, loopVars, hurried, outage>>

BeginCreate(a) ==
    /\ MayUpdate(a)
    /\ phase \in Running
    /\ Recorded(a) = {}
    /\ Log!Propose(EntryOf(a))
    /\ lock' = a
    /\ handler' = [handler EXCEPT ![a] = "committing"]
    /\ UNCHANGED <<phase, reply, clientVars, loopVars, hurried, outage>>

Committed(a) ==
    /\ lock = a
    /\ Log!Commit
    /\ chain' = Append(chain, EntryOf(a))
    /\ Finish(a, Created(a))
    /\ UNCHANGED <<phase, clientVars, loopVars, hurried, outage>>

\* Mutant: the error of the store is not looked at.
FailureReply_Ignored(a) == Created(a)
FailureReply(a) == Refusal("failed")

\* The store reports an error; what it wrote by then stays in doubt.
CommitFails(a) ==
    /\ lock = a
    /\ Finish(a, FailureReply(a))
    /\ UNCHANGED <<storeVars, phase, clientVars, loopVars, hurried, outage>>

FindClosed(a) ==
    /\ MayUpdate(a)
    /\ phase = "closed"
    /\ Finish(a, Refusal("closed"))
    /\ UNCHANGED <<storeVars, phase, clientVars, loopVars, hurried, outage>>

-----------------------------------------------------------------------------
(* The loops: a look at a snapshot, and an Update if something is due.     *)

\* Mutant: the loops run under a context of their own.
Cancelled_Never == FALSE
Cancelled == phase \in {"draining", "stopping", "closed"}

Look(l) ==
    /\ worker[l] = "waiting"
    /\ lock = Nobody
    /\ chores < MaxChores
    /\ worker' = [worker EXCEPT ![l] = IF phase = "closed" THEN "refused" ELSE "due"]
    /\ UNCHANGED <<storeVars, phase, clientVars, handlerVars, chores, hurried, outage>>

BeginChore(l) ==
    /\ worker[l] = "due"
    /\ lock = Nobody
    /\ phase \in Running
    /\ chores < MaxChores
    /\ Log!Propose(ChoreOf(l))
    /\ lock' = l
    /\ worker' = [worker EXCEPT ![l] = "committing"]
    /\ chores' = chores + 1
    /\ UNCHANGED <<phase, clientVars, handler, reply, hurried, outage>>

\* Another run has done the work since, so the update changes nothing.
NothingDue(l) ==
    /\ worker[l] = "due"
    /\ lock = Nobody
    /\ worker' = [worker EXCEPT ![l] = IF phase = "closed" THEN "refused" ELSE "waiting"]
    /\ UNCHANGED <<storeVars, phase, clientVars, handlerVars, chores, hurried, outage>>

ChoreEnds(l) ==
    /\ lock = l
    /\ \/ Log!Commit /\ chain' = Append(chain, ChoreOf(l))
       \/ UNCHANGED storeVars
    /\ lock' = Nobody
    /\ worker' = [worker EXCEPT ![l] = "waiting"]
    /\ UNCHANGED <<phase, clientVars, handler, reply, chores, hurried, outage>>

EndLoop(l) ==
    /\ worker[l] = "waiting"
    /\ Cancelled
    /\ worker' = [worker EXCEPT ![l] = "ended"]
    /\ UNCHANGED <<storeVars, phase, clientVars, handlerVars, chores, hurried, outage>>

-----------------------------------------------------------------------------
(* run(): open, start the loops, serve; then the deferred calls in turn.   *)

\* The loops are started before the address is bound, which may fail.
Start ==
    /\ phase = "down"
    /\ Log!Restart
    /\ worker' = [l \in Loop |-> "waiting"]
    /\ phase' \in {"serving", "stopping"}
    /\ UNCHANGED <<clientVars, handlerVars, chores, hurried, outage>>

Signal ==
    /\ phase = "serving"
    /\ phase' = "draining"
    /\ UNCHANGED <<storeVars, clientVars, handlerVars, loopVars, hurried, outage>>

\* Mutant: the server is closed without waiting for its handlers.
AllAnswered_NotAsked == TRUE
AllAnswered == \A a \in Request : ~Active(a)

\* Server.Shutdown returns when no connection is active.
Drained ==
    /\ phase = "draining"
    /\ AllAnswered
    /\ phase' = "stopping"
    /\ UNCHANGED <<storeVars, clientVars, handlerVars, loopVars, hurried, outage>>

\* It gives up after ten seconds; and when Serve fails nobody waits at all.
StopWaiting ==
    /\ phase \in {"serving", "draining"}
    /\ phase' = "stopping"
    /\ hurried' = TRUE
    /\ UNCHANGED <<storeVars, clientVars, handlerVars, loopVars, outage>>

\* Mutant: the repository is closed before the loops are stopped.
LoopsEnded_NotAwaited == TRUE
LoopsEnded == \A l \in Loop : worker[l] = "ended"

CloseRepository ==
    /\ phase = "stopping"
    /\ LoopsEnded
    /\ lock = Nobody
    /\ Log!Stop
    /\ doubt' = doubt
    /\ phase' = "closed"
    /\ UNCHANGED <<clientVars, handlerVars, loopVars, hurried, outage>>

\* With the process, its handlers and loops are gone.
Vanish ==
    /\ phase' = "down"
    /\ lock' = Nobody
    /\ handler' = [a \in Request |-> IF Active(a) THEN "gone" ELSE handler[a]]
    /\ worker' = [l \in Loop |-> "ended"]
    /\ reply' = [a \in Request |-> NoReply]
    /\ hurried' = FALSE
    /\ UNCHANGED <<clientVars, chores>>

Exit ==
    /\ phase = "closed"
    /\ Vanish
    /\ UNCHANGED <<storeVars, outage>>

Crash ==
    /\ phase \in Running
    /\ Log!Stop
    /\ doubt' = doubt
    /\ Vanish
    /\ outage' = outage

PowerLoss ==
    /\ Log!PowerLoss
    /\ Vanish
    /\ outage' = TRUE

-----------------------------------------------------------------------------

Handle(a) ==
    \/ RepeatResult(a) \/ BeginCreate(a) \/ Committed(a) \/ CommitFails(a) \/ FindClosed(a)
    \/ Answer(a) \/ AnswerLost(a)
Work(l) == BeginChore(l) \/ NothingDue(l) \/ ChoreEnds(l)
Finishing == Drained \/ CloseRepository \/ Exit

Next ==
    \/ \E a \in Request : Ask(a) \/ Handle(a)
    \/ \E l \in Loop : Look(l) \/ Work(l) \/ EndLoop(l)
    \/ Start \/ Signal \/ StopWaiting \/ Finishing
    \/ Crash \/ PowerLoss

Spec == Init /\ [][Next]_serverVars

\* Updates come to an end and so do handlers; ten seconds pass; a select with
\* two cases ready takes each of them sometimes.  That some handler and some
\* loop goes on is all that is asked: a request has only so many steps to take.
Fairness ==
    /\ WF_serverVars(\E a \in Request : Handle(a))
    /\ WF_serverVars(\E l \in Loop : Work(l))
    /\ \A l \in Loop : SF_serverVars(EndLoop(l))
    /\ WF_serverVars(Finishing)
    /\ WF_serverVars(phase = "draining" /\ StopWaiting)
FairSpec == Spec /\ Fairness

-----------------------------------------------------------------------------
(* Properties                                                              *)

\* Whatever is retried, fails or comes back after a crash, a key never stands
\* for two objects.
Single(h) == \A i, j \in DOMAIN h : h[i].key = h[j].key /\ h[i].key # NoKey => i = j
AtMostOnce == Single(chain)

\* What a client was told exists is still there, however often the server has
\* crashed since.  Only an object it was told of by repeating a request may be
\* gone, and only by a power loss: Open serves journal lines it has not synced,
\* and a repeated request is answered from them without a new write.
AnswersHold ==
    \A c \in Client :
        Settled(c) /\ answer[c].result # "conflict" =>
            \/ answer[c].object \in Objects(chain)
            \/ outage /\ answer[c].result = "repeated"

\* The loops are stopped before the repository is closed: none ever finds it so.
LoopsFindItOpen == \A l \in Loop : worker[l] # "refused"

\* No request finds the repository closed unless run() stopped waiting for it.
DrainedBeforeClosing ==
    \A a \in Request : Active(a) /\ reply[a] = Refusal("closed") => hurried

HistoryTypes ==
    /\ chain \in History /\ firm \in History
    /\ \A h \in asked \cup doubt : h \in History

TypeOK ==
    /\ HistoryTypes
    /\ up \in BOOLEAN /\ lost \in BOOLEAN
    /\ phase \in Running \cup {"closed", "down"}
    /\ lock \in Request \cup Loop \cup {Nobody}
    /\ handler \in [Request -> {"none", "received", "committing", "answering", "gone"}]
    /\ reply \in [Request -> Reply \cup {NoReply}]
    /\ answer \in [Client -> Reply \cup {NoReply}]
    /\ worker \in [Loop -> {"waiting", "due", "committing", "ended"}]
    /\ chores \in 0..MaxChores
    /\ request \in [Client -> [key: Key, content: Content]]
    /\ hurried \in BOOLEAN /\ outage \in BOOLEAN

\* Every history there is or may come back has each key once; those a restart may
\* come back with keep what is served, and that keeps what is confirmed.
HistoriesFit ==
    /\ \A h \in {chain, firm} \cup asked \cup doubt : Single(h)
    /\ Objects(firm) \subseteq Objects(chain)
    /\ \A h \in doubt : Objects(chain) \subseteq Objects(h)

\* An answer, given or about to be, rests on what is confirmed or at least served.
Backed(r) ==
    /\ r.result = "created" => r.object \in Objects(firm)
    /\ r.result = "repeated" => r.object \in Objects(chain) \/ outage
AnswersBacked ==
    /\ lost => outage
    /\ \A a \in Request : reply[a] # NoReply => Backed(reply[a])
    /\ \A c \in Client : Settled(c) => Final(answer[c]) /\ Backed(answer[c])

\* Who holds the lock is at work inside Update; who answers has an answer.
LockHeld ==
    /\ \A a \in Request : lock = a => handler[a] = "committing"
    /\ \A l \in Loop : lock = l => worker[l] = "committing"
    /\ \A a \in Request : reply[a] # NoReply <=> handler[a] = "answering"

\* What has ended stays ended until the process is started again.
Quiet ==
    /\ phase \in {"closed", "down"} => LoopsEnded
    /\ phase = "down" => AllAnswered
    /\ phase \in {"stopping", "closed"} /\ ~hurried => AllAnswered

\* The inductive invariant of the server, from which its properties follow.
ServerInvariant ==
    /\ TypeOK
    /\ HistoriesFit
    /\ AnswersBacked
    /\ LockHeld
    /\ Quiet
    /\ DrainedBeforeClosing

\* A signal ends the process: nobody waits for ever for a handler, a loop or the
\* lock of the repository.
ShutdownEnds == phase \in {"draining", "stopping", "closed"} ~> phase = "down"
=============================================================================
