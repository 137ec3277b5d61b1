---------------------------- MODULE ServerProofs ----------------------------
(***************************************************************************)
(* What the server guarantees for any clients, keys, contents and loops    *)
(* and any number of requests, whatever fails.                             *)
(***************************************************************************)
EXTENDS Server, SequenceTheorems, TLAPS

-----------------------------------------------------------------------------
(* Histories.                                                              *)

\* One more entry: what Service.Update adds to the objects of a history.
LEMMA AppendedEntry ==
    ASSUME NEW h \in History, NEW e \in Entry
    PROVE  /\ Append(h, e) \in History
           /\ Len(Append(h, e)) = Len(h) + 1
           /\ \A i \in DOMAIN h : i \in DOMAIN Append(h, e) /\ Append(h, e)[i] = h[i]
           /\ \A i \in DOMAIN Append(h, e) : i \in DOMAIN h \/ i = Len(h) + 1
           /\ Append(h, e)[Len(h) + 1] = e
           /\ Len(h) + 1 \in DOMAIN Append(h, e)
BY AppendProperties, LenProperties DEF History

LEMMA AppendKeepsObjects ==
    ASSUME NEW h \in History, NEW e \in Entry
    PROVE  /\ Objects(h) \subseteq Objects(Append(h, e))
           /\ e.object \in Objects(Append(h, e))
<1>1. Objects(h) \subseteq Objects(Append(h, e))
    BY AppendedEntry DEF Objects
<1>2. e.object \in Objects(Append(h, e))
    BY AppendedEntry DEF Objects
<1> QED
    BY <1>1, <1>2

\* An entry without a key, or whose key is new, leaves every key single.
LEMMA AppendKeepsSingle ==
    ASSUME NEW h \in History, NEW e \in Entry, Single(h),
           e.key = NoKey \/ \A i \in DOMAIN h : h[i].key # e.key
    PROVE  Single(Append(h, e))
<1> DEFINE s == Append(h, e)
<1>1. SUFFICES ASSUME NEW i \in DOMAIN s, NEW j \in DOMAIN s,
                      s[i].key = s[j].key, s[i].key # NoKey
               PROVE  i = j
    BY DEF Single
<1>2. CASE i \in DOMAIN h /\ j \in DOMAIN h
    BY <1>1, <1>2, AppendedEntry DEF Single
<1>3. CASE i \in DOMAIN h /\ j \notin DOMAIN h
    BY <1>1, <1>3, AppendedEntry
<1>4. CASE i \notin DOMAIN h /\ j \in DOMAIN h
    BY <1>1, <1>4, AppendedEntry
<1>5. CASE i \notin DOMAIN h /\ j \notin DOMAIN h
    BY <1>1, <1>5, AppendedEntry
<1> QED
    BY <1>2, <1>3, <1>4, <1>5

\* Recovery after a power loss returns to what was confirmed or goes beyond it.
LEMMA PrefixKeepsObjects ==
    ASSUME NEW h \in History, NEW s \in History, IsPrefix(h, s)
    PROVE  Objects(h) \subseteq Objects(s)
<1>1. Len(h) \in Nat /\ Len(s) \in Nat /\ DOMAIN h = 1..Len(h) /\ DOMAIN s = 1..Len(s)
    BY LenProperties DEF History
<1>2. Len(h) <= Len(s) /\ SubSeq(h, 1, Len(h)) = SubSeq(s, 1, Len(h))
    BY DEF IsPrefix
<1>3. \A i \in DOMAIN h : h[i] = SubSeq(s, 1, Len(h))[i]
    BY <1>1, <1>2, SubSeqFull DEF History
<1>4. \A i \in DOMAIN h : SubSeq(s, 1, Len(h))[i] = s[i]
    BY <1>1, <1>2, SubSeqProperties DEF History
<1>5. \A i \in DOMAIN h : i \in DOMAIN s /\ s[i] = h[i]
    BY <1>1, <1>2, <1>3, <1>4
<1> QED
    BY <1>5 DEF Objects

-----------------------------------------------------------------------------
(* The steps of the store under the server.                                *)

\* Requests and loops write entries of their own.
LEMMA EntriesAreTyped ==
    ASSUME TypeOK
    PROVE  /\ \A a \in Request : /\ EntryOf(a) \in Entry /\ EntryOf(a).object = a
                                  /\ a[1] \in Client /\ a \in Client \X Nat
           /\ \A l \in Loop : ChoreOf(l) \in Entry /\ ChoreOf(l).key = NoKey
BY DEF TypeOK, Request, EntryOf, ChoreOf, Entry

\* What no step takes back: objects confirmed and, without a power loss, served.
Gains ==
    /\ Objects(firm) \subseteq Objects(firm')
    /\ Objects(chain) \subseteq Objects(chain') \/ outage'

\* A proposal under a new key (the lookup and the write of one Update).
LEMMA ProposeKeeps ==
    ASSUME ServerInvariant, NEW e \in Entry, Log!Propose(e),
           e.key = NoKey \/ \A i \in DOMAIN chain : chain[i].key # e.key
    PROVE  (HistoryTypes /\ HistoriesFit)' /\ Gains
<1> DEFINE s == Append(chain, e)
<1>1. /\ s \in History /\ Objects(chain) \subseteq Objects(s) /\ Single(s)
    BY AppendedEntry, AppendKeepsObjects, AppendKeepsSingle
       DEF ServerInvariant, TypeOK, HistoryTypes, HistoriesFit
<1>2. /\ chain' = chain /\ firm' = firm
      /\ asked' = asked \cup {s} /\ doubt' = doubt \cup {s}
    BY DEF Log!Propose
<1> HIDE DEF s
<1>3. HistoryTypes'
    BY <1>1, <1>2 DEF ServerInvariant, TypeOK, HistoryTypes
<1>4. HistoriesFit'
    <2>1. (\A h \in {chain, firm} \cup asked \cup doubt : Single(h))'
        BY <1>1, <1>2 DEF ServerInvariant, HistoriesFit, Single
    <2>2. Objects(firm') \subseteq Objects(chain')
        BY <1>2 DEF ServerInvariant, HistoriesFit
    <2>3. \A h \in doubt' : Objects(chain') \subseteq Objects(h)
        BY <1>1, <1>2 DEF ServerInvariant, HistoriesFit
    <2>4. /\ (Objects(firm) \subseteq Objects(chain))'
          /\ (\A h \in doubt : Objects(chain) \subseteq Objects(h))'
        BY <2>2, <2>3 DEF Objects
    <2> QED
        BY <2>1, <2>4 DEF HistoriesFit
<1>5. Gains
    BY <1>2 DEF Gains, Objects
<1> QED
    BY <1>3, <1>4, <1>5

\* The Update is done: its entry is served and confirmed.
LEMMA CommitKeeps ==
    ASSUME ServerInvariant, NEW e \in Entry, Log!Commit, chain' = Append(chain, e)
    PROVE  /\ (HistoryTypes /\ HistoriesFit)' /\ Gains
           /\ e.object \in Objects(firm')
<1>1. chain' \in doubt /\ firm' = chain' /\ asked' = {} /\ doubt' = {}
    BY DEF Log!Commit
<1>2. /\ chain' \in History /\ Objects(chain) \subseteq Objects(chain') /\ Single(chain')
      /\ e.object \in Objects(chain')
    BY <1>1, AppendKeepsObjects DEF ServerInvariant, TypeOK, HistoryTypes, HistoriesFit
<1>3. Objects(firm) \subseteq Objects(chain')
    BY <1>2 DEF ServerInvariant, HistoriesFit
<1>4. (HistoryTypes /\ HistoriesFit)'
    BY <1>1, <1>2 DEF HistoryTypes, HistoriesFit, Single, Objects
<1> QED
    BY <1>1, <1>2, <1>3, <1>4 DEF Gains, Objects

\* Open finds again what was served, unless power was lost.
LEMMA RestartKeeps ==
    ASSUME ServerInvariant, Log!Restart, outage' = outage
    PROVE  (HistoryTypes /\ HistoriesFit)' /\ Gains
<1>1. chain' \in Log!Recoverable /\ firm' = firm /\ asked' = asked /\ doubt' = {}
    BY DEF Log!Restart
<1>2. chain' \in {chain, firm} \cup asked \cup doubt
    BY <1>1 DEF Log!Recoverable
<1>3. chain' \in History /\ Single(chain')
    BY <1>2 DEF ServerInvariant, TypeOK, HistoryTypes, HistoriesFit
<1>4. Objects(firm) \subseteq Objects(chain') /\ (Objects(chain) \subseteq Objects(chain') \/ lost)
    <2>1. CASE lost
        <3>1. IsPrefix(firm, chain')
            BY <1>1, <2>1 DEF Log!Recoverable, Log!IsPrefix, IsPrefix
        <3> QED
            BY <1>3, <2>1, <3>1, PrefixKeepsObjects DEF ServerInvariant, TypeOK, HistoryTypes
    <2>2. CASE ~lost
        BY <1>1, <2>2 DEF Log!Recoverable, ServerInvariant, HistoriesFit
    <2> QED
        BY <2>1, <2>2
<1>5. (HistoryTypes /\ HistoriesFit)'
    BY <1>1, <1>3, <1>4
       DEF ServerInvariant, TypeOK, HistoryTypes, HistoriesFit, Single, Objects
<1>6. Gains
    BY <1>1, <1>4 DEF Gains, ServerInvariant, AnswersBacked, Objects
<1> QED
    BY <1>5, <1>6

\* A stop, a power loss and every step that is not the store's leave the
\* histories as they are, or fewer in doubt.
LEMMA RestKeeps ==
    ASSUME ServerInvariant, chain' = chain, firm' = firm, asked' = asked,
           doubt' \in SUBSET doubt
    PROVE  (HistoryTypes /\ HistoriesFit)' /\ Gains
<1>1. HistoryTypes'
    BY DEF ServerInvariant, TypeOK, HistoryTypes
<1>2. HistoriesFit'
    <2>1. (\A h \in {chain, firm} \cup asked \cup doubt : Single(h))'
        BY DEF ServerInvariant, HistoriesFit, Single
    <2>2. /\ (Objects(firm) \subseteq Objects(chain))'
          /\ (\A h \in doubt : Objects(chain) \subseteq Objects(h))'
        BY DEF ServerInvariant, HistoriesFit, Objects
    <2> QED
        BY <2>1, <2>2 DEF HistoriesFit
<1>3. Gains
    BY DEF Gains, Objects
<1> QED
    BY <1>1, <1>2, <1>3

\* Every step keeps the histories fit and takes nothing back.
LEMMA HistoriesKept ==
    ASSUME ServerInvariant, [Next]_serverVars
    PROVE  (HistoryTypes /\ HistoriesFit)' /\ Gains
<1>1. TypeOK
    BY DEF ServerInvariant
<1>2. ASSUME NEW a \in Request, BeginCreate(a)
      PROVE  (HistoryTypes /\ HistoriesFit)' /\ Gains
    BY <1>1, <1>2, EntriesAreTyped, ProposeKeeps DEF BeginCreate, Recorded
<1>3. ASSUME NEW a \in Request, Committed(a)
      PROVE  (HistoryTypes /\ HistoriesFit)' /\ Gains
    BY <1>1, <1>3, EntriesAreTyped, CommitKeeps DEF Committed
<1>4. ASSUME NEW l \in Loop, BeginChore(l)
      PROVE  (HistoryTypes /\ HistoriesFit)' /\ Gains
    BY <1>1, <1>4, EntriesAreTyped, ProposeKeeps DEF BeginChore
<1>5. ASSUME NEW l \in Loop, ChoreEnds(l)
      PROVE  (HistoryTypes /\ HistoriesFit)' /\ Gains
    <2>1. CASE Log!Commit /\ chain' = Append(chain, ChoreOf(l))
        BY <1>1, <2>1, EntriesAreTyped, CommitKeeps
    <2>2. CASE UNCHANGED storeVars
        BY <2>2, RestKeeps DEF storeVars
    <2> QED
        BY <1>5, <2>1, <2>2 DEF ChoreEnds
<1>6. CASE Start
    BY <1>6, RestartKeeps DEF Start
<1>7. CASE CloseRepository \/ Crash
    BY <1>7, RestKeeps DEF CloseRepository, Crash, Log!Stop
<1>8. CASE PowerLoss
    BY <1>8, RestKeeps DEF PowerLoss, Log!PowerLoss
<1>9. CASE UNCHANGED storeVars
    BY <1>9, RestKeeps DEF storeVars
<1> QED
    BY <1>2, <1>3, <1>4, <1>5, <1>6, <1>7, <1>8, <1>9
       DEF Next, Handle, Work, Finishing, Ask, Answer, AnswerLost, RepeatResult, CommitFails,
           FindClosed, Look, NothingDue, EndLoop, Signal, Drained, StopWaiting, Exit, serverVars

-----------------------------------------------------------------------------
(* What clients are told.                                                  *)

\* Power once lost is not forgotten.
LEMMA OutageStays ==
    ASSUME ServerInvariant, [Next]_serverVars
    PROVE  (outage => outage') /\ (lost' => outage')
<1>1. (lost => outage) /\ outage \in BOOLEAN
    BY DEF ServerInvariant, AnswersBacked, TypeOK
<1>2. ASSUME NEW a \in Request, Ask(a) \/ Handle(a)
      PROVE  lost' = lost /\ outage' = outage
    BY <1>2 DEF Ask, Handle, RepeatResult, BeginCreate, Committed, CommitFails, FindClosed,
                Answer, AnswerLost, storeVars, Log!Propose, Log!Commit
<1>3. ASSUME NEW l \in Loop, Look(l) \/ Work(l) \/ EndLoop(l)
      PROVE  lost' = lost /\ outage' = outage
    BY <1>3 DEF Look, Work, BeginChore, NothingDue, ChoreEnds, EndLoop, storeVars,
                Log!Propose, Log!Commit
<1>4. CASE Start
    BY <1>1, <1>4 DEF Start, Log!Restart
<1>5. CASE Signal \/ StopWaiting \/ Finishing \/ Crash \/ UNCHANGED serverVars
    BY <1>1, <1>5 DEF Signal, StopWaiting, Finishing, Drained, CloseRepository, Exit, Crash,
                      Log!Stop, storeVars, serverVars
<1>6. CASE PowerLoss
    BY <1>6 DEF PowerLoss
<1> QED
    BY <1>1, <1>2, <1>3, <1>4, <1>5, <1>6 DEF Next

\* Answers given are not touched, answers about to be given may be dropped; what
\* backs them goes on to do so.
LEMMA AnswersStay ==
    ASSUME ServerInvariant, Gains, outage => outage', lost' => outage',
           answer' = answer, \A a \in Request : reply'[a] \in {reply[a], NoReply}
    PROVE  AnswersBacked'
<1>1. ASSUME NEW a \in Request, reply'[a] # NoReply
      PROVE  Backed(reply[a])'
    <2>1. reply'[a] = reply[a] /\ Backed(reply[a])
        BY <1>1 DEF ServerInvariant, AnswersBacked
    <2> QED
        BY <2>1 DEF Backed, Gains, Objects
<1>2. ASSUME NEW c \in Client, Settled(c)'
      PROVE  Final(answer[c])' /\ Backed(answer[c])'
    <2>1. answer'[c] = answer[c] /\ Final(answer[c]) /\ Backed(answer[c])
        BY <1>2 DEF ServerInvariant, AnswersBacked, Settled
    <2> QED
        BY <2>1 DEF Backed, Gains, Objects, Final
<1> QED
    BY <1>1, <1>2 DEF AnswersBacked

\* A new reply that is backed joins the others.
LEMMA FinishBacks ==
    ASSUME ServerInvariant, Gains, outage => outage', lost' => outage', answer' = answer,
           NEW a \in Request, NEW r, Finish(a, r), Backed(r)'
    PROVE  AnswersBacked'
<1>1. reply' = [reply EXCEPT ![a] = r] /\ reply'[a] = r
    BY DEF Finish, ServerInvariant, TypeOK
<1>2. ASSUME NEW b \in Request, reply'[b] # NoReply
      PROVE  Backed(reply[b])'
    <2>1. CASE b = a
        BY <1>1, <2>1 DEF Backed
    <2>2. CASE b # a
        <3>1. reply'[b] = reply[b] /\ Backed(reply[b])
            BY <1>1, <1>2, <2>2 DEF ServerInvariant, AnswersBacked, TypeOK
        <3> QED
            BY <3>1 DEF Backed, Gains, Objects
    <2> QED
        BY <2>1, <2>2
<1>3. ASSUME NEW c \in Client, Settled(c)'
      PROVE  Final(answer[c])' /\ Backed(answer[c])'
    <2>1. answer'[c] = answer[c] /\ Final(answer[c]) /\ Backed(answer[c])
        BY <1>3 DEF ServerInvariant, AnswersBacked, Settled
    <2> QED
        BY <2>1 DEF Backed, Gains, Objects, Final
<1> QED
    BY <1>2, <1>3 DEF AnswersBacked

\* The handler's reply becomes the client's answer.
LEMMA AnswerBacks ==
    ASSUME ServerInvariant, Gains, outage => outage', lost' => outage',
           NEW a \in Request, Answer(a)
    PROVE  AnswersBacked'
<1>1. reply[a] # NoReply /\ Backed(reply[a]) /\ a[1] \in Client
    BY EntriesAreTyped DEF Answer, ServerInvariant, LockHeld, AnswersBacked
<1>2. ASSUME NEW b \in Request, reply'[b] # NoReply
      PROVE  Backed(reply[b])'
    <2>1. reply'[b] = reply[b] /\ Backed(reply[b])
        BY <1>2 DEF Answer, ServerInvariant, AnswersBacked, TypeOK
    <2> QED
        BY <2>1 DEF Backed, Gains, Objects
<1>3. ASSUME NEW c \in Client, Settled(c)'
      PROVE  Final(answer[c])' /\ Backed(answer[c])'
    <2>1. \/ answer'[c] = answer[c] /\ Final(answer[c]) /\ Backed(answer[c])
          \/ answer'[c] = reply[a] /\ Final(reply[a]) /\ Backed(reply[a])
        BY <1>1, <1>3 DEF Answer, ServerInvariant, AnswersBacked, Settled, TypeOK
    <2> QED
        BY <2>1 DEF Backed, Gains, Objects, Final
<1> QED
    BY <1>2, <1>3 DEF AnswersBacked

\* Every step keeps the answers backed.
LEMMA AnswersKept ==
    ASSUME ServerInvariant, [Next]_serverVars
    PROVE  AnswersBacked'
<1>1. Gains /\ (outage => outage') /\ (lost' => outage')
    BY HistoriesKept, OutageStays
<1>2. ASSUME NEW a \in Request, RepeatResult(a)
      PROVE  AnswersBacked'
    <2>1. PICK i \in Recorded(a) : Finish(a, Replay(a, i))
        BY <1>2 DEF RepeatResult
    <2>2. chain' = chain /\ answer' = answer
        BY <1>2 DEF RepeatResult, storeVars, clientVars
    <2>3. Backed(Replay(a, i))
        BY DEF Backed, Replay, Repeated, Refusal, Recorded, Objects
    <2>4. PICK r : r = Replay(a, i)
        OBVIOUS
    <2>5. Backed(r)'
        BY <1>1, <2>3, <2>4 DEF Gains, Backed, Objects
    <2>6. Finish(a, r)
        BY <2>1, <2>4 DEF Finish
    <2> QED
        BY <1>1, <2>2, <2>5, <2>6, FinishBacks
<1>3. ASSUME NEW a \in Request, Committed(a)
      PROVE  AnswersBacked'
    <2>1. a \in Objects(firm')
        BY <1>3, EntriesAreTyped, CommitKeeps DEF Committed, ServerInvariant
    <2>2. Backed(Created(a))'
        BY <2>1 DEF Backed, Created, Objects
    <2> QED
        BY <1>1, <1>3, <2>2, FinishBacks DEF Committed, clientVars
<1>4. ASSUME NEW a \in Request, CommitFails(a) \/ FindClosed(a)
      PROVE  AnswersBacked'
    <2>1. Backed(Refusal("failed"))' /\ Backed(Refusal("closed"))'
        BY DEF Backed, Refusal
    <2> QED
        BY <1>1, <1>4, <2>1, FinishBacks DEF CommitFails, FailureReply, FindClosed, clientVars
<1>5. ASSUME NEW a \in Request, Answer(a)
      PROVE  AnswersBacked'
    BY <1>1, <1>5, AnswerBacks
<1>6. CASE /\ answer' = answer
           /\ \A a \in Request : reply'[a] \in {reply[a], NoReply}
    BY <1>1, <1>6, AnswersStay
<1>7. ASSUME NEW a \in Request, AnswerLost(a) \/ BeginCreate(a) \/ Ask(a)
      PROVE  AnswersBacked'
    BY <1>6, <1>7 DEF AnswerLost, BeginCreate, Ask, clientVars, ServerInvariant, TypeOK
<1>8. ASSUME NEW l \in Loop, Look(l) \/ Work(l) \/ EndLoop(l)
      PROVE  AnswersBacked'
    BY <1>6, <1>8 DEF Look, Work, BeginChore, NothingDue, ChoreEnds, EndLoop, clientVars,
                      handlerVars
<1>9. CASE Start \/ Signal \/ StopWaiting \/ Drained \/ CloseRepository \/ UNCHANGED serverVars
    BY <1>6, <1>9 DEF Start, Signal, StopWaiting, Drained, CloseRepository, clientVars,
                      handlerVars, serverVars
<1>10. CASE Exit \/ Crash \/ PowerLoss
    BY <1>6, <1>10 DEF Exit, Crash, PowerLoss, Vanish, clientVars
<1> QED
    BY <1>2, <1>3, <1>4, <1>5, <1>7, <1>8, <1>9, <1>10 DEF Next, Handle, Finishing

-----------------------------------------------------------------------------
(* Types, the lock, and the order in which the process ends.               *)

\* A reply is one of the results there are.
LEMMA RepliesAreTyped ==
    ASSUME TypeOK
    PROVE  /\ \A a \in Request : {Created(a), FailureReply(a), Refusal("closed")} \subseteq Reply
           /\ \A a \in Request : \A i \in Recorded(a) : Replay(a, i) \in Reply
<1>1. \A i \in DOMAIN chain : chain[i].object \in Request \cup Loop
    <2>1. \A i \in DOMAIN chain : chain[i] \in Entry
        BY LenProperties, ElementOfSeq DEF TypeOK, HistoryTypes, History
    <2> QED
        BY <2>1 DEF Entry
<1> QED
    BY <1>1 DEF Reply, Created, FailureReply, Refusal, Replay, Repeated, Recorded

\* Every step of a request keeps the types.
LEMMA HandleKeepsTypes ==
    ASSUME ServerInvariant, NEW a \in Request, Ask(a) \/ Handle(a), HistoryTypes'
    PROVE  TypeOK'
<1>1. TypeOK /\ a[1] \in Client
    BY EntriesAreTyped DEF ServerInvariant
<1>2. CASE Ask(a)
    BY <1>1, <1>2 DEF Ask, TypeOK, storeVars, clientVars, loopVars
<1>3. CASE Answer(a) \/ AnswerLost(a)
    BY <1>1, <1>3 DEF Answer, AnswerLost, TypeOK, storeVars, clientVars, loopVars
<1>4. CASE RepeatResult(a) \/ CommitFails(a) \/ FindClosed(a)
    <2>1. \E r \in Reply : Finish(a, r)
        BY <1>1, <1>4, RepliesAreTyped DEF RepeatResult, CommitFails, FindClosed
    <2>2. UNCHANGED <<storeVars, phase, clientVars, loopVars, hurried, outage>>
        BY <1>4 DEF RepeatResult, CommitFails, FindClosed
    <2> QED
        BY <1>1, <2>1, <2>2 DEF Finish, TypeOK, storeVars, clientVars, loopVars
<1>5. CASE BeginCreate(a)
    BY <1>1, <1>5 DEF BeginCreate, Log!Propose, TypeOK, clientVars, loopVars
<1>6. CASE Committed(a)
    BY <1>1, <1>6, RepliesAreTyped
       DEF Committed, Log!Commit, Finish, TypeOK, clientVars, loopVars
<1> QED
    BY <1>2, <1>3, <1>4, <1>5, <1>6 DEF Handle

\* Every step of a loop keeps the types: none finds the repository closed.
LEMMA LoopKeepsTypes ==
    ASSUME ServerInvariant, NEW l \in Loop, Look(l) \/ Work(l) \/ EndLoop(l), HistoryTypes'
    PROVE  TypeOK'
<1>1. TypeOK /\ (phase = "closed" => worker[l] = "ended")
    BY DEF ServerInvariant, Quiet, LoopsEnded
<1>2. CASE Look(l) \/ NothingDue(l) \/ EndLoop(l)
    BY <1>1, <1>2
       DEF Look, NothingDue, EndLoop, TypeOK, storeVars, clientVars, handlerVars
<1>3. CASE BeginChore(l)
    BY <1>1, <1>3, BoundsAssumption DEF BeginChore, Log!Propose, TypeOK, clientVars
<1>4. CASE ChoreEnds(l)
    <2>1. up' = up /\ lost' = lost
        BY <1>4 DEF ChoreEnds, Log!Commit, storeVars
    <2> QED
        BY <1>1, <1>4, <2>1 DEF ChoreEnds, TypeOK, clientVars
<1> QED
    BY <1>2, <1>3, <1>4 DEF Work

\* Every step keeps the types.
LEMMA TypesKept ==
    ASSUME ServerInvariant, [Next]_serverVars
    PROVE  TypeOK'
<1>1. TypeOK /\ HistoryTypes'
    BY HistoriesKept DEF ServerInvariant
<1>2. ASSUME NEW a \in Request, Ask(a) \/ Handle(a)
      PROVE  TypeOK'
    BY <1>1, <1>2, HandleKeepsTypes
<1>3. ASSUME NEW l \in Loop, Look(l) \/ Work(l) \/ EndLoop(l)
      PROVE  TypeOK'
    BY <1>1, <1>3, LoopKeepsTypes
<1>4. CASE Start
    BY <1>1, <1>4 DEF Start, Log!Restart, TypeOK, Running, clientVars, handlerVars
<1>5. CASE Signal \/ StopWaiting \/ Drained \/ UNCHANGED serverVars
    BY <1>1, <1>5 DEF Signal, StopWaiting, Drained, TypeOK, Running, storeVars, clientVars,
                      handlerVars, loopVars, serverVars
<1>6. CASE CloseRepository
    BY <1>1, <1>6 DEF CloseRepository, Log!Stop, TypeOK, clientVars, handlerVars, loopVars
<1>7. CASE Exit \/ Crash \/ PowerLoss
    <2>1. Vanish /\ up' \in BOOLEAN /\ lost' \in BOOLEAN /\ outage' \in BOOLEAN
        BY <1>1, <1>7
           DEF Exit, Crash, PowerLoss, Log!Stop, Log!PowerLoss, storeVars, TypeOK
    <2>2. handler' \in [Request -> {"none", "received", "committing", "answering", "gone"}]
        BY <1>1, <2>1 DEF Vanish, TypeOK
    <2> QED
        BY <1>1, <2>1, <2>2 DEF Vanish, TypeOK, clientVars
<1> QED
    BY <1>2, <1>3, <1>4, <1>5, <1>6, <1>7 DEF Next, Finishing

\* Every step leaves the lock with who is at work, and answers with who answers.
LEMMA LockKept ==
    ASSUME ServerInvariant, [Next]_serverVars
    PROVE  LockHeld'
<1>1. TypeOK /\ LockHeld
    BY DEF ServerInvariant
<1>2. \A a \in Request : a \notin Loop /\ a # Nobody
    BY <1>1, EntriesAreTyped, LoopAssumption, NobodyAssumption
<1>3. \A l \in Loop : l \notin Request /\ l # Nobody
    BY <1>2, NobodyAssumption
<1>4. ASSUME NEW a \in Request, Ask(a) \/ BeginCreate(a) \/ Answer(a) \/ AnswerLost(a)
      PROVE  LockHeld'
    <2>1. CASE Ask(a)
        BY <1>1, <2>1 DEF LockHeld, TypeOK, Ask, loopVars
    <2>2. CASE BeginCreate(a)
        <3>1. /\ lock' = a /\ reply' = reply /\ worker' = worker
              /\ handler' = [handler EXCEPT ![a] = "committing"] /\ handler[a] = "received"
            BY <2>2 DEF BeginCreate, MayUpdate, loopVars
        <3> QED
            BY <1>1, <1>2, <3>1 DEF LockHeld, TypeOK
    <2>3. CASE Answer(a) \/ AnswerLost(a)
        <3>1. /\ lock' = lock /\ reply' = [reply EXCEPT ![a] = NoReply] /\ worker' = worker
              /\ handler' = [handler EXCEPT ![a] = "gone"] /\ handler[a] = "answering"
            BY <2>3 DEF Answer, AnswerLost, loopVars
        <3> QED
            BY <1>1, <3>1 DEF LockHeld, TypeOK
    <2> QED
        BY <1>4, <2>1, <2>2, <2>3
<1>5. ASSUME NEW a \in Request,
             RepeatResult(a) \/ Committed(a) \/ CommitFails(a) \/ FindClosed(a)
      PROVE  LockHeld'
    <2>1. /\ \E r \in Reply : Finish(a, r)
          /\ worker' = worker
        BY <1>1, <1>5, RepliesAreTyped
           DEF RepeatResult, Committed, CommitFails, FindClosed, loopVars
    <2> QED
        BY <1>1, <1>2, <1>3, <2>1, NoReplyAssumption DEF LockHeld, TypeOK, Finish
<1>6. ASSUME NEW l \in Loop, Look(l) \/ Work(l) \/ EndLoop(l)
      PROVE  LockHeld'
    <2>1. CASE Look(l) \/ NothingDue(l) \/ EndLoop(l)
        BY <1>1, <2>1 DEF LockHeld, TypeOK, Look, NothingDue, EndLoop, handlerVars
    <2>2. CASE BeginChore(l)
        BY <1>1, <1>2, <1>3, <2>2 DEF LockHeld, TypeOK, BeginChore
    <2>3. CASE ChoreEnds(l)
        <3>1. lock' = Nobody /\ handler' = handler /\ reply' = reply
            BY <2>3 DEF ChoreEnds
        <3> QED
            BY <1>1, <1>2, <1>3, <3>1 DEF LockHeld
    <2> QED
        BY <1>6, <2>1, <2>2, <2>3 DEF Work
<1>7. CASE Start
    <2>1. \A l \in Loop : lock # l
        BY <1>7 DEF Start, ServerInvariant, LockHeld, Quiet, LoopsEnded
    <2> QED
        BY <1>1, <1>7, <2>1 DEF LockHeld, Start, handlerVars
<1>8. CASE \/ Signal \/ StopWaiting \/ Drained \/ CloseRepository
           \/ UNCHANGED serverVars
    BY <1>1, <1>8 DEF LockHeld, Signal, StopWaiting, Drained, CloseRepository, handlerVars,
                      loopVars, serverVars
<1>9. CASE Exit \/ Crash \/ PowerLoss
    BY <1>1, <1>2, <1>3, <1>9
       DEF LockHeld, TypeOK, Exit, Crash, PowerLoss, Vanish, Active
<1> QED
    BY <1>4, <1>5, <1>6, <1>7, <1>8, <1>9 DEF Next, Handle, Finishing

\* Every step leaves quiet what has ended.
LEMMA QuietKept ==
    ASSUME ServerInvariant, [Next]_serverVars
    PROVE  Quiet'
<1>1. TypeOK /\ LockHeld /\ Quiet
    BY DEF ServerInvariant
<1>2. ASSUME NEW a \in Request, Ask(a)
      PROVE  Quiet'
    BY <1>1, <1>2 DEF Quiet, Ask, LoopsEnded, loopVars
<1>3. ASSUME NEW a \in Request, Handle(a)
      PROVE  Quiet'
    <2>1. /\ phase' = phase /\ hurried' = hurried /\ worker' = worker
          /\ Active(a)
        BY <1>1, <1>3 DEF LockHeld, Handle, RepeatResult, BeginCreate, Committed, CommitFails,
                          FindClosed, Answer, AnswerLost, MayUpdate, Active, loopVars
    <2>2. ~AllAnswered
        BY <2>1 DEF AllAnswered
    <2> QED
        BY <1>1, <2>1, <2>2 DEF Quiet, LoopsEnded
<1>4. ASSUME NEW l \in Loop, Look(l) \/ Work(l) \/ EndLoop(l)
      PROVE  Quiet'
    <2>1. phase' = phase /\ hurried' = hurried /\ handler' = handler
        BY <1>4 DEF Look, Work, BeginChore, NothingDue, ChoreEnds, EndLoop, handlerVars
    <2>2. worker[l] # "ended"
        BY <1>1, <1>4 DEF Look, Work, BeginChore, NothingDue, ChoreEnds, EndLoop, LockHeld
    <2> QED
        BY <1>1, <2>1, <2>2 DEF Quiet, LoopsEnded, AllAnswered, Active
<1>5. CASE Start
    BY <1>1, <1>5 DEF Quiet, Start, AllAnswered, Active, handlerVars
<1>6. CASE Signal \/ StopWaiting \/ Drained \/ CloseRepository \/ UNCHANGED serverVars
    BY <1>1, <1>6 DEF Quiet, Signal, StopWaiting, Drained, CloseRepository, LoopsEnded,
                      AllAnswered, Active, handlerVars, loopVars, serverVars
<1>7. CASE Exit \/ Crash \/ PowerLoss
    BY <1>1, <1>7
       DEF Quiet, Exit, Crash, PowerLoss, Vanish, LoopsEnded, AllAnswered, Active, TypeOK
<1> QED
    BY <1>2, <1>3, <1>4, <1>5, <1>6, <1>7 DEF Next, Finishing

\* Every step keeps the order of the shutdown: a handler finds the repository
\* closed only if nobody waited for it.
LEMMA DrainedKept ==
    ASSUME ServerInvariant, [Next]_serverVars
    PROVE  DrainedBeforeClosing'
<1>1. TypeOK /\ LockHeld /\ Quiet /\ DrainedBeforeClosing
    BY DEF ServerInvariant
<1>2. ASSUME NEW a \in Request, Ask(a) \/ BeginCreate(a) \/ Answer(a) \/ AnswerLost(a)
      PROVE  DrainedBeforeClosing'
    <2>1. /\ hurried' = hurried
          /\ \A b \in Request : reply'[b] \in {reply[b], NoReply}
        BY <1>1, <1>2 DEF Ask, BeginCreate, Answer, AnswerLost, TypeOK
    <2>2. NoReply # Refusal("closed")
        BY NoReplyAssumption DEF Reply, Refusal
    <2>3. \A b \in Request : reply[b] = Refusal("closed") => Active(b)
        BY <1>1, <2>2 DEF LockHeld, Active
    <2> QED
        BY <1>1, <2>1, <2>2, <2>3 DEF DrainedBeforeClosing
<1>3. ASSUME NEW a \in Request, RepeatResult(a) \/ Committed(a) \/ CommitFails(a)
      PROVE  DrainedBeforeClosing'
    <2>1. /\ hurried' = hurried
          /\ \E r : Finish(a, r) /\ r.result # "closed"
        <3>1. CASE RepeatResult(a)
            <4>1. PICK i \in Recorded(a) : Finish(a, Replay(a, i))
                BY <3>1 DEF RepeatResult
            <4>2. Replay(a, i).result # "closed"
                BY DEF Replay, Repeated, Refusal
            <4> QED
                BY <3>1, <4>1, <4>2 DEF RepeatResult
        <3>2. CASE Committed(a)
            BY <3>2 DEF Committed, Created
        <3>3. CASE CommitFails(a)
            BY <3>3 DEF CommitFails, FailureReply, Refusal
        <3> QED
            BY <1>3, <3>1, <3>2, <3>3
    <2> QED
        BY <1>1, <2>1 DEF DrainedBeforeClosing, Finish, Active, TypeOK, Refusal
<1>4. ASSUME NEW a \in Request, FindClosed(a)
      PROVE  DrainedBeforeClosing'
    <2>1. hurried /\ hurried' = hurried
        BY <1>1, <1>4 DEF FindClosed, MayUpdate, Quiet, AllAnswered, Active
    <2> QED
        BY <2>1 DEF DrainedBeforeClosing
<1>5. ASSUME NEW l \in Loop, Look(l) \/ Work(l) \/ EndLoop(l)
      PROVE  DrainedBeforeClosing'
    BY <1>1, <1>5 DEF DrainedBeforeClosing, Active, Look, Work, BeginChore, NothingDue,
                      ChoreEnds, EndLoop, handlerVars
<1>6. CASE Start \/ Signal \/ Drained \/ CloseRepository \/ UNCHANGED serverVars
    BY <1>1, <1>6 DEF DrainedBeforeClosing, Active, Start, Signal, Drained, CloseRepository,
                      handlerVars, serverVars
<1>7. CASE StopWaiting
    BY <1>7 DEF DrainedBeforeClosing, StopWaiting
<1>8. CASE Exit \/ Crash \/ PowerLoss
    BY <1>1, <1>8, NoReplyAssumption
       DEF DrainedBeforeClosing, Exit, Crash, PowerLoss, Vanish, Reply, Refusal
<1> QED
    BY <1>2, <1>3, <1>4, <1>5, <1>6, <1>7, <1>8 DEF Next, Handle, Finishing

-----------------------------------------------------------------------------
(* The theorems.                                                           *)

\* A server not yet started satisfies the invariant.
LEMMA InitEstablishes == Init => ServerInvariant
<1> SUFFICES ASSUME Init PROVE ServerInvariant
    OBVIOUS
<1>1. /\ chain = << >> /\ firm = << >> /\ asked = {} /\ doubt = {}
      /\ up = FALSE /\ lost = FALSE
    BY DEF Init, Log!Init
<1>2. << >> \in History
    BY EmptySeq DEF History
<1>3. TypeOK
    <2>1. HistoryTypes
        BY <1>1, <1>2 DEF HistoryTypes
    <2>2. chores \in 0..MaxChores /\ request \in [Client -> [key: Key, content: Content]]
        BY WishesAssumption, BoundsAssumption DEF Init
    <2> QED
        BY <1>1, <2>1, <2>2 DEF Init, TypeOK
<1>4. HistoriesFit
    BY <1>1 DEF HistoriesFit, Single, Objects
<1>5. AnswersBacked /\ LockHeld
    <2>1. \A a \in Request : lock # a /\ reply[a] = NoReply /\ handler[a] = "none"
        BY <1>3, EntriesAreTyped, NobodyAssumption DEF Init
    <2>2. \A l \in Loop : lock # l
        BY NobodyAssumption DEF Init
    <2> QED
        BY <1>1, <2>1, <2>2 DEF Init, AnswersBacked, LockHeld, Settled
<1>6. Quiet /\ DrainedBeforeClosing
    BY DEF Init, Quiet, LoopsEnded, AllAnswered, DrainedBeforeClosing, Active
<1> QED
    BY <1>3, <1>4, <1>5, <1>6 DEF ServerInvariant

\* The server's invariant holds in every reachable state, for any clients, keys,
\* loops and bounds, under crashes, power losses and lost answers.
THEOREM ServerIsSound == Spec => []ServerInvariant
<1>1. ServerInvariant /\ [Next]_serverVars => ServerInvariant'
    BY HistoriesKept, AnswersKept, TypesKept, LockKept, QuietKept, DrainedKept
       DEF ServerInvariant
<1> QED
    BY <1>1, InitEstablishes, PTL DEF Spec

\* Every variable keeps its type.
THEOREM ServerIsTyped == Spec => []TypeOK
<1>1. ServerInvariant => TypeOK
    BY DEF ServerInvariant
<1> QED
    BY <1>1, ServerIsSound, PTL

\* However requests under one key are repeated, overlap, fail or are cut off by a
\* crash, at most one object is created under it (Service.CreateRequirement).
THEOREM KeysCreateOnce == Spec => []AtMostOnce
<1>1. ServerInvariant => AtMostOnce
    BY DEF ServerInvariant, HistoriesFit, AtMostOnce
<1> QED
    BY <1>1, ServerIsSound, PTL

\* What a client was told was created is there after every crash and every power
\* loss; what it was told by repeating, after everything but a power loss.
THEOREM AnswersAreKept == Spec => []AnswersHold
<1>1. ServerInvariant => AnswersHold
    BY DEF ServerInvariant, HistoriesFit, AnswersBacked, Backed, Final, AnswersHold
<1> QED
    BY <1>1, ServerIsSound, PTL

\* No loop ever finds the repository closed (the deferred calls of main.run).
THEOREM LoopsEndFirst == Spec => []LoopsFindItOpen
<1>1. ServerInvariant => LoopsFindItOpen
    BY DEF ServerInvariant, TypeOK, LoopsFindItOpen
<1> QED
    BY <1>1, ServerIsSound, PTL

\* No request finds it closed unless the server gave up waiting for it.
THEOREM RequestsEndFirst == Spec => []DrainedBeforeClosing
<1>1. ServerInvariant => DrainedBeforeClosing
    BY DEF ServerInvariant
<1> QED
    BY <1>1, ServerIsSound, PTL

\* Every step of the server is a step of the ledger or leaves it alone: it asks of
\* its repository only what that promises, in every interleaving of handlers,
\* loops, shutdown and failures (Repository.Update, and Open and Close in main.run).
THEOREM ServerUsesLedger == Spec => Log!Spec
<1>1. Init => Log!Init
    BY DEF Init
<1>2. ASSUME TypeOK, [Next]_serverVars
      PROVE  [Log!Next]_(Log!ledgerVars)
  <2>1. ASSUME NEW a \in Request, BeginCreate(a)
        PROVE  Log!Next
    <3>1. EntryOf(a) \in Entry
        BY <1>2, EntriesAreTyped
    <3>2. Log!Propose(EntryOf(a))
        BY <2>1 DEF BeginCreate
    <3> QED
        BY <3>1, <3>2 DEF Log!Next
  <2>2. ASSUME NEW l \in Loop, BeginChore(l)
        PROVE  Log!Next
    <3>1. ChoreOf(l) \in Entry
        BY <1>2, EntriesAreTyped
    <3>2. Log!Propose(ChoreOf(l))
        BY <2>2 DEF BeginChore
    <3> QED
        BY <3>1, <3>2 DEF Log!Next
  <2>3. ASSUME NEW a \in Request, Committed(a)
        PROVE  Log!Next
      BY <2>3 DEF Committed, Log!Next
  <2>4. ASSUME NEW l \in Loop, ChoreEnds(l)
        PROVE  Log!Next \/ UNCHANGED storeVars
      BY <2>4 DEF ChoreEnds, Log!Next
  <2>5. ASSUME Start \/ CloseRepository \/ Crash \/ PowerLoss
        PROVE  Log!Next
      BY <2>5 DEF Start, CloseRepository, Crash, PowerLoss, Log!Next
  <2>6. ASSUME NEW a \in Request,
               \/ Ask(a) \/ RepeatResult(a) \/ CommitFails(a) \/ FindClosed(a)
               \/ Answer(a) \/ AnswerLost(a)
        PROVE  UNCHANGED storeVars
      BY <2>6 DEF Ask, RepeatResult, CommitFails, FindClosed, Answer, AnswerLost
  <2>7. ASSUME NEW l \in Loop, Look(l) \/ NothingDue(l) \/ EndLoop(l)
        PROVE  UNCHANGED storeVars
      BY <2>7 DEF Look, NothingDue, EndLoop
  <2>8. ASSUME Signal \/ StopWaiting \/ Drained \/ Exit
        PROVE  UNCHANGED storeVars
      BY <2>8 DEF Signal, StopWaiting, Drained, Exit
  <2>9. ASSUME UNCHANGED serverVars
        PROVE  UNCHANGED storeVars
      BY <2>9 DEF serverVars
  <2>10. Log!Next \/ UNCHANGED storeVars
      BY <1>2, <2>1, <2>2, <2>3, <2>4, <2>5, <2>6, <2>7, <2>8, <2>9, Zenon
         DEF Next, Handle, Work, Finishing
  <2> QED
      BY <2>10 DEF storeVars, Log!ledgerVars
<1> QED
    BY <1>1, <1>2, ServerIsTyped, PTL DEF Spec, Log!Spec
=============================================================================
