--------------------------- MODULE RefusalProofs ----------------------------
(***************************************************************************)
(* Why Open refuses a directory, for every set of processes and of         *)
(* transactions and every choice of faults, while one process has it open  *)
(* at a time: a line does not parse, an entry names the empty state        *)
(* without a digest, or two transactions took one place and power was      *)
(* lost.                                                                   *)
(***************************************************************************)
EXTENDS LedgerProofs

-----------------------------------------------------------------------------
(* Journals with the same entries.                                         *)

\* A journal that has further entries only after those of j treats the entries of
\* j as j does.
LEMMA LaterEntries ==
    ASSUME NEW j \in Seq(Line), NEW r \in Seq(Line), NEW s,
           Entries(j) \subseteq Entries(r), \A i \in Entries(j) : r[i] = j[i],
           \A i \in Entries(r) \ Entries(j) : \A k \in Entries(j) : k < i
    PROVE  /\ \A i \in Entries(j) :
                 /\ Leads(Written(r), i) <=> Leads(Written(j), i)
                 /\ Follows(s, r, i) <=> Follows(s, j, i)
           /\ Forks(j) => Forks(r)
           /\ Orphans(s, j) => Orphans(s, r)
<1>1. /\ Entries(j) \in SUBSET Nat /\ Entries(r) \in SUBSET Nat
      /\ DOMAIN Written(j) = Entries(j) /\ DOMAIN Written(r) = Entries(r)
      /\ \A i \in Entries(j) : Written(j)[i] = j[i].history
      /\ \A i \in Entries(r) : Written(r)[i] = r[i].history
    BY WrittenTyped
<1>2. \A i \in Entries(j) : Written(r)[i] = Written(j)[i]
    BY <1>1
<1>3. ASSUME NEW i \in Entries(j)
      PROVE  \A k \in Entries(r) : k < i => k \in Entries(j)
    <2>1. ASSUME NEW k \in Entries(r), k < i, k \notin Entries(j)
          PROVE  FALSE
        <3>1. i < k /\ i \in Nat /\ k \in Nat
            BY <1>1, <2>1
        <3> QED
            BY <2>1, <3>1
    <2> QED
        BY <2>1
<1>4. ASSUME NEW i \in Entries(j)
      PROVE  Leads(Written(r), i) <=> Leads(Written(j), i)
    BY <1>1, <1>2, <1>3 DEF Leads
<1>5. ASSUME NEW i \in Entries(j)
      PROVE  Follows(s, r, i) <=> Follows(s, j, i)
    <2>1. r[i] = j[i]
        OBVIOUS
    <2>2. (\E k \in Entries(r) :
              /\ k < i /\ Leads(Written(r), k)
              /\ Len(r[i].history) = Len(r[k].history) + 1
              /\ r[i].previous = r[k].history)
          <=> (\E k \in Entries(j) :
              /\ k < i /\ Leads(Written(j), k)
              /\ Len(j[i].history) = Len(j[k].history) + 1
              /\ j[i].previous = j[k].history)
        BY <1>3, <1>4, <2>1
    <2> QED
        BY <2>1, <2>2 DEF Follows
<1>6. Forks(j) => Forks(r)
    BY DEF Forks
<1>7. Orphans(s, j) => Orphans(s, r)
    BY DEF Orphans
<1> QED
    BY <1>4, <1>5, <1>6, <1>7

\* What excuses a journal, entry by entry.
LEMMA ExcusedByEntry ==
    ASSUME NEW j, NEW s
    PROVE  Excused(s, j) <=>
              \/ Unparsed(j)
              \/ Orphans(s, j)
              \/ \A i \in Entries(j) :
                    Leads(Written(j), i) /\ Len(HistoryOf(s)) < Len(j[i].history)
                        => Follows(s, j, i)
BY DEF Excused, Blocks, Unparsed, Entries

\* Journals with the same entries, and both with a line that does not parse or
\* neither, are readable alike.
LEMMA SameReadable ==
    ASSUME NEW j \in Seq(Line), NEW r \in Seq(Line), NEW s,
           Entries(j) = Entries(r), \A i \in Entries(j) : r[i] = j[i],
           Unparsed(j) <=> Unparsed(r)
    PROVE  /\ Excused(s, j) <=> Excused(s, r)
           /\ Forks(j) <=> Forks(r)
           /\ Readable(s, j) <=> Readable(s, r)
<1>1. \A i \in Entries(j) :
        /\ Leads(Written(r), i) <=> Leads(Written(j), i)
        /\ Follows(s, r, i) <=> Follows(s, j, i)
    BY LaterEntries
<1>2. (Forks(j) <=> Forks(r)) /\ (Orphans(s, j) <=> Orphans(s, r))
    <2>1. Forks(j) => Forks(r)
        BY DEF Forks
    <2>2. Forks(r) => Forks(j)
        BY DEF Forks
    <2>3. Orphans(s, j) <=> Orphans(s, r)
        BY DEF Orphans
    <2> QED
        BY <2>1, <2>2, <2>3
<1>3. Excused(s, j) <=> Excused(s, r)
    BY <1>1, <1>2, ExcusedByEntry
<1> QED
    BY <1>2, <1>3 DEF Readable

\* Half a line at the end is neither an entry nor spoils one.
LEMMA PartOfLine ==
    ASSUME NEW j \in Seq(Line), Intact(j), ~EndsTorn(j)
    PROVE  /\ Append(j, Torn) \in Seq(Line)
           /\ Entries(Append(j, Torn)) = Entries(j)
           /\ \A i \in 1..Len(j) : Append(j, Torn)[i] = j[i]
           /\ Unparsed(Append(j, Torn)) <=> Unparsed(j)
<1> DEFINE r == Append(j, Torn)
<1>1. Len(j) \in Nat /\ DOMAIN j = 1..Len(j) /\ Torn \in Line
    BY LenProperties DEF Line
<1>2. /\ r \in Seq(Line) /\ DOMAIN r = 1..(Len(j) + 1) /\ r[Len(j) + 1] = Torn
      /\ \A i \in 1..Len(j) : r[i] = j[i]
    BY <1>1, AppendProperties, LenProperties
<1> HIDE DEF r
<1>3. Entries(r) = Entries(j)
    BY <1>1, <1>2 DEF Entries, IsEntry
<1>4. Unparsed(r) <=> Unparsed(j)
    BY <1>1, <1>2, LineAssumption DEF Unparsed
<1> QED
    BY <1>2, <1>3, <1>4 DEF r

\* A power loss can leave only what can be read, if every cut of the journal after
\* its synced lines can be read.
LEMMA ReadableCuts ==
    ASSUME NEW j \in Seq(Line), Intact(j), NEW n \in Nat, NEW s,
           \A k \in n..Len(j) : Readable(s, SubSeq(j, 1, k))
    PROVE  \A r \in Survivors(j, n) : Readable(s, r)
<1>0. Len(j) \in Nat
    BY LenProperties
<1>1. DOMAIN j = 1..Len(j)
    BY LenProperties
<1>2. ASSUME NEW k \in n..(Len(j) - 1)
      PROVE  Readable(s, Append(SubSeq(j, 1, k), Torn))
    <2> DEFINE c == SubSeq(j, 1, k)
    <2>1. /\ k \in 0..Len(j) /\ k \in n..Len(j) /\ k \in Nat /\ k # Len(j)
          /\ k # 0 => k \in 1..Len(j)
        BY <1>0
    <2>2. /\ c \in Seq(Line) /\ Len(c) = k /\ Intact(c) /\ \A i \in 1..k : c[i] = j[i]
        BY <2>1, CutJournal
    <2>3. Readable(s, c)
        BY <2>1
    <2> HIDE DEF c
    <2>4. ~EndsTorn(c)
        <3>1. SUFFICES ASSUME c # << >>, c[Len(c)] = Torn PROVE FALSE
            BY DEF EndsTorn
        <3>2. k # 0
            BY <2>2, <3>1, EmptySeq
        <3>3. k \in 1..k /\ k \in DOMAIN j /\ k # Len(j)
            <4>1. k \in 1..k
                BY <2>1, <3>2
            <4>2. k \in DOMAIN j
                BY <1>1, <2>1, <3>2
            <4> QED
                BY <2>1, <4>1, <4>2
        <3>4. j[k] = Torn
            BY <2>2, <3>1, <3>3
        <3> QED
            BY <3>3, <3>4 DEF Intact
    <2>5. /\ Append(c, Torn) \in Seq(Line) /\ Entries(Append(c, Torn)) = Entries(c)
          /\ \A i \in 1..Len(c) : Append(c, Torn)[i] = c[i]
          /\ Unparsed(Append(c, Torn)) <=> Unparsed(c)
        BY <2>2, <2>4, PartOfLine
    <2>6. \A i \in Entries(c) : Append(c, Torn)[i] = c[i]
        BY <2>2, <2>5, WrittenTyped
    <2>7. Readable(s, Append(c, Torn))
        BY <2>2, <2>3, <2>5, <2>6, SameReadable
    <2> QED
        BY <2>7 DEF c
<1> QED
    BY <1>2 DEF Survivors

\* The journal as it is is one of those a power loss can leave.
LEMMA CutsSurvive ==
    ASSUME NEW j \in Seq(Line), NEW n \in Nat, n <= Len(j)
    PROVE  /\ \A k \in n..Len(j) : SubSeq(j, 1, k) \in Survivors(j, n)
           /\ j \in Survivors(j, n)
<1>1. \A k \in n..Len(j) : SubSeq(j, 1, k) \in Survivors(j, n)
    BY DEF Survivors
<1>2. SubSeq(j, 1, Len(j)) = j
    BY SubSeqFull
<1>3. Len(j) \in n..Len(j)
    BY LenProperties
<1> QED
    BY <1>1, <1>2, <1>3

\* A cut before the end of two journals that agree up to it is the same cut.
LEMMA SameCut ==
    ASSUME NEW j \in Seq(Line), NEW r \in Seq(Line), NEW k \in Nat,
           k <= Len(j), k <= Len(r), \A i \in 1..k : r[i] = j[i]
    PROVE  SubSeq(r, 1, k) = SubSeq(j, 1, k)
<1>1. Len(j) \in Nat /\ Len(r) \in Nat
    BY LenProperties
<1>2. \A i \in 1..k : j[i] \in Line /\ r[i] \in Line
    BY <1>1, ElementOfSeq
<1>3. /\ SubSeq(j, 1, k) \in Seq(Line) /\ Len(SubSeq(j, 1, k)) = k
      /\ \A i \in 1..k : SubSeq(j, 1, k)[i] = j[i]
    BY <1>1, <1>2, SubSeqProperties
<1>4. /\ SubSeq(r, 1, k) \in Seq(Line) /\ Len(SubSeq(r, 1, k)) = k
      /\ \A i \in 1..k : SubSeq(r, 1, k)[i] = r[i]
    BY <1>1, <1>2, SubSeqProperties
<1> QED
    BY <1>3, <1>4, SeqEqual

-----------------------------------------------------------------------------
(* Replay and the lines that stop it.                                      *)

\* Two leading entries of one length are the same entry.
LEMMA OneLeads ==
    ASSUME NEW D \in SUBSET Nat, NEW w \in [D -> History],
           NEW i \in D, NEW k \in D, Leads(w, i), Leads(w, k), Len(w[i]) = Len(w[k])
    PROVE  i = k
<1>1. DOMAIN w = D /\ i \in Nat /\ k \in Nat /\ Len(w[i]) \in Nat /\ Len(w[k]) \in Nat
    BY Lengths
<1>2. ~(i < k)
    BY <1>1 DEF Leads
<1>3. ~(k < i)
    BY <1>1 DEF Leads
<1> QED
    BY <1>1, <1>2, <1>3

\* Replay passes an entry exactly if it does not block: what a replay makes of a
\* line depends on the files alone (the checks of replayJournal).
LEMMA ReadingDecides ==
    ASSUME NEW s \in History \cup {NoSnapshot}, NEW j \in Seq(Line), NEW k \in Nat,
           NEW h \in History, NEW g \in {NoDigest, h}, g = NoDigest => h = << >>,
           Len(h) = Len(HistoryOf(s)) => g = DigestOf(s),
           Replayed(HistoryOf(s), Written(j), k, h), k + 1 \in Entries(j), Parses(j[k + 1])
    PROVE  ~Blocks(s, j, k + 1) <=>
              \/ Len(j[k + 1].history) <= Len(h)
              \/ Len(j[k + 1].history) = Len(h) + 1 /\ j[k + 1].previous = g
<1> DEFINE b == HistoryOf(s)
           w == Written(j)
           e == j[k + 1]
           D == Entries(j)
<1>1. /\ b \in History /\ D \in SUBSET Nat /\ w \in [D -> History] /\ DOMAIN w = D
      /\ \A i \in D : w[i] = j[i].history
      /\ e.history \in History /\ IsEntry(e) /\ Parses(e)
    <2>1. b \in History
        BY Lengths DEF HistoryOf
    <2>2. /\ D \in SUBSET Nat /\ w \in [D -> History] /\ DOMAIN w = D
          /\ \A i \in D : w[i] = j[i].history /\ j[i] \in Entry
        BY WrittenTyped
    <2>3. e.history \in History
        BY <2>2 DEF Entry
    <2>4. IsEntry(e) /\ Parses(e)
        BY DEF Parses
    <2> QED
        BY <2>1, <2>2, <2>3, <2>4
<1>2. /\ Len(b) \in Nat /\ Len(h) \in Nat /\ Len(e.history) \in Nat
      /\ \A i \in D : Len(w[i]) \in Nat
    BY <1>1, Lengths
<1>3. IsPrefix(b, h) /\ Len(b) <= Len(h)
    BY <1>1, PrefixShorter DEF Replayed
<1>4. \A i \in D : i < k + 1 => i <= k
    BY <1>1
<1>5. w[k + 1] = e.history /\ k + 1 \in D
    BY <1>1
<1>6. /\ \A i \in D : i <= k => Len(w[i]) <= Len(h)
      /\ Len(b) < Len(h) => \E i \in D : i <= k /\ w[i] = h /\ Leads(w, i)
    BY <1>1 DEF Replayed
<1> HIDE DEF b, w, e, D
<1>7. CASE Len(e.history) <= Len(h)
    <2>1. Len(b) < Len(e.history) => ~Leads(w, k + 1)
        <3>1. SUFFICES ASSUME Len(b) < Len(e.history) PROVE ~Leads(w, k + 1)
            OBVIOUS
        <3>2. PICK i \in D : i <= k /\ w[i] = h
            BY <1>2, <1>6, <1>7, <3>1
        <3>3. i < k + 1
            BY <1>1, <3>2
        <3> QED
            BY <1>1, <1>2, <1>5, <1>7, <3>2, <3>3 DEF Leads
    <2> QED
        BY <1>1, <1>7, <2>1 DEF Blocks, b, w, e
<1>8. CASE ~(Len(e.history) <= Len(h))
    <2>1. Leads(w, k + 1) /\ Len(b) < Len(e.history)
        BY <1>1, <1>2, <1>3, <1>4, <1>5, <1>6, <1>8 DEF Leads
    <2>2. ~Blocks(s, j, k + 1) <=> Follows(s, j, k + 1)
        BY <1>1, <2>1 DEF Blocks, b, w, e
    <2>3. CASE Len(b) = Len(h)
        <3>1. g = DigestOf(s)
            BY <2>3 DEF b
        <3>2. \A i \in D : i < k + 1 => Len(e.history) # Len(w[i]) + 1 \/ Len(e.history) = Len(b) + 1
            BY <1>2, <1>4, <1>6, <1>8, <2>3
        <3>3. \A i \in D : w[i] = j[i].history
            BY <1>1
        <3>4. Follows(s, j, k + 1) <=> Len(e.history) = Len(h) + 1 /\ e.previous = g
            BY <2>3, <3>1, <3>2, <3>3 DEF Follows, b, e, D
        <3> QED
            BY <1>8, <2>2, <3>4 DEF e
    <2>4. CASE Len(b) # Len(h)
        <3>1. Len(b) < Len(h) /\ h # << >>
            BY <1>2, <1>3, <2>4, Lengths
        <3>2. g = h
            BY <3>1
        <3>3. PICK i \in D : i <= k /\ w[i] = h /\ Leads(w, i)
            BY <1>6, <3>1
        <3>4. Len(e.history) # Len(b) + 1 /\ i < k + 1
            BY <1>1, <1>2, <1>8, <3>1, <3>3
        <3>5. ASSUME NEW m \in D, m < k + 1, Leads(w, m), Len(e.history) = Len(w[m]) + 1
              PROVE  w[m] = h
            <4>1. Len(w[m]) = Len(h)
                BY <1>2, <1>4, <1>6, <1>8, <3>5
            <4>2. m = i
                BY <1>1, <3>3, <3>5, <4>1, OneLeads
            <4> QED
                BY <3>3, <4>2
        <3>6. \A m \in D : w[m] = j[m].history
            BY <1>1
        <3>7. Follows(s, j, k + 1) <=>
                \E m \in D : /\ m < k + 1 /\ Leads(w, m)
                             /\ Len(e.history) = Len(w[m]) + 1 /\ e.previous = w[m]
            BY <3>4, <3>6 DEF Follows, b, w, e, D
        <3>8. Follows(s, j, k + 1) <=> Len(e.history) = Len(h) + 1 /\ e.previous = h
            BY <3>3, <3>4, <3>5, <3>7
        <3> QED
            BY <1>8, <2>2, <3>2, <3>8 DEF e
    <2> QED
        BY <2>3, <2>4
<1> QED
    BY <1>7, <1>8

\* Where the entries of the newest length name what is served, a snapshot of it or
\* of one transaction more can be read with them.
LEMMA NewestFollow ==
    ASSUME StoreInvariant, NEW j \in Seq(Line), NamesServed(j),
           NEW s \in History, s = served \/ OneMore(served, s)
    PROVE  Excused(s, j)
<1>1. /\ served \in History /\ HistoryOf(s) = s /\ DigestOf(s) = s /\ s # NoDigest
      /\ Len(served) \in Nat /\ Len(s) \in Nat
    BY NoSnapshotAssumption, NoDigestAssumption, Lengths
    DEF StoreInvariant, TypeOK, HistoryOf, DigestOf, History
<1>2. SUFFICES ASSUME NEW i \in Entries(j), Len(s) < Len(j[i].history), ~Follows(s, j, i)
               PROVE  Orphans(s, j)
    BY <1>1, ExcusedByEntry
<1>3. /\ Len(j[i].history) \in Nat /\ Len(j[i].history) <= Len(served) + 1
      /\ Len(j[i].history) = Len(served) + 1 =>
              j[i].previous = served \/ (j[i].previous = NoDigest /\ served = << >>)
    BY WrittenTyped, Lengths DEF NamesServed
<1>4. Len(j[i].history) = Len(served) + 1 /\ s = served
    BY <1>1, <1>2, <1>3 DEF OneMore
<1>5. j[i].previous # s
    BY <1>1, <1>2, <1>4 DEF Follows
<1>6. served = << >> /\ Len(j[i].history) = 1
    BY <1>3, <1>4, <1>5, Lengths
<1> QED
    BY <1>1, <1>4, <1>5, <1>6 DEF Orphans

\* An entry that names the state served can be read after any files that hold what
\* is served (appendJournal).
LEMMA AppendedFollows ==
    ASSUME StoreInvariant, RecoveryInvariant, NEW s \in History \cup {NoSnapshot},
           \/ IsPrefix(HistoryOf(s), served)
                 /\ (Len(HistoryOf(s)) < Len(served) => Leading(served))
           \/ OneMore(served, HistoryOf(s)),
           NEW e \in Entry, OneMore(served, e.history), e.previous \in {NoDigest, served},
           e.previous = NoDigest => served = << >>,
           Excused(s, journal), ~EndsTorn(journal)
    PROVE  Excused(s, Append(journal, e))
<1> DEFINE r == Append(journal, e)
           b == HistoryOf(s)
           n == Len(journal) + 1
<1>1. /\ journal \in Seq(Line) /\ Len(journal) \in Nat /\ DOMAIN journal = 1..Len(journal)
      /\ served \in History /\ b \in History /\ e \in Line /\ IsEntry(e)
      /\ e.history \in History
    BY Lengths, LineAssumption, LenProperties
    DEF StoreInvariant, TypeOK, HistoryOf, Line, Entry, IsEntry
<1>2. /\ r \in Seq(Line) /\ DOMAIN r = 1..n /\ r[n] = e
      /\ \A i \in 1..Len(journal) : r[i] = journal[i]
    BY <1>1, AppendProperties, LenProperties
<1> HIDE DEF r, b
<1>3. Entries(r) = Entries(journal) \cup {n}
    BY <1>1, <1>2 DEF Entries
<1>4. /\ \A i \in Entries(journal) : i \in 1..Len(journal)
      /\ \A i \in Entries(journal) : i < n
    BY FilesTyped
<1>5. /\ \A i \in Entries(journal) :
           /\ r[i] = journal[i]
           /\ Leads(Written(r), i) <=> Leads(Written(journal), i)
           /\ Follows(s, r, i) <=> Follows(s, journal, i)
      /\ Orphans(s, journal) => Orphans(s, r)
    <2>1. \A i \in Entries(journal) : r[i] = journal[i]
        BY <1>2, <1>4
    <2>2. \A i \in Entries(r) \ Entries(journal) : \A k \in Entries(journal) : k < i
        BY <1>3, <1>4
    <2>3. Entries(journal) \subseteq Entries(r)
        BY <1>3
    <2> HIDE DEF n
    <2> QED
        BY <1>1, <1>2, <2>1, <2>2, <2>3, LaterEntries
<1>6. Unparsed(journal) => Unparsed(r)
    BY <1>1, <1>2 DEF Unparsed
<1>7. /\ Len(b) \in Nat /\ Len(served) \in Nat /\ Len(e.history) = Len(served) + 1
    BY <1>1, Lengths DEF OneMore
<1>8. Len(b) < Len(e.history) => Follows(s, r, n) \/ Orphans(s, r)
    <2>1. SUFFICES ASSUME Len(b) < Len(e.history) PROVE Follows(s, r, n) \/ Orphans(s, r)
        OBVIOUS
    <2>2. IsPrefix(b, served) /\ (Len(b) < Len(served) => Leading(served))
        BY <1>7, <2>1 DEF OneMore, b
    <2>3. Len(b) <= Len(served) /\ (Len(b) = Len(served) => b = served)
        BY <1>1, <2>2, PrefixShorter
    <2>4. n \in Entries(r)
        BY <1>3
    <2> HIDE DEF n
    <2>5. CASE Len(b) = Len(served)
        <3>1. Len(r[n].history) = Len(HistoryOf(s)) + 1
            BY <1>2, <1>7, <2>5 DEF b
        <3>2. CASE e.previous = DigestOf(s)
            BY <1>2, <3>1, <3>2 DEF Follows
        <3>3. CASE e.previous # DigestOf(s)
            <4>1. served = << >>
                BY <2>3, <2>5, <3>3 DEF b, HistoryOf, DigestOf
            <4>2. HistoryOf(s) = << >> /\ Len(r[n].history) = 1
                BY <1>2, <1>7, <2>3, <2>5, <4>1, Lengths DEF b
            <4> QED
                BY <1>2, <2>4, <3>3, <4>2 DEF Orphans
        <3> QED
            BY <3>2, <3>3
    <2>6. CASE Len(b) < Len(served)
        <3>1. PICK k \in Entries(journal) :
                Written(journal)[k] = served /\ Leads(Written(journal), k)
            BY <2>2, <2>6, FilesTyped DEF Leading
        <3>2. journal[k].history = served
            BY <1>1, <3>1, WrittenTyped
        <3>3. r[k].history = served /\ Leads(Written(r), k) /\ k < n /\ k \in Entries(r)
            BY <1>3, <1>4, <1>5, <3>1, <3>2 DEF n
        <3>4. served # << >>
            BY <1>7, <2>6, Lengths
        <3>5. r[n].previous = served
            BY <1>2, <3>4
        <3>6. Len(r[n].history) # Len(HistoryOf(s)) + 1
            BY <1>2, <1>7, <2>6 DEF b
        <3> QED
            BY <1>2, <1>7, <3>3, <3>5, <3>6 DEF Follows
    <2> QED
        BY <1>7, <2>3, <2>5, <2>6
<1>9. CASE Unparsed(journal) \/ Orphans(s, journal)
    BY <1>5, <1>6, <1>9, ExcusedByEntry DEF r
<1>10. CASE ~Unparsed(journal) /\ ~Orphans(s, journal)
    <2>1. \A i \in Entries(journal) :
            Leads(Written(journal), i) /\ Len(b) < Len(journal[i].history)
                => Follows(s, journal, i)
        BY <1>10, ExcusedByEntry DEF b
    <2>2. \A i \in Entries(journal) :
            Leads(Written(r), i) /\ Len(b) < Len(r[i].history) => Follows(s, r, i)
        BY <1>5, <2>1
    <2>3. CASE Orphans(s, r)
        BY <2>3, ExcusedByEntry DEF r
    <2>4. CASE ~Orphans(s, r)
        <3>1. Len(b) < Len(r[n].history) => Follows(s, r, n)
            BY <1>2, <1>8, <2>4
        <3>2. \A i \in Entries(r) :
                Leads(Written(r), i) /\ Len(b) < Len(r[i].history) => Follows(s, r, i)
            BY <1>3, <2>2, <3>1
        <3> QED
            BY <3>2, ExcusedByEntry DEF b, r
    <2> QED
        BY <2>3, <2>4
<1> QED
    BY <1>9, <1>10
-----------------------------------------------------------------------------
(* The steps that leave the files alone.                                   *)

\* A step of a process that others sleep through says nothing new about them, and
\* nothing stays refused while one works (Alone).
LEMMA OthersRefusable ==
    ASSUME StoreInvariant, RecoveryInvariant, RefusalInvariant,
           NEW p \in Proc, pc[p] \in Opened,
           NEW c, NEW j, pc' = [pc EXCEPT ![p] = c], job' = [job EXCEPT ![p] = j],
           \A q \in Proc \ {p} : position'[q] = position[q],
           \/ pc[p] \in {"idle"} \cup Working
           \/ \A q \in Proc : pc[q] # "refused"
           \/ UNCHANGED <<snapshot, journal>> /\ c \notin {"idle"} \cup Working,
           Refusable(p)'
    PROVE  \A q \in Proc : Refusable(q)'
<1>1. \A q \in Proc : q # p => pc[q] \in Closed /\ job[q] = "none"
    BY Alone
<1>2. pc \in [Proc -> Opened \cup Closed] /\ job \in [Proc -> Jobs]
    BY DEF StoreInvariant, TypeOK, Jobs
<1>3. /\ pc'[p] = c /\ \A q \in Proc : q # p => pc'[q] = pc[q]
      /\ \A q \in Proc : q # p => job'[q] = job[q]
    BY <1>2
<1>4. SUFFICES ASSUME NEW q \in Proc, q # p PROVE Refusable(q)'
    OBVIOUS
<1>5. pc'[q] \in Closed /\ pc[q] = pc'[q]
    BY <1>1, <1>3, <1>4
<1>6. CASE pc[q] # "refused"
    BY <1>5, <1>6 DEF Refusable, PastWrite, Closed
<1>7. CASE pc[q] = "refused"
    <2>1. /\ position[q] + 1 \in DOMAIN journal
          /\ Blocks(snapshot, journal, position[q] + 1)
          /\ \A r \in Proc : pc[r] \notin {"idle"} \cup Working
        BY <1>7 DEF RefusalInvariant, Refusable
    <2>2. UNCHANGED <<snapshot, journal>> /\ c \notin {"idle"} \cup Working
        BY <1>7, <2>1
    <2>3. position'[q] = position[q]
        BY <1>4
    <2>4. Blocks(snapshot, journal, position[q] + 1)'
        BY <2>1, <2>2, <2>3 DEF Blocks, Follows, Leads, Written, Entries, HistoryOf, DigestOf
    <2>5. \A r \in Proc : pc'[r] \notin {"idle"} \cup Working
        BY <1>3, <2>1, <2>2
    <2> QED
        BY <1>5, <1>7, <2>1, <2>2, <2>3, <2>4, <2>5 DEF Refusable, PastWrite
<1> QED
    BY <1>6, <1>7

\* What a start finds depends on the files and on what was served alone.
LEMMA SameFiles ==
    ASSUME RefusalInvariant, UNCHANGED <<diskVars, served, outage>>
    PROVE  FilesReadable' /\ FilesFit'
<1>1. UNCHANGED <<snapshot, dirSnapshots, journal, synced, dirJournals, served, outage>>
    BY DEF diskVars
<1>2. FilesReadable'
    BY <1>1 DEF RefusalInvariant, FilesReadable
<1>3. FilesFit'
    <2>1. \A h : Leading(h)' <=> Leading(h)
        BY <1>1 DEF Leading, Leads, Written, Entries
    <2>2. Spoilt' <=> Spoilt
        BY <1>1 DEF Spoilt, Unparsed, Forks, Entries
    <2>3. \A h : Backed(h)' <=> Backed(h)
        BY <1>1, <2>1, <2>2 DEF Backed
    <2>4. \A j : NamesServed(j)' <=> NamesServed(j)
        BY <1>1 DEF NamesServed
    <2> QED
        BY <1>1, <2>3, <2>4 DEF RefusalInvariant, FilesFit, HistoryOf
<1> QED
    BY <1>2, <1>3

\* Before the first start there is nothing to refuse.
LEMMA InitReads == Init => RefusalInvariant
<1> SUFFICES ASSUME Init PROVE RefusalInvariant
    OBVIOUS
<1>2. journal = << >> /\ synced = 0 /\ dirJournals = {<< >>} /\ dirSnapshots = {NoSnapshot}
      /\ outage = "never" /\ served = << >>
    BY DEF Init
<1>3. /\ << >> \in Seq(Line) /\ Len(<< >>) = 0 /\ DOMAIN << >> = {}
      /\ SubSeq(<< >>, 1, 0) = << >>
    BY EmptySeq, SubSeqEmpty
<1>4. Survivors(<< >>, 0) = {<< >>}
    <2>1. 0..0 = {0} /\ 0..(0 - 1) = {}
        OBVIOUS
    <2>2. {SubSeq(<< >>, 1, k) : k \in {0}} = {<< >>}
        BY <1>3
    <2> QED
        BY <1>3, <2>1, <2>2 DEF Survivors
<1>5. \A s : Excused(s, << >>)
    BY <1>3 DEF Excused
<1>6. FilesReadable
    BY <1>2, <1>3, <1>4, <1>5 DEF FilesReadable, Readable
<1>7. NamesServed(<< >>)
    BY <1>3 DEF NamesServed, Entries
<1>8. Backed(HistoryOf(NoSnapshot))
    BY <1>2, PrefixReflexive, Lengths DEF Backed, HistoryOf
<1>9. FilesFit
    BY <1>2, <1>7, <1>8 DEF FilesFit
<1>10. \A p \in Proc : Refusable(p)
    BY DEF Init, Refusable, PastWrite
<1> QED
    BY <1>6, <1>9, <1>10 DEF RefusalInvariant

\* Open starts from the snapshot's state and its digest (loadSnapshot).
LEMMA OpenReads ==
    ASSUME Exclusive, StoreInvariant, RecoveryInvariant, RefusalInvariant,
           NEW p \in Proc, Open(p)
    PROVE  RefusalInvariant'
<1>1. /\ pc \in [Proc -> Opened \cup Closed] /\ position \in [Proc -> Nat]
      /\ state \in [Proc -> [history: History, digest: History \cup {NoDigest}]]
      /\ job \in [Proc -> Jobs]
    BY DEF StoreInvariant, TypeOK, Jobs
<1>2. /\ \A q \in Proc : pc[q] \in Closed
      /\ pc' = [pc EXCEPT ![p] = "replay"]
      /\ position' = [position EXCEPT ![p] = 0]
      /\ state' = [state EXCEPT ![p] =
                    IF snapshot = NoSnapshot THEN Fresh ELSE Stamped(snapshot)]
      /\ UNCHANGED <<snapshot, dirSnapshots, journal, synced, dirJournals, next,
                     issued, confirmed, served, outage>>
    BY DEF Open, diskVars, ghostVars
<1>3. FilesReadable' /\ FilesFit'
    BY <1>2, SameFiles DEF diskVars
<1>4. Refusable(p)'
    <2>1. pc'[p] = "replay" /\ position'[p] = 0
        BY <1>1, <1>2
    <2>2. state'[p].digest = DigestOf(snapshot)
        BY <1>1, <1>2 DEF Fresh, Stamped, DigestOf
    <2>3. DigestOf(snapshot)' = DigestOf(snapshot)
        BY <1>2 DEF DigestOf
    <2> QED
        BY <2>1, <2>2, <2>3 DEF Refusable, PastWrite
<1>5. ASSUME NEW q \in Proc, q # p
      PROVE  Refusable(q)'
    <2>1. pc'[q] = pc[q] /\ pc[q] \in Closed /\ position'[q] = position[q]
        BY <1>1, <1>2, <1>5
    <2>2. CASE pc[q] # "refused"
        BY <2>1, <2>2 DEF Refusable, PastWrite, Closed
    <2>3. CASE pc[q] = "refused"
        <3>1. /\ position[q] + 1 \in DOMAIN journal
              /\ Blocks(snapshot, journal, position[q] + 1)
            BY <2>3 DEF RefusalInvariant, Refusable
        <3>2. Blocks(snapshot, journal, position[q] + 1)'
            BY <1>2, <2>1, <3>1
            DEF Blocks, Follows, Leads, Written, Entries, HistoryOf, DigestOf
        <3>3. \A r \in Proc : pc'[r] \notin {"idle"} \cup Working
            BY <1>1, <1>2 DEF Closed, Working
        <3> QED
            BY <1>2, <2>1, <2>3, <3>1, <3>2, <3>3 DEF Refusable, PastWrite
    <2> QED
        BY <2>2, <2>3
<1> QED
    BY <1>3, <1>4, <1>5 DEF RefusalInvariant

\* What the checks of replayJournal say of the line that p reads.
LEMMA LineDecides ==
    ASSUME StoreInvariant, RecoveryInvariant, RefusalInvariant, NEW p \in Proc, Reading(p),
           Parses(LineRead(p))
    PROVE  ~Blocks(snapshot, journal, position[p] + 1)
              <=> Covered(p, LineRead(p)) \/ Continues(p, LineRead(p))
<1> DEFINE h == state[p].history
           g == state[p].digest
           k == position[p]
<1>1. /\ snapshot \in History \cup {NoSnapshot} /\ journal \in Seq(Line) /\ k \in Nat
      /\ h \in History /\ pc[p] = "replay" /\ k < Len(journal)
    BY DEF StoreInvariant, TypeOK, Reading
<1>2. g \in {NoDigest, h} /\ (g = NoDigest => h = << >>)
    BY DEF StoreInvariant, SoundProcess
<1>3. Len(h) = Len(HistoryOf(snapshot)) => g = DigestOf(snapshot)
    BY <1>1 DEF RefusalInvariant, Refusable
<1>4. Replayed(HistoryOf(snapshot), Written(journal), k, h)
    BY <1>1 DEF RecoveryInvariant, Placed
<1>5. k + 1 \in Entries(journal) /\ Parses(journal[k + 1])
    BY <1>1, WrittenTyped DEF Entries, LineRead, Parses
<1> HIDE DEF h, g, k
<1>6. ~Blocks(snapshot, journal, k + 1) <=>
              \/ Len(journal[k + 1].history) <= Len(h)
              \/ Len(journal[k + 1].history) = Len(h) + 1 /\ journal[k + 1].previous = g
    BY <1>1, <1>2, <1>3, <1>4, <1>5, ReadingDecides
<1> QED
    BY <1>6 DEF Covered, Continues, LineRead, h, g, k

\* Replay passes a line that does not block, and stops at one that does.
LEMMA ReadingReads ==
    ASSUME StoreInvariant, RecoveryInvariant, RefusalInvariant, NEW p \in Proc,
           SkipLine(p) \/ ApplyLine(p)
    PROVE  RefusalInvariant'
<1> DEFINE k == position[p]
<1>1. /\ pc \in [Proc -> Opened \cup Closed] /\ position \in [Proc -> Nat]
      /\ state \in [Proc -> [history: History, digest: History \cup {NoDigest}]]
      /\ job \in [Proc -> Jobs] /\ k \in Nat
    BY DEF StoreInvariant, TypeOK, Jobs
<1>2. /\ Reading(p) /\ pc[p] = "replay" /\ Parses(LineRead(p))
      /\ position' = [position EXCEPT ![p] = k + 1]
      /\ UNCHANGED <<snapshot, dirSnapshots, journal, synced, dirJournals, pc, job,
                     next, issued, confirmed, served, outage>>
    BY DEF SkipLine, ApplyLine, Reading, diskVars, ghostVars
<1>3. FilesReadable' /\ FilesFit'
    BY <1>2, SameFiles DEF diskVars
<1>4. Refusable(p)
    BY DEF RefusalInvariant
<1>5. Refusable(p)'
    <2>1. pc'[p] = "replay" /\ position'[p] = k + 1
        BY <1>1, <1>2
    <2>2. ~Blocks(snapshot, journal, k + 1)
        BY <1>2, LineDecides DEF SkipLine, ApplyLine
    <2>3. \A i \in 1..k : ~Blocks(snapshot, journal, i)
        BY <1>2, <1>4 DEF Refusable
    <2>4. \A i \in 1..(k + 1) : ~Blocks(snapshot, journal, i)
        <3>1. \A m \in Nat : \A i \in 1..(m + 1) : i \in 1..m \/ i = m + 1
            OBVIOUS
        <3> QED
            BY <1>1, <2>2, <2>3, <3>1
    <2>5. \A i : Blocks(snapshot, journal, i)' <=> Blocks(snapshot, journal, i)
        BY <1>2 DEF Blocks, Follows, Leads, Written, Entries, HistoryOf, DigestOf
    <2>6. HistoryOf(snapshot)' = HistoryOf(snapshot) /\ DigestOf(snapshot)' = DigestOf(snapshot)
        BY <1>2 DEF HistoryOf, DigestOf
    <2>7. Len(state'[p].history) = Len(HistoryOf(snapshot))
            => state'[p].digest = DigestOf(snapshot)
        <3>1. CASE SkipLine(p)
            BY <1>2, <1>4, <3>1 DEF SkipLine, Refusable
        <3>2. CASE ApplyLine(p)
            <4>1. state'[p].history = LineRead(p).history
                BY <1>1, <3>2 DEF ApplyLine, Stamped
            <4>2. Len(LineRead(p).history) = Len(state[p].history) + 1
                BY <3>2 DEF ApplyLine, Continues
            <4>3. IsPrefix(HistoryOf(snapshot), state[p].history)
                BY <1>2 DEF RecoveryInvariant, Placed, Replayed
            <4>4. HistoryOf(snapshot) \in History /\ state[p].history \in History
                BY <1>1, FilesTyped
            <4>5. Len(HistoryOf(snapshot)) <= Len(state[p].history)
                BY <4>3, <4>4, PrefixShorter
            <4> QED
                BY <4>1, <4>2, <4>4, <4>5, Lengths
        <3> QED
            BY <3>1, <3>2
    <2>8. \A i \in 1..position'[p] : ~Blocks(snapshot, journal, i)'
        BY <2>1, <2>4, <2>5
    <2> QED
        BY <2>1, <2>6, <2>7, <2>8 DEF Refusable, PastWrite
<1>6. pc' = [pc EXCEPT ![p] = "replay"] /\ job' = [job EXCEPT ![p] = job[p]]
    BY <1>1, <1>2
<1>7. \A q \in Proc \ {p} : position'[q] = position[q]
    BY <1>1, <1>2
<1>8. \A q \in Proc : Refusable(q)'
    BY <1>2, <1>5, <1>6, <1>7, OthersRefusable DEF Opened, Working
<1> QED
    BY <1>3, <1>8 DEF RefusalInvariant

LEMMA RefuseLineReads ==
    ASSUME StoreInvariant, RecoveryInvariant, RefusalInvariant, NEW p \in Proc, RefuseLine(p)
    PROVE  RefusalInvariant'
<1>1. /\ pc \in [Proc -> Opened \cup Closed] /\ position \in [Proc -> Nat]
      /\ job \in [Proc -> Jobs] /\ journal \in Seq(Line)
    BY DEF StoreInvariant, TypeOK, Jobs
<1>2. /\ Reading(p) /\ pc[p] = "replay" /\ position[p] < Len(journal)
      /\ pc' = [pc EXCEPT ![p] = "refused"]
      /\ UNCHANGED <<snapshot, dirSnapshots, journal, synced, dirJournals, job, position,
                     next, issued, confirmed, served, outage>>
    BY DEF RefuseLine, Reading, diskVars, ghostVars
<1>3. FilesReadable' /\ FilesFit'
    BY <1>2, SameFiles DEF diskVars
<1>4. Blocks(snapshot, journal, position[p] + 1)
    <2>1. CASE ~Parses(LineRead(p))
        BY <2>1 DEF RefuseLine, Blocks, LineRead
    <2>2. CASE Parses(LineRead(p))
        BY <1>2, <2>2, LineDecides DEF RefuseLine
    <2> QED
        BY <2>1, <2>2
<1>5. \A q \in Proc : q # p => pc[q] \in Closed
    BY <1>2, Alone DEF Opened, Working
<1>6. pc'[p] = "refused" /\ \A q \in Proc : q # p => pc'[q] = pc[q]
    BY <1>1, <1>2
<1>7. \A q \in Proc : pc'[q] \notin {"idle"} \cup Working
    BY <1>5, <1>6 DEF Closed, Working
<1>8. position[p] + 1 \in DOMAIN journal
    BY <1>1, <1>2, WrittenTyped
<1>9. Blocks(snapshot, journal, position[p] + 1)'
    BY <1>2, <1>4 DEF Blocks, Follows, Leads, Written, Entries, HistoryOf, DigestOf
<1>10. Refusable(p)'
    BY <1>2, <1>6, <1>7, <1>8, <1>9 DEF Refusable, PastWrite
<1>11. job' = [job EXCEPT ![p] = job[p]] /\ "refused" \notin {"idle"} \cup Working
    BY <1>1, <1>2 DEF Working
<1>12. \A q \in Proc : Refusable(q)'
    BY <1>2, <1>10, <1>11, OthersRefusable DEF Opened, Working
<1> QED
    BY <1>3, <1>12 DEF RefusalInvariant
-----------------------------------------------------------------------------
(* A start that succeeds.                                                  *)

\* Who reads the journal to the end was stopped by no line of it, and neither was
\* anyone else.
LEMMA NothingBlocks ==
    ASSUME StoreInvariant, RecoveryInvariant, RefusalInvariant, NEW p \in Proc,
           TruncateTail(p) \/ FinishReplay(p)
    PROVE  /\ \A i \in DOMAIN journal : ~Blocks(snapshot, journal, i)
           /\ \A q \in Proc : pc[q] # "refused"
<1>1. /\ journal \in Seq(Line) /\ Len(journal) \in Nat /\ DOMAIN journal = 1..Len(journal)
      /\ position[p] \in Nat /\ pc[p] = "replay" /\ Intact(journal)
    BY LenProperties
    DEF StoreInvariant, TypeOK, TruncateTail, FinishReplay, Reading, RecoveryInvariant, KnownFiles
<1>2. \A i \in 1..position[p] : ~Blocks(snapshot, journal, i)
    BY <1>1 DEF RefusalInvariant, Refusable
<1>3. CASE FinishReplay(p)
    <2>1. position[p] >= Len(journal)
        BY <1>3 DEF FinishReplay
    <2>2. \A i \in 1..Len(journal) : i \in 1..position[p]
        BY <1>1, <2>1
    <2> QED
        BY <1>1, <1>2, <2>2 DEF RefusalInvariant, Refusable
<1>4. CASE TruncateTail(p)
    <2>1. position[p] < Len(journal) /\ journal[position[p] + 1] = Torn
        BY <1>4 DEF TruncateTail, Reading, LineRead
    <2>2. position[p] + 1 \in 1..Len(journal)
        BY <1>1, <2>1
    <2>3. position[p] + 1 = Len(journal)
        BY <1>1, <2>1, <2>2 DEF Intact
    <2>4. \A i \in 1..Len(journal) : i \in 1..position[p] \/ i = position[p] + 1
        BY <1>1, <2>3
    <2>5. ~Blocks(snapshot, journal, position[p] + 1)
        BY <2>1, LineAssumption DEF Blocks, IsEntry
    <2> QED
        BY <1>1, <1>2, <2>4, <2>5 DEF RefusalInvariant, Refusable
<1> QED
    BY <1>3, <1>4

\* The cut of a torn tail leaves what could be read as readable as it was.
LEMMA TruncateReads ==
    ASSUME StoreInvariant, RecoveryInvariant, RefusalInvariant, NEW p \in Proc,
           TruncateTail(p) \/ FinishReplay(p)
    PROVE  /\ journal' \in Seq(Line) /\ Entries(journal') = Entries(journal)
           /\ \A i \in Entries(journal) : journal'[i] = journal[i]
           /\ Unparsed(journal') <=> Unparsed(journal)
           /\ synced' <= Len(journal')
           /\ \A s : (\A r \in Survivors(journal, synced) : Readable(s, r))
                => \A r \in Survivors(journal', synced') : Readable(s, r)
<1>1. /\ journal \in Seq(Line) /\ Len(journal) \in Nat /\ synced \in Nat
      /\ DOMAIN journal = 1..Len(journal) /\ position[p] \in Nat /\ Intact(journal)
    BY LenProperties DEF StoreInvariant, TypeOK, RecoveryInvariant, KnownFiles
<1>2. synced <= Len(journal)
    BY DEF RefusalInvariant, FilesReadable
<1>3. CASE FinishReplay(p)
    <2>1. UNCHANGED <<journal, synced>>
        BY <1>3 DEF FinishReplay, diskVars
    <2> QED
        BY <1>1, <1>2, <2>1
<1>4. CASE TruncateTail(p)
    <2> DEFINE n == position[p]
               r == SubSeq(journal, 1, n)
    <2>1. /\ n < Len(journal) /\ journal[n + 1] = Torn
          /\ journal' = r /\ synced' = IF synced < n THEN synced ELSE n
        BY <1>4 DEF TruncateTail, Reading, LineRead, LinesKept
    <2>2. n \in Nat /\ n + 1 \in 1..Len(journal) /\ n \in 0..Len(journal)
        BY <1>1, <2>1
    <2>3. n + 1 = Len(journal)
        BY <1>1, <2>1, <2>2 DEF Intact
    <2>4. /\ r \in Seq(Line) /\ Len(r) = n /\ \A i \in 1..n : r[i] = journal[i]
          /\ Intact(r) /\ Entries(r) = {i \in Entries(journal) : i <= n}
        BY <1>1, <2>2, CutJournal
    <2>5. DOMAIN r = 1..n
        BY <2>4, LenProperties
    <2> HIDE DEF n, r
    <2>6. \A i \in 1..Len(journal) : i \in 1..n \/ i = n + 1
        BY <1>1, <2>2, <2>3
    <2>7. \A i \in Entries(journal) : i \in 1..n /\ i <= n
        BY <1>1, <2>1, <2>2, <2>6, WrittenTyped DEF Entries, IsEntry
    <2>8. Entries(r) = Entries(journal) /\ \A i \in Entries(journal) : r[i] = journal[i]
        BY <2>4, <2>7
    <2>9. Unparsed(r) <=> Unparsed(journal)
        <3>1. \A i \in 1..n : i \in 1..Len(journal)
            BY <1>1, <2>1, <2>2
        <3> QED
            BY <1>1, <2>1, <2>4, <2>5, <2>6, <3>1, LineAssumption DEF Unparsed
    <2>10. synced' \in Nat /\ synced' <= n
        BY <1>1, <2>1, <2>2
    <2>11. ASSUME NEW s, \A x \in Survivors(journal, synced) : Readable(s, x)
           PROVE  \A x \in Survivors(r, synced') : Readable(s, x)
        <3>1. /\ \A k \in synced..Len(journal) : Readable(s, SubSeq(journal, 1, k))
              /\ Readable(s, journal)
            BY <1>1, <1>2, <2>11, CutsSurvive
        <3>2. Readable(s, r)
            BY <1>1, <2>4, <2>8, <2>9, <3>1, SameReadable
        <3>3. SubSeq(r, 1, n) = r
            BY <2>4, SubSeqFull
        <3>4. ASSUME NEW k \in synced'..n
              PROVE  Readable(s, SubSeq(r, 1, k))
            <4>1. k \in Nat /\ k <= n /\ k <= Len(r) /\ k <= Len(journal)
                BY <1>1, <2>1, <2>2, <2>4, <2>10
            <4>2. \A i \in 1..k : r[i] = journal[i]
                BY <2>2, <2>4, <4>1
            <4>3. SubSeq(r, 1, k) = SubSeq(journal, 1, k)
                BY <1>1, <2>4, <4>1, <4>2, SameCut
            <4>4. k = n \/ k \in synced..Len(journal)
                BY <1>1, <2>1, <2>2, <2>3, <4>1
            <4> QED
                BY <3>1, <3>2, <3>3, <4>3, <4>4
        <3> QED
            BY <2>4, <2>10, <3>4, ReadableCuts
    <2> QED
        BY <2>1, <2>4, <2>8, <2>9, <2>10, <2>11
<1> QED
    BY <1>3, <1>4

\* What was served before the start and what is served after it stand in the files
\* as they have to.
LEMMA ServingFits ==
    ASSUME StoreInvariant, RecoveryInvariant, RefusalInvariant, NEW p \in Proc,
           TruncateTail(p) \/ FinishReplay(p)
    PROVE  FilesFit'
<1> DEFINE b == HistoryOf(snapshot)
           w == Written(journal)
           f == state[p].history
<1>1. /\ journal \in Seq(Line) /\ served \in History /\ f \in History /\ b \in History
      /\ Entries(journal) \in SUBSET Nat /\ w \in [Entries(journal) -> History]
      /\ DOMAIN w = Entries(journal) /\ \A i \in Entries(journal) : w[i] = journal[i].history
      /\ dirJournals \subseteq Seq(Line) /\ pc[p] = "replay" /\ snapshot \in dirSnapshots
      /\ \A s \in dirSnapshots : HistoryOf(s) \in History
    BY FilesTyped, WrittenTyped
    DEF StoreInvariant, TypeOK, SoundDisk, TruncateTail, FinishReplay, Reading
<1>2. /\ Written(journal') = w /\ served' = f
      /\ \A h \in Recorded : Len(h) <= Len(f)
      /\ outage # "now" => f = served \/ OneMore(served, f)
    BY ServedIsRecovered
<1>3. /\ journal' \in Seq(Line) /\ Entries(journal') = Entries(journal)
      /\ \A i \in Entries(journal) : journal'[i] = journal[i]
      /\ Unparsed(journal') <=> Unparsed(journal)
    BY TruncateReads
<1>4. /\ outage' # "now" /\ UNCHANGED <<snapshot, dirSnapshots, dirJournals>>
    BY DEF TruncateTail, FinishReplay, Serve, diskVars
<1>5. IsPrefix(b, f) /\ Len(b) <= Len(f) /\ (Len(b) < Len(f) => Leading(f))
    <2>1. Replayed(b, w, position[p], f)
        BY <1>1 DEF RecoveryInvariant, Placed
    <2> QED
        BY <1>1, <2>1, PrefixShorter DEF Replayed, Leading
<1>6. \A h : Leading(h)' <=> Leading(h)
    BY <1>2 DEF Leading
<1>7. Spoilt' <=> Spoilt
    BY <1>3 DEF Spoilt, Forks
<1>8. Len(f) \in Nat /\ Len(served) \in Nat /\ Len(b) \in Nat
      /\ \A i \in Entries(journal) : Len(w[i]) \in Nat
    BY <1>1, Lengths
<1>9. NamesServed(journal)'
    <2>1. \A i \in Entries(journal) : w[i] \in Recorded
        BY <1>1 DEF Recorded, Range
    <2>2. ASSUME NEW i \in Entries(journal)
          PROVE  Len(journal'[i].history) <= Len(f)
        BY <1>1, <1>2, <1>3, <2>1
    <2>3. ASSUME NEW i \in Entries(journal)
          PROVE  Len(journal'[i].history) \in Nat
        BY <1>1, <1>3, <1>8
    <2> QED
        BY <1>2, <1>3, <1>8, <2>2, <2>3 DEF NamesServed, Entries
<1>10. \A j \in dirJournals : NamesServed(j)'
    <2>1. CASE outage = "now"
        BY <2>1 DEF RefusalInvariant, FilesFit
    <2>2. CASE outage # "now"
        <3>1. SUFFICES ASSUME NEW j \in dirJournals, NEW i \in Entries(j)
                       PROVE  /\ Len(j[i].history) <= Len(f) + 1
                              /\ Len(j[i].history) = Len(f) + 1 =>
                                    j[i].previous = f \/ (j[i].previous = NoDigest /\ f = << >>)
            BY <1>2 DEF NamesServed, Entries
        <3>2. Len(j[i].history) \in Nat
            BY <1>1, WrittenTyped, Lengths
        <3>3. /\ Len(j[i].history) <= Len(served) + 1
              /\ Len(j[i].history) = Len(served) + 1 =>
                    j[i].previous = served \/ (j[i].previous = NoDigest /\ served = << >>)
            BY <2>2 DEF RefusalInvariant, FilesFit, NamesServed
        <3> QED
            BY <1>2, <1>8, <2>2, <3>2, <3>3 DEF OneMore
    <2> QED
        BY <2>1, <2>2
<1>11. \A s \in dirSnapshots : Backed(HistoryOf(s))'
    <2>1. CASE outage = "now"
        <3>1. \A s \in dirSnapshots : s = snapshot
            BY <2>1 DEF RefusalInvariant, FilesFit
        <3> QED
            BY <1>2, <1>5, <1>6, <3>1 DEF Backed
    <2>2. CASE outage # "now"
        <3>1. SUFFICES ASSUME NEW s \in dirSnapshots, ~Spoilt
                       PROVE  IsPrefix(HistoryOf(s), f) /\ (Len(HistoryOf(s)) < Len(f) => Leading(f))
            BY <1>2, <1>6, <1>7 DEF Backed
        <3> DEFINE g == HistoryOf(s)
        <3>2. g \in History /\ Len(g) \in Nat
            BY <1>1, Lengths
        <3>3. \A u \in dirSnapshots :
                \/ /\ IsPrefix(HistoryOf(u), served)
                   /\ Len(HistoryOf(u)) < Len(served) => Leading(served)
                \/ OneMore(served, HistoryOf(u)) /\ Leading(HistoryOf(u))
            BY <2>2, <3>1 DEF RefusalInvariant, FilesFit, Backed
        <3>4. \/ IsPrefix(g, served) /\ (Len(g) < Len(served) => Leading(served))
              \/ OneMore(served, g) /\ Leading(g)
            BY <3>3
        <3>5. \/ IsPrefix(b, served) /\ (Len(b) < Len(served) => Leading(served))
              \/ OneMore(served, b) /\ Leading(b)
            BY <1>1, <3>3
        <3> HIDE DEF g, b, w, f
        <3>6. CASE f = served
            <4>1. CASE IsPrefix(g, served)
                <5>1. Len(g) <= Len(served)
                    BY <1>1, <3>2, <4>1, PrefixShorter
                <5> QED
                    BY <1>8, <3>2, <3>4, <3>6, <4>1, <5>1 DEF OneMore, g
            <4>2. CASE OneMore(served, g) /\ Leading(g)
                <5>1. Len(b) <= Len(served) /\ \A h \in Recorded : Len(h) <= Len(served)
                    BY <1>2, <1>5, <3>6
                <5>2. PICK i \in DOMAIN w : w[i] = g
                    BY <4>2 DEF Leading, w
                <5>3. g \in Recorded
                    BY <1>1, <5>2 DEF Recorded, Range, w
                <5> QED
                    BY <1>8, <3>2, <4>2, <5>1, <5>3 DEF OneMore
            <4> QED
                BY <3>4, <4>1, <4>2
        <3>7. CASE f # served
            <4>1. OneMore(served, f)
                BY <1>2, <2>2, <3>7
            <4>2. Leading(f)
                <5>1. CASE Len(b) < Len(f)
                    BY <1>5, <5>1
                <5>2. CASE ~(Len(b) < Len(f))
                    <6>1. b = f
                        BY <1>1, <1>5, <1>8, <5>2, PrefixShorter
                    <6>2. ~IsPrefix(b, served)
                        BY <1>1, <1>8, <4>1, <6>1, PrefixShorter DEF OneMore
                    <6> QED
                        BY <3>5, <6>1, <6>2
                <5> QED
                    BY <5>1, <5>2
            <4>3. CASE IsPrefix(g, served)
                <5>1. IsPrefix(served, f)
                    BY <4>1 DEF OneMore
                <5>2. IsPrefix(g, f)
                    BY <1>1, <3>2, <4>3, <5>1, PrefixTransitive
                <5> QED
                    BY <4>2, <5>2 DEF g
            <4>4. CASE OneMore(served, g) /\ Leading(g)
                <5>1. Len(g) = Len(f)
                    BY <4>1, <4>4 DEF OneMore
                <5>2. PICK i \in DOMAIN w : w[i] = g /\ Leads(w, i)
                    BY <4>4 DEF Leading, w
                <5>3. PICK k \in DOMAIN w : w[k] = f /\ Leads(w, k)
                    BY <4>2 DEF Leading, w
                <5>4. i = k
                    BY <1>1, <5>1, <5>2, <5>3, OneLeads
                <5>5. g = f
                    BY <5>2, <5>3, <5>4
                <5> QED
                    BY <1>1, <4>2, <5>5, PrefixReflexive DEF g
            <4> QED
                BY <3>4, <4>3, <4>4
        <3> QED
            BY <3>6, <3>7
    <2> QED
        BY <2>1, <2>2
<1>12. FilesFit'
    BY <1>4, <1>9, <1>10, <1>11 DEF FilesFit
<1> QED
    BY <1>12

LEMMA ServingReads ==
    ASSUME StoreInvariant, RecoveryInvariant, RefusalInvariant, NEW p \in Proc,
           TruncateTail(p) \/ FinishReplay(p)
    PROVE  RefusalInvariant'
<1>1. /\ pc \in [Proc -> Opened \cup Closed] /\ job \in [Proc -> Jobs]
      /\ journal \in Seq(Line) /\ snapshot \in dirSnapshots
    BY DEF StoreInvariant, TypeOK, SoundDisk, Jobs
<1>2. /\ pc[p] = "replay" /\ pc' = [pc EXCEPT ![p] = "idle"]
      /\ job' = [job EXCEPT ![p] = job[p]]
      /\ outage' = "never" <=> outage = "never"
      /\ UNCHANGED <<snapshot, dirSnapshots, dirJournals, position>>
    BY <1>1 DEF TruncateTail, FinishReplay, Reading, Serve, diskVars
<1>3. /\ journal' \in Seq(Line) /\ Entries(journal') = Entries(journal)
      /\ \A i \in Entries(journal) : journal'[i] = journal[i]
      /\ Unparsed(journal') <=> Unparsed(journal)
      /\ synced' <= Len(journal')
      /\ \A s : (\A r \in Survivors(journal, synced) : Readable(s, r))
            => \A r \in Survivors(journal', synced') : Readable(s, r)
    BY TruncateReads
<1>4. FilesReadable'
    <2>1. outage = "never" => Excused(snapshot, journal')
        BY <1>1, <1>3, SameReadable DEF RefusalInvariant, FilesReadable
    <2>2. \A s \in dirSnapshots, r \in dirJournals \cup Survivors(journal', synced') :
            Readable(s, r)
        BY <1>3 DEF RefusalInvariant, FilesReadable
    <2>3. outage' = "never" => Excused(snapshot', journal')
        BY <1>2, <2>1
    <2>4. \A s \in dirSnapshots', r \in dirJournals' \cup Survivors(journal', synced') :
            Readable(s, r)
        BY <1>2, <2>2
    <2> QED
        BY <1>3, <2>3, <2>4 DEF FilesReadable, Survivors
<1>5. FilesFit'
    BY ServingFits
<1>6. pc'[p] = "idle"
    BY <1>1, <1>2
<1>7. Refusable(p)'
    BY <1>6 DEF Refusable, PastWrite
<1>8. \A q \in Proc : Refusable(q)'
    BY <1>2, <1>7, NothingBlocks, OthersRefusable DEF Opened, Working
<1> QED
    BY <1>4, <1>5, <1>8 DEF RefusalInvariant
-----------------------------------------------------------------------------
(* The steps of a call.                                                    *)

\* A journal that keeps its entries, gains at most half a line and cannot be cut
\* further than before is read as before (a failed or interrupted append; a sync).
LEMMA SameEntriesReads ==
    ASSUME StoreInvariant, RecoveryInvariant, RefusalInvariant,
           NEW r \in {journal, AppendPartOfLine(journal)}, journal' = r,
           synced' = synced, UNCHANGED <<snapshot, dirSnapshots, dirJournals, served, outage>>
    PROVE  /\ FilesReadable' /\ FilesFit'
           /\ Spoilt' <=> Spoilt
           /\ \A h : Leading(h)' <=> Leading(h)
<1>1. /\ journal \in Seq(Line) /\ Len(journal) \in Nat /\ synced \in Nat
      /\ DOMAIN journal = 1..Len(journal) /\ Intact(journal)
      /\ synced <= Len(journal) /\ snapshot \in dirSnapshots
    BY LenProperties
    DEF StoreInvariant, TypeOK, SoundDisk, RecoveryInvariant, KnownFiles,
        RefusalInvariant, FilesReadable
<1>2. CASE r = journal
    <2>1. FilesReadable' /\ FilesFit'
        BY <1>2, SameFiles DEF diskVars
    <2>2. (Spoilt' <=> Spoilt) /\ \A h : Leading(h)' <=> Leading(h)
        BY <1>2 DEF Spoilt, Unparsed, Forks, Entries, Leading, Written, Leads
    <2> QED
        BY <2>1, <2>2
<1>3. CASE r # journal
    <2>1. ~EndsTorn(journal) /\ r = Append(journal, Torn)
        BY <1>3 DEF AppendPartOfLine
    <2>2. /\ r \in Seq(Line) /\ Entries(r) = Entries(journal)
          /\ \A i \in 1..Len(journal) : r[i] = journal[i]
          /\ Unparsed(r) <=> Unparsed(journal)
        BY <1>1, <2>1, PartOfLine
    <2>3. Len(r) = Len(journal) + 1
        <3>1. Torn \in Line
            BY DEF Line
        <3> QED
            BY <1>1, <2>1, <3>1, AppendProperties
    <2>4. Intact(r) /\ Written(r) = Written(journal)
        <3>1. [previous |-> NoDigest, history |-> << >>] \in Entry
            BY Lengths DEF Entry
        <3>2. r = AppendPartOfLine(journal)
            BY <1>3
        <3> QED
            BY <1>1, <3>1, <3>2, WrittenAppends
    <2>5. \A i \in Entries(journal) : i \in 1..Len(journal) /\ r[i] = journal[i]
        BY <2>2, FilesTyped
    <2>6. \A s : /\ Excused(s, r) <=> Excused(s, journal)
                 /\ Forks(r) <=> Forks(journal)
                 /\ Readable(s, r) <=> Readable(s, journal)
        BY <1>1, <2>2, <2>5, SameReadable
    <2>7. (Spoilt' <=> Spoilt) /\ \A h : Leading(h)' <=> Leading(h)
        BY <2>2, <2>4, <2>6 DEF Spoilt, Leading
    <2>8. ASSUME NEW s \in dirSnapshots
          PROVE  \A x \in Survivors(r, synced) : Readable(s, x)
        <3>1. /\ \A k \in synced..Len(journal) : Readable(s, SubSeq(journal, 1, k))
              /\ Readable(s, journal)
            BY <1>1, CutsSurvive DEF RefusalInvariant, FilesReadable
        <3>2. SubSeq(r, 1, Len(r)) = r
            BY <2>2, SubSeqFull
        <3>3. ASSUME NEW k \in synced..Len(r)
              PROVE  Readable(s, SubSeq(r, 1, k))
            <4>1. k \in Nat /\ k <= Len(r) /\ (k = Len(r) \/ k <= Len(journal))
                  /\ (k <= Len(journal) => k \in synced..Len(journal))
                BY <1>1, <2>3
            <4>2. CASE k = Len(r)
                BY <2>6, <3>1, <3>2, <4>2
            <4>3. CASE k <= Len(journal)
                <5>1. \A i \in 1..k : r[i] = journal[i]
                    BY <1>1, <2>2, <4>1, <4>3
                <5>2. SubSeq(r, 1, k) = SubSeq(journal, 1, k)
                    BY <1>1, <2>2, <4>1, <4>3, <5>1, SameCut
                <5> QED
                    BY <3>1, <4>1, <4>3, <5>2
            <4> QED
                BY <4>1, <4>2, <4>3
        <3> QED
            BY <1>1, <2>2, <2>4, <3>3, ReadableCuts
    <2>9. FilesReadable'
        <3>1. outage = "never" => Excused(snapshot, r)
            BY <2>6 DEF RefusalInvariant, FilesReadable
        <3>2. \A s \in dirSnapshots, x \in dirJournals \cup Survivors(r, synced) : Readable(s, x)
            BY <2>8 DEF RefusalInvariant, FilesReadable
        <3>3. synced <= Len(r)
            BY <1>1, <2>3
        <3>4. outage' = "never" => Excused(snapshot', journal')
            BY <3>1
        <3>5. \A s \in dirSnapshots', x \in dirJournals' \cup Survivors(journal', synced') :
                Readable(s, x)
            BY <3>2
        <3> QED
            BY <3>3, <3>4, <3>5 DEF FilesReadable, Survivors
    <2>10. FilesFit'
        <3>1. NamesServed(journal) => NamesServed(r)
            BY <2>2, <2>5 DEF NamesServed
        <3>2. \A j : NamesServed(j)' <=> NamesServed(j)
            BY DEF NamesServed, Entries
        <3>3. \A s \in dirSnapshots : Backed(HistoryOf(s))' <=> Backed(HistoryOf(s))
            BY <2>7 DEF Backed
        <3>4. outage # "now" => \A j \in dirJournals \cup {r} : NamesServed(j)
            BY <3>1 DEF RefusalInvariant, FilesFit
        <3>5. outage' # "now" => \A j \in dirJournals' \cup {journal'} : NamesServed(j)'
            BY <3>2, <3>4
        <3>6. outage' # "now" => \A s \in dirSnapshots' : Backed(HistoryOf(s))'
            BY <3>3 DEF RefusalInvariant, FilesFit
        <3>7. outage' = "now" => dirSnapshots' = {snapshot'} /\ dirJournals' = {}
            BY DEF RefusalInvariant, FilesFit
        <3> QED
            BY <3>5, <3>6, <3>7 DEF FilesFit, NamesServed, Entries
    <2> QED
        BY <2>7, <2>9, <2>10
<1> QED
    BY <1>2, <1>3

\* The error returns, a kill, and the first steps of Close and Compact.
LEMMA QuietReads ==
    ASSUME StoreInvariant, RecoveryInvariant, RefusalInvariant, NEW p \in Proc,
           \/ WriteFails(p) \/ SyncJournalFails(p) \/ SnapshotFails(p)
           \/ SyncDirectoryFails(p) \/ BeginClose(p) \/ BeginCompact(p)
           \/ RotateFails(p) \/ Crash(p)
    PROVE  RefusalInvariant'
<1>1. pc \in [Proc -> Opened \cup Closed] /\ job \in [Proc -> Jobs]
    BY DEF StoreInvariant, TypeOK, Jobs
<1>2. /\ pc[p] \in Opened
      /\ journal' \in {journal, AppendPartOfLine(journal)}
      /\ journal' # journal => pc[p] = "write"
      /\ UNCHANGED <<snapshot, dirSnapshots, synced, dirJournals, position, served, outage>>
    BY DEF WriteFails, SyncJournalFails, SnapshotFails, SyncDirectoryFails, BeginClose,
           BeginCompact, RotateFails, Crash, diskVars, ghostVars, Opened, Working
<1>3. PICK c \in {"down", "idle", "snapshot"}, j \in {"none", "close", "compact"} :
        /\ pc' = [pc EXCEPT ![p] = c] /\ job' = [job EXCEPT ![p] = j]
        /\ c \in {"idle", "snapshot"} => pc[p] \in {"idle"} \cup Working
    <2>1. CASE Crash(p)
        BY <2>1 DEF Crash
    <2>2. CASE BeginClose(p) \/ BeginCompact(p)
        BY <2>2 DEF BeginClose, BeginCompact
    <2>3. CASE \/ WriteFails(p) \/ SyncJournalFails(p) \/ SnapshotFails(p)
               \/ SyncDirectoryFails(p) \/ RotateFails(p)
        <3>1. GiveUp(p) /\ pc[p] \in Working
            BY <2>3 DEF WriteFails, SyncJournalFails, SnapshotFails, SyncDirectoryFails,
                        RotateFails, Working
        <3> QED
            BY <3>1 DEF GiveUp
    <2> QED
        BY <2>1, <2>2, <2>3
<1>4. FilesReadable' /\ FilesFit'
    BY <1>2, SameEntriesReads
<1>5. pc'[p] = c /\ job'[p] = j
    BY <1>1, <1>3
<1>6. Refusable(p)'
    BY <1>5 DEF Refusable, PastWrite
<1>7. \/ pc[p] \in {"idle"} \cup Working
      \/ UNCHANGED <<snapshot, journal>> /\ c \notin {"idle"} \cup Working
    BY <1>2, <1>3 DEF Working
<1>8. \A q \in Proc : Refusable(q)'
    BY <1>2, <1>3, <1>6, <1>7, OthersRefusable
<1> QED
    BY <1>4, <1>8 DEF RefusalInvariant

\* No entry holds the transaction of a call that has not written it.
LEMMA BeginUpdateReads ==
    ASSUME StoreInvariant, RecoveryInvariant, RefusalInvariant, NEW p \in Proc, NEW t \in Txn,
           BeginUpdate(p, t)
    PROVE  RefusalInvariant'
<1>1. /\ pc \in [Proc -> Opened \cup Closed] /\ job \in [Proc -> Jobs]
      /\ next \in [Proc -> History] /\ journal \in Seq(Line) /\ state[p].history \in History
    BY DEF StoreInvariant, TypeOK, Jobs
<1>2. /\ pc[p] = "idle"
      /\ pc' = [pc EXCEPT ![p] = "write"] /\ job' = [job EXCEPT ![p] = "update"]
      /\ next' = [next EXCEPT ![p] = Append(state[p].history, t)]
      /\ UNCHANGED <<snapshot, dirSnapshots, journal, synced, dirJournals, position,
                     served, outage>>
    BY DEF BeginUpdate, diskVars
<1>3. FilesReadable' /\ FilesFit'
    BY <1>2, SameFiles DEF diskVars
<1>4. pc'[p] = "write" /\ next'[p] = Append(state[p].history, t)
    BY <1>1, <1>2
<1>5. \A i \in Entries(journal) : journal[i].history # Append(state[p].history, t)
    <2>1. \A h \in issued : ~IsPrefix(Append(state[p].history, t), h)
        BY NewTransaction
    <2>2. Append(state[p].history, t) \in History /\ Append(state[p].history, t) # << >>
        <3>1. Append(state[p].history, t) \in History
            BY <1>1, PrefixAppend
        <3>2. state[p].history \in Seq(Txn)
            BY <1>1 DEF History
        <3>3. Append(state[p].history, t) # << >>
            BY <3>2, AppendProperties
        <3> QED
            BY <3>1, <3>3
    <2>3. Append(state[p].history, t) \notin issued
        BY <2>1, <2>2, PrefixReflexive
    <2>4. \A i \in Entries(journal) : Known(Written(journal)[i])
        BY FilesTyped DEF RecoveryInvariant, KnownFiles
    <2> QED
        BY <1>1, <2>2, <2>3, <2>4, WrittenTyped DEF Known
<1>6. Refusable(p)'
    BY <1>2, <1>4, <1>5 DEF Refusable, PastWrite, Entries
<1>7. \A q \in Proc : Refusable(q)'
    BY <1>2, <1>6, OthersRefusable DEF Opened
<1> QED
    BY <1>3, <1>7 DEF RefusalInvariant

\* From the sync of the journal on, less of it can be lost.
LEMMA SyncJournalReads ==
    ASSUME StoreInvariant, RecoveryInvariant, RefusalInvariant, NEW p \in Proc, SyncJournal(p)
    PROVE  RefusalInvariant'
<1>1. /\ pc \in [Proc -> Opened \cup Closed] /\ job \in [Proc -> Jobs]
      /\ journal \in Seq(Line) /\ Len(journal) \in Nat /\ synced \in Nat
      /\ synced <= Len(journal)
    BY LenProperties DEF StoreInvariant, TypeOK, Jobs, RefusalInvariant, FilesReadable
<1>2. /\ pc[p] = "sync" /\ synced' = Len(journal)
      /\ pc' = [pc EXCEPT ![p] = "snapshot"] /\ job' = [job EXCEPT ![p] = job[p]]
      /\ UNCHANGED <<snapshot, dirSnapshots, journal, dirJournals, next, position,
                     served, outage>>
    BY <1>1 DEF SyncJournal, ghostVars
<1>3. Survivors(journal, Len(journal)) \subseteq Survivors(journal, synced)
    <2>1. Len(journal)..Len(journal) \subseteq synced..Len(journal)
        BY <1>1
    <2>2. Len(journal)..(Len(journal) - 1) = {}
        BY <1>1
    <2> QED
        BY <2>1, <2>2 DEF Survivors
<1>4. FilesReadable'
    <2>1. outage' = "never" => Excused(snapshot', journal')
        BY <1>2 DEF RefusalInvariant, FilesReadable
    <2>2. \A s \in dirSnapshots', r \in dirJournals' \cup Survivors(journal', synced') :
            Readable(s, r)
        BY <1>2, <1>3 DEF RefusalInvariant, FilesReadable
    <2>3. synced' <= Len(journal')
        BY <1>1, <1>2
    <2> QED
        BY <2>1, <2>2, <2>3 DEF FilesReadable, Survivors
<1>5. FilesFit'
    <2>1. \A h : Leading(h)' <=> Leading(h)
        BY <1>2 DEF Leading, Leads, Written, Entries
    <2>2. Spoilt' <=> Spoilt
        BY <1>2 DEF Spoilt, Unparsed, Forks, Entries
    <2>3. \A h : Backed(h)' <=> Backed(h)
        BY <1>2, <2>1, <2>2 DEF Backed
    <2>4. \A j : NamesServed(j)' <=> NamesServed(j)
        BY <1>2 DEF NamesServed
    <2> QED
        BY <1>2, <2>3, <2>4 DEF RefusalInvariant, FilesFit, HistoryOf
<1>6. pc'[p] = "snapshot"
    BY <1>1, <1>2
<1>7. Spoilt \/ Leading(next[p])
    BY <1>2 DEF RefusalInvariant, Refusable, PastWrite
<1>8. (Spoilt \/ Leading(next[p]))'
    BY <1>2, <1>7 DEF Spoilt, Leading, Leads, Written, Entries, Unparsed, Forks
<1>9. Refusable(p)'
    BY <1>6, <1>8 DEF Refusable, PastWrite
<1>10. \A q \in Proc : Refusable(q)'
    BY <1>2, <1>9, OthersRefusable DEF Opened, Working
<1> QED
    BY <1>4, <1>5, <1>10 DEF RefusalInvariant
\* The entry of a new transaction follows what is served, or it lands on an
\* unfinished line and spoils it (appendJournal).
LEMMA WriteEntryReads ==
    ASSUME StoreInvariant, RecoveryInvariant, RefusalInvariant, NEW p \in Proc, WriteEntry(p)
    PROVE  RefusalInvariant'
<1> DEFINE e == [previous |-> state[p].digest, history |-> next[p]]
           r == AppendLine(journal, e)
           n == Len(journal) + 1
<1>1. /\ pc \in [Proc -> Opened \cup Closed] /\ job \in [Proc -> Jobs]
      /\ journal \in Seq(Line) /\ Len(journal) \in Nat /\ DOMAIN journal = 1..Len(journal)
      /\ served \in History /\ next[p] \in History /\ state[p].history \in History
      /\ state[p].digest \in History \cup {NoDigest}
      /\ synced \in Nat /\ Intact(journal) /\ snapshot \in dirSnapshots
      /\ dirSnapshots \subseteq History \cup {NoSnapshot}
      /\ \A i \in Entries(journal) : i \in 1..Len(journal) /\ i < n
    BY FilesTyped, LenProperties
    DEF StoreInvariant, TypeOK, SoundDisk, Jobs, RecoveryInvariant, KnownFiles
<1>2. /\ pc[p] = "write" /\ journal' = r
      /\ pc' = [pc EXCEPT ![p] = "sync"] /\ job' = [job EXCEPT ![p] = job[p]]
      /\ UNCHANGED <<snapshot, dirSnapshots, synced, dirJournals, next, position,
                     served, outage>>
    BY <1>1 DEF WriteEntry, ghostVars
<1>3. /\ state[p].history = served /\ outage # "now" /\ OneMore(served, next[p])
      /\ state[p].digest \in {NoDigest, served}
      /\ state[p].digest = NoDigest => served = << >>
      /\ Len(served) \in Nat /\ Len(next[p]) = Len(served) + 1
    BY <1>1, <1>2, Lengths
    DEF RecoveryInvariant, Placed, JobFits, StoreInvariant, SoundProcess, OneMore, Working
<1>4. e \in Entry /\ e.history = next[p] /\ e.previous = state[p].digest
      /\ e \in Line /\ IsEntry(e) /\ e # Garbled
    BY <1>1, LineAssumption DEF Entry, Line, IsEntry
<1>5. /\ synced <= Len(journal)
      /\ \A s \in dirSnapshots :
            /\ \A k \in synced..Len(journal) : Readable(s, SubSeq(journal, 1, k))
            /\ Readable(s, journal)
      /\ NamesServed(journal) /\ \A j \in dirJournals : NamesServed(j)
      /\ \A s \in dirSnapshots : Backed(HistoryOf(s))
      /\ \A i \in Entries(journal) : journal[i].history # next[p]
    BY <1>1, <1>2, <1>3, CutsSurvive DEF RefusalInvariant, FilesReadable, FilesFit, Refusable
<1> HIDE DEF e
<1>6. /\ r \in Seq(Line) /\ Len(r) \in Nat /\ DOMAIN r = 1..Len(r) /\ Intact(r)
      /\ Len(r) = Len(journal) \/ Len(r) = Len(journal) + 1
      /\ \A i \in 1..Len(journal) : i # Len(journal) \/ ~EndsTorn(journal) => r[i] = journal[i]
      /\ EndsTorn(journal) => Unparsed(r) /\ Len(r) = Len(journal)
      /\ ~EndsTorn(journal) => Len(r) = n /\ r = Append(journal, e) /\ r[n] = e
    <2>1. Intact(r)
        BY <1>1, <1>4, WrittenAppends
    <2>2. CASE EndsTorn(journal)
        <3>1. r = [journal EXCEPT ![Len(journal)] = Garbled]
            BY <2>2 DEF AppendLine
        <3>2. Len(journal) \in 1..Len(journal)
            <4>1. Len(journal) # 0
                BY <1>1, <2>2, EmptySeq DEF EndsTorn
            <4> QED
                BY <1>1, <4>1
        <3>3. Garbled \in Line
            BY DEF Line
        <3>4. r \in Seq(Line) /\ Len(r) = Len(journal)
            BY <1>1, <3>1, <3>2, <3>3, ExceptSeq
        <3>5. /\ DOMAIN r = DOMAIN journal
              /\ \A i \in 1..Len(journal) : i # Len(journal) => r[i] = journal[i]
              /\ r[Len(journal)] = Garbled
            BY <1>1, <3>1, <3>2
        <3>6. Unparsed(r)
            BY <1>1, <3>2, <3>5, LineAssumption DEF Unparsed, Parses, IsEntry
        <3> HIDE DEF r
        <3> QED
            BY <1>1, <2>1, <2>2, <3>4, <3>5, <3>6
    <2>3. CASE ~EndsTorn(journal)
        <3>1. r = Append(journal, e)
            BY <2>3 DEF AppendLine
        <3>2. /\ r \in Seq(Line) /\ Len(r) = n /\ r[n] = e
              /\ \A i \in 1..Len(journal) : r[i] = journal[i]
            BY <1>1, <1>4, <3>1, AppendProperties
        <3> HIDE DEF r
        <3>3. DOMAIN r = 1..Len(r)
            BY <3>2, LenProperties
        <3> QED
            <4>1. Len(r) \in Nat /\ Len(r) = Len(journal) + 1
                BY <1>1, <3>2
            <4> QED
                BY <2>1, <2>3, <3>1, <3>2, <3>3, <4>1
    <2> QED
        BY <2>2, <2>3
<1>7. /\ synced \in Nat /\ Len(journal) \in Nat /\ Len(r) \in Nat /\ n \in Nat
      /\ Len(r) = Len(journal) \/ Len(r) = Len(journal) + 1
      /\ n = Len(journal) + 1 /\ synced <= Len(journal) /\ Len(journal) <= Len(r)
      /\ EndsTorn(journal) => Len(r) = Len(journal)
      /\ ~EndsTorn(journal) => Len(r) = n
    <2>1. /\ synced \in Nat /\ Len(journal) \in Nat /\ Len(r) \in Nat
          /\ Len(r) = Len(journal) \/ Len(r) = Len(journal) + 1
          /\ synced <= Len(journal)
        BY <1>1, <1>5, <1>6
    <2>2. n = Len(journal) + 1
        OBVIOUS
    <2>3. /\ EndsTorn(journal) => Len(r) = Len(journal)
          /\ ~EndsTorn(journal) => Len(r) = n
        BY <1>6
    <2> HIDE DEF n, r
    <2> QED
        BY <2>1, <2>2, <2>3
<1>8. /\ \A i \in 1..Len(journal) : i \in 1..Len(r)
      /\ \A i \in 1..Len(r) : i \in 1..Len(journal) \/ i = n
      /\ ~EndsTorn(journal) => n \in 1..Len(r)
    <2> HIDE DEF n, r
    <2> QED
        BY <1>7
<1>9. /\ Entries(journal) \subseteq Entries(r)
      /\ \A i \in Entries(journal) : r[i] = journal[i]
      /\ \A i \in Entries(r) \ Entries(journal) : i = n /\ r[n] = e /\ ~EndsTorn(journal)
      /\ ~EndsTorn(journal) => n \in Entries(r)
    <2>1. ASSUME NEW i \in Entries(journal)
          PROVE  r[i] = journal[i] /\ i \in Entries(r)
        <3>1. i \in 1..Len(journal) /\ IsEntry(journal[i])
            BY <1>1 DEF Entries
        <3>2. i = Len(journal) => ~EndsTorn(journal)
            BY <3>1 DEF EndsTorn, IsEntry
        <3>3. r[i] = journal[i]
            BY <1>6, <3>1, <3>2
        <3>4. i \in DOMAIN r
            BY <1>6, <1>8, <3>1
        <3> QED
            BY <3>1, <3>3, <3>4 DEF Entries
    <2>2. ASSUME NEW i \in Entries(r), i \notin Entries(journal)
          PROVE  i = n /\ r[n] = e /\ ~EndsTorn(journal)
        <3>1. i \in 1..Len(r) /\ IsEntry(r[i])
            BY <1>6 DEF Entries
        <3>2. CASE EndsTorn(journal)
            <4>1. Written(r) = Written(journal)
                BY <1>1, <1>4, <3>2, WrittenAppends
            <4>2. Entries(r) = Entries(journal)
                BY <1>1, <1>6, <4>1, WrittenTyped
            <4> QED
                BY <2>2, <4>2
        <3>3. CASE ~EndsTorn(journal)
            <4>1. i \in 1..Len(journal) \/ i = n
                BY <1>8, <3>1
            <4>2. i \notin 1..Len(journal)
                BY <1>1, <1>6, <2>2, <3>1, <3>3 DEF Entries
            <4> QED
                BY <1>6, <3>3, <4>1, <4>2
        <3> QED
            BY <3>2, <3>3
    <2>3. ~EndsTorn(journal) => n \in Entries(r)
        BY <1>4, <1>6, <1>8 DEF Entries
    <2> QED
        BY <2>1, <2>2, <2>3
<1>10. \A i \in Entries(r) \ Entries(journal) : \A k \in Entries(journal) : k < i
    BY <1>1, <1>9
<1> HIDE DEF r
<1>11. /\ \A i \in Entries(journal) : Leads(Written(r), i) <=> Leads(Written(journal), i)
       /\ Forks(journal) => Forks(r)
       /\ \A s : Orphans(s, journal) => Orphans(s, r)
    BY <1>1, <1>6, <1>9, <1>10, LaterEntries
<1>12. Unparsed(journal) => Unparsed(r)
    <2>1. SUFFICES ASSUME NEW i \in DOMAIN journal, journal[i] # Torn, ~Parses(journal[i])
                   PROVE  Unparsed(r)
        BY DEF Unparsed
    <2>2. i # Len(journal) \/ ~EndsTorn(journal)
        BY <2>1 DEF EndsTorn
    <2>3. i \in 1..Len(journal)
        BY <1>1
    <2>4. r[i] = journal[i]
        BY <1>6, <2>1, <2>2, <2>3
    <2>5. i \in DOMAIN r
        BY <1>6, <1>8, <2>3
    <2> QED
        BY <2>1, <2>4, <2>5 DEF Unparsed
<1>13. \A h : Leading(h) => Leading(h)'
    <2>1. SUFFICES ASSUME NEW h, NEW i \in DOMAIN Written(journal),
                          Written(journal)[i] = h, Leads(Written(journal), i)
                   PROVE  \E k \in DOMAIN Written(r) : Written(r)[k] = h /\ Leads(Written(r), k)
        BY <1>2 DEF Leading
    <2>2. i \in Entries(journal) /\ i \in Entries(r) /\ r[i] = journal[i]
        BY <1>1, <1>9, <2>1, WrittenTyped
    <2>3. Written(r)[i] = h
        BY <1>1, <1>6, <2>1, <2>2, WrittenTyped
    <2> QED
        BY <1>6, <1>11, <2>1, <2>2, <2>3, WrittenTyped
<1>14. Spoilt => Spoilt'
    BY <1>2, <1>11, <1>12 DEF Spoilt
<1>15. ASSUME NEW s \in dirSnapshots, Excused(s, journal),
              \/ /\ IsPrefix(HistoryOf(s), served)
                 /\ Len(HistoryOf(s)) < Len(served) => Leading(served)
              \/ OneMore(served, HistoryOf(s))
       PROVE  Excused(s, r)
    <2>1. CASE EndsTorn(journal)
        BY <1>6, <2>1 DEF Excused
    <2>2. CASE ~EndsTorn(journal)
        <3>1. s \in History \cup {NoSnapshot}
            BY <1>1
        <3>2. OneMore(served, e.history) /\ e.previous \in {NoDigest, served}
              /\ (e.previous = NoDigest => served = << >>)
            BY <1>3, <1>4
        <3>3. Excused(s, Append(journal, e))
            BY <1>4, <1>15, <2>2, <3>1, <3>2, AppendedFollows
        <3> QED
            BY <1>6, <2>2, <3>3
    <2> QED
        BY <2>1, <2>2
<1>16. outage = "never" => Excused(snapshot, r)
    <2>1. Recovers(HistoryOf(snapshot), Written(journal), served)
        BY <1>3 DEF RecoveryInvariant
    <2>2. \/ /\ IsPrefix(HistoryOf(snapshot), served)
             /\ Len(HistoryOf(snapshot)) < Len(served) => Leading(served)
          \/ OneMore(served, HistoryOf(snapshot))
        BY <2>1 DEF Recovers, Leading
    <2> QED
        BY <1>1, <1>15, <2>2 DEF RefusalInvariant, FilesReadable
<1>17. ASSUME NEW s \in dirSnapshots
       PROVE  Readable(s, r)
    <2>1. CASE Unparsed(r) \/ Forks(r)
        BY <2>1 DEF Readable, Excused
    <2>2. CASE ~Unparsed(r) /\ ~Forks(r)
        <3>1. ~Spoilt /\ Excused(s, journal)
            BY <1>5, <1>11, <1>12, <2>2 DEF Spoilt, Readable
        <3>2. \/ /\ IsPrefix(HistoryOf(s), served)
                 /\ Len(HistoryOf(s)) < Len(served) => Leading(served)
              \/ OneMore(served, HistoryOf(s))
            BY <1>5, <3>1 DEF Backed
        <3> QED
            BY <1>15, <3>1, <3>2 DEF Readable
    <2> QED
        BY <2>1, <2>2
<1>18. ASSUME NEW s \in dirSnapshots
       PROVE  \A x \in Survivors(r, synced) : Readable(s, x)
    <2>1. SubSeq(r, 1, Len(r)) = r
        BY <1>6, SubSeqFull
    <2>2. ASSUME NEW k \in synced..Len(r)
          PROVE  Readable(s, SubSeq(r, 1, k))
        <3>1. CASE k = Len(r)
            BY <1>17, <2>1, <3>1
        <3>2. CASE k # Len(r)
            <4>1. k \in Nat /\ k < Len(r) /\ k <= Len(journal) /\ k \in synced..Len(journal)
                BY <1>7, <3>2
            <4>2. k = Len(journal) => ~EndsTorn(journal)
                BY <1>7, <4>1
            <4>3. \A i \in 1..k : r[i] = journal[i]
                <5>1. \A i \in 1..k : i \in 1..Len(journal) /\ (i = Len(journal) => k = Len(journal))
                    BY <1>7, <4>1
                <5> QED
                    BY <1>6, <4>2, <5>1
            <4>4. SubSeq(r, 1, k) = SubSeq(journal, 1, k)
                <5>1. k <= Len(r)
                    BY <1>7, <4>1
                <5> QED
                    BY <1>1, <1>6, <4>1, <4>3, <5>1, SameCut
            <4> QED
                BY <1>5, <4>1, <4>4
        <3> QED
            BY <3>1, <3>2
    <2> QED
        BY <1>1, <1>6, <2>2, ReadableCuts
<1>19. FilesReadable'
    <2>1. \A s \in dirSnapshots, x \in dirJournals \cup Survivors(r, synced) : Readable(s, x)
        BY <1>18 DEF RefusalInvariant, FilesReadable
    <2>2. synced <= Len(r)
        BY <1>7
    <2>3. synced' <= Len(journal')
        BY <1>2, <2>2
    <2>4. outage' = "never" => Excused(snapshot', journal')
        BY <1>2, <1>16
    <2>5. \A s \in dirSnapshots', x \in dirJournals' \cup Survivors(journal', synced') :
            Readable(s, x)
        BY <1>2, <2>1
    <2> QED
        BY <2>3, <2>4, <2>5 DEF FilesReadable, Survivors
<1>20. NamesServed(r)
    <2>1. SUFFICES ASSUME NEW i \in Entries(r)
                   PROVE  /\ Len(r[i].history) <= Len(served) + 1
                          /\ Len(r[i].history) = Len(served) + 1 =>
                                \/ r[i].previous = served
                                \/ r[i].previous = NoDigest /\ served = << >>
        BY DEF NamesServed
    <2>2. CASE i \in Entries(journal)
        BY <1>5, <1>9, <2>2 DEF NamesServed
    <2>3. CASE i \notin Entries(journal)
        BY <1>3, <1>4, <1>9, <2>3
    <2> QED
        BY <2>2, <2>3
<1>21. FilesFit'
    <2>1. \A j : NamesServed(j)' <=> NamesServed(j)
        BY <1>2 DEF NamesServed, Entries
    <2>2. \A j \in dirJournals \cup {r} : NamesServed(j)'
        BY <1>5, <1>20, <2>1
    <2>3. \A s \in dirSnapshots : Backed(HistoryOf(s))'
        BY <1>2, <1>5, <1>13, <1>14 DEF Backed
    <2>4. \A j \in dirJournals' \cup {journal'} : NamesServed(j)'
        BY <1>2, <2>2
    <2>5. \A s \in dirSnapshots' : Backed(HistoryOf(s))'
        BY <1>2, <2>3
    <2>6. outage' # "now"
        BY <1>2, <1>3
    <2> QED
        BY <2>4, <2>5, <2>6 DEF FilesFit, NamesServed, Entries
<1>22. Spoilt' \/ Leading(next[p])'
    <2>1. CASE EndsTorn(journal)
        BY <1>2, <1>6, <2>1 DEF Spoilt
    <2>2. CASE ~EndsTorn(journal) /\ ~Forks(r)
        <3>1. n \in Entries(r) /\ r[n] = e
            BY <1>6, <1>9, <2>2
        <3>2. ASSUME NEW k \in Entries(r), k < n
              PROVE  Len(r[k].history) < Len(next[p])
            <4>1. k \in Entries(journal) /\ r[k] = journal[k]
                BY <1>1, <1>9, <3>2
            <4>2. /\ Len(r[k].history) \in Nat /\ Len(r[k].history) <= Len(next[p])
                  /\ r[k].history # next[p]
                BY <1>1, <1>3, <1>5, <4>1, WrittenTyped, Lengths DEF NamesServed
            <4>3. Len(r[k].history) # Len(next[p])
                BY <1>4, <2>2, <3>1, <4>2 DEF Forks
            <4> QED
                BY <1>3, <4>2, <4>3
        <3>3. /\ DOMAIN Written(r) = Entries(r)
              /\ \A i \in Entries(r) : Written(r)[i] = r[i].history
            BY <1>6, WrittenTyped
        <3>4. Written(r)[n] = next[p] /\ Leads(Written(r), n)
            BY <1>4, <3>1, <3>2, <3>3 DEF Leads
        <3>5. \E i \in DOMAIN Written(r) : Written(r)[i] = next[p] /\ Leads(Written(r), i)
            BY <3>1, <3>3, <3>4
        <3> QED
            BY <1>2, <3>5 DEF Leading
    <2>3. CASE Forks(r)
        BY <1>2, <2>3 DEF Spoilt
    <2> QED
        BY <2>1, <2>2, <2>3
<1>23. pc'[p] = "sync" /\ next'[p] = next[p]
    BY <1>1, <1>2
<1>24. Refusable(p)'
    BY <1>2, <1>22, <1>23 DEF Refusable, PastWrite, Leading
<1>25. \A q \in Proc : Refusable(q)'
    BY <1>2, <1>24, OthersRefusable DEF Opened, Working
<1> QED
    BY <1>19, <1>21, <1>25 DEF RefusalInvariant
-----------------------------------------------------------------------------
(* The snapshot, the rotation and the loss of power.                       *)

\* Of journals in which the newest entries name what is served, so do the cuts.
LEMMA SurvivorsNameServed ==
    ASSUME NEW j \in Seq(Line), Intact(j), NEW n \in Nat, NamesServed(j)
    PROVE  \A r \in Survivors(j, n) : NamesServed(r)
<1>1. SUFFICES ASSUME NEW r \in Survivors(j, n), NEW i \in Entries(r)
               PROVE  i \in Entries(j) /\ r[i] = j[i]
    BY DEF NamesServed
<1>2. i \in Entries(j)
    BY SurvivingEntries
<1>3. Len(j) \in Nat /\ DOMAIN j = 1..Len(j)
    BY LenProperties
<1>4. ASSUME NEW k \in n..Len(j)
      PROVE  /\ SubSeq(j, 1, k) \in Seq(Line) /\ Len(SubSeq(j, 1, k)) = k
             /\ DOMAIN SubSeq(j, 1, k) = 1..k
             /\ \A m \in 1..k : SubSeq(j, 1, k)[m] = j[m]
    <2>1. k \in 0..Len(j)
        BY <1>3
    <2>2. /\ SubSeq(j, 1, k) \in Seq(Line) /\ Len(SubSeq(j, 1, k)) = k
          /\ \A m \in 1..k : SubSeq(j, 1, k)[m] = j[m]
        BY <2>1, CutJournal
    <2> QED
        BY <2>2, LenProperties
<1>5. CASE r \in {SubSeq(j, 1, k) : k \in n..Len(j)}
    BY <1>1, <1>2, <1>4, <1>5 DEF Entries
<1>6. CASE r \in {Append(SubSeq(j, 1, k), Torn) : k \in n..(Len(j) - 1)}
    <2>1. PICK k \in n..(Len(j) - 1) : r = Append(SubSeq(j, 1, k), Torn)
        BY <1>6
    <2>2. k \in n..Len(j) /\ k \in Nat
        BY <1>3
    <2> DEFINE c == SubSeq(j, 1, k)
    <2>3. /\ c \in Seq(Line) /\ Len(c) = k /\ \A m \in 1..k : c[m] = j[m]
        BY <1>4, <2>2
    <2> HIDE DEF c
    <2>4. Torn \in Line /\ r = Append(c, Torn)
        BY <2>1 DEF Line, c
    <2>5. /\ r \in Seq(Line) /\ Len(r) = k + 1 /\ r[k + 1] = Torn
          /\ \A m \in 1..k : r[m] = c[m]
        BY <2>3, <2>4, AppendProperties
    <2>6. DOMAIN r = 1..(k + 1)
        BY <2>5, LenProperties
    <2>7. i # k + 1 /\ i \in 1..(k + 1)
        BY <2>5, <2>6 DEF Entries, IsEntry
    <2>8. i \in 1..k
        BY <2>2, <2>7
    <2> QED
        BY <1>2, <2>3, <2>5, <2>8
<1> QED
    BY <1>5, <1>6 DEF Survivors

\* A snapshot that replaces another can be read with every journal, and what it holds
\* is served or stands in the journal (writeSnapshot, the rename).
LEMMA ReplaceSnapshotReads ==
    ASSUME StoreInvariant, RecoveryInvariant, RefusalInvariant, NEW p \in Proc,
           ReplaceSnapshot(p)
    PROVE  RefusalInvariant'
<1> DEFINE s == SnapshotOf(p)
<1>1. /\ pc \in [Proc -> Opened \cup Closed] /\ job \in [Proc -> Jobs]
      /\ journal \in Seq(Line) /\ synced \in Nat /\ Intact(journal)
      /\ dirJournals \subseteq Seq(Line) /\ served \in History
      /\ state[p].history \in History /\ next[p] \in History
    BY DEF StoreInvariant, TypeOK, Jobs, RecoveryInvariant, KnownFiles
<1>2. /\ pc[p] = "snapshot" /\ snapshot' = s /\ dirSnapshots' = dirSnapshots \cup {s}
      /\ pc' = [pc EXCEPT ![p] = "dirsync"] /\ job' = [job EXCEPT ![p] = job[p]]
      /\ UNCHANGED <<journal, synced, dirJournals, next, position, served, outage>>
    BY <1>1 DEF ReplaceSnapshot, ghostVars
<1>3. /\ state[p].history = served /\ outage # "now"
      /\ job[p] = "update" => OneMore(served, next[p])
    BY <1>2 DEF RecoveryInvariant, Placed, Working
<1>4. job[p] = "update" => Spoilt \/ Leading(next[p])
    BY <1>2 DEF RefusalInvariant, Refusable, PastWrite
<1>5. /\ s \in History /\ (s = served \/ (job[p] = "update" /\ s = next[p] /\ OneMore(served, s)))
      /\ HistoryOf(s) = s
    BY <1>1, <1>3, NoSnapshotAssumption DEF SnapshotOf, HistoryOf, History
<1> HIDE DEF s
<1>6. \A j \in dirJournals \cup {journal} : NamesServed(j)
    BY <1>3 DEF RefusalInvariant, FilesFit
<1>7. \A j \in dirJournals \cup {journal} \cup Survivors(journal, synced) : Excused(s, j)
    <2>1. \A r \in Survivors(journal, synced) : NamesServed(r) /\ r \in Seq(Line)
        BY <1>1, <1>6, SurvivorsNameServed, SurvivingEntries
    <2> QED
        BY <1>1, <1>5, <1>6, <2>1, NewestFollow
<1>8. FilesReadable'
    <2>1. outage' = "never" => Excused(snapshot', journal')
        BY <1>2, <1>7
    <2>2. \A u \in dirSnapshots', j \in dirJournals' \cup Survivors(journal', synced') :
            Readable(u, j)
        BY <1>2, <1>7 DEF RefusalInvariant, FilesReadable, Readable
    <2>3. synced' <= Len(journal')
        BY <1>2 DEF RefusalInvariant, FilesReadable
    <2> QED
        BY <2>1, <2>2, <2>3 DEF FilesReadable, Survivors
<1>9. /\ Spoilt' <=> Spoilt
      /\ \A h : Leading(h)' <=> Leading(h)
      /\ \A j : NamesServed(j)' <=> NamesServed(j)
    BY <1>2 DEF Spoilt, Unparsed, Forks, Entries, Leading, Written, Leads, NamesServed
<1>10. Backed(s)
    <2>1. CASE s = served
        BY <1>1, <2>1, PrefixReflexive, Lengths DEF Backed
    <2>2. CASE s # served
        BY <1>4, <1>5, <2>2 DEF Backed
    <2> QED
        BY <2>1, <2>2
<1>11. FilesFit'
    <2>1. \A u \in dirSnapshots : Backed(HistoryOf(u))
        BY <1>3 DEF RefusalInvariant, FilesFit
    <2>2. \A h : Backed(h) => Backed(h)'
        BY <1>2, <1>9 DEF Backed
    <2>3. \A u \in dirSnapshots' : Backed(HistoryOf(u))'
        BY <1>2, <1>5, <1>10, <2>1, <2>2
    <2>4. \A j \in dirJournals' \cup {journal'} : NamesServed(j)'
        BY <1>2, <1>6, <1>9
    <2>5. outage' # "now"
        BY <1>2, <1>3
    <2> QED
        BY <2>3, <2>4, <2>5 DEF FilesFit, NamesServed, Entries
<1>12. pc'[p] = "dirsync" /\ job'[p] = job[p] /\ next'[p] = next[p]
    BY <1>1, <1>2
<1>13. job[p] = "update" => (Spoilt \/ Leading(next[p]))'
    BY <1>2, <1>4 DEF Spoilt, Unparsed, Forks, Entries, Leading, Written, Leads
<1>14. Refusable(p)'
    BY <1>12, <1>13 DEF Refusable, PastWrite
<1>15. \A q \in Proc : Refusable(q)'
    BY <1>2, <1>14, OthersRefusable DEF Opened, Working
<1> QED
    BY <1>8, <1>11, <1>15 DEF RefusalInvariant

\* Once the directory is synced one snapshot and one journal are left.
LEMMA DirectorySyncReads ==
    ASSUME StoreInvariant, RecoveryInvariant, RefusalInvariant, NEW p \in Proc,
           CommitUpdate(p) \/ FinishClose(p) \/ CompactSynced(p)
    PROVE  RefusalInvariant'
<1>1. /\ pc \in [Proc -> Opened \cup Closed] /\ job \in [Proc -> Jobs]
      /\ journal \in Seq(Line) /\ served \in History /\ next[p] \in History
      /\ snapshot \in dirSnapshots
    BY DEF StoreInvariant, TypeOK, SoundDisk, Jobs
<1>2. /\ pc[p] = "dirsync" /\ dirSnapshots' = {snapshot} /\ dirJournals' = {}
      /\ UNCHANGED <<snapshot, journal, synced, next, position, outage>>
    BY DEF CommitUpdate, FinishClose, CompactSynced, DirectorySynced, ghostVars
<1>3. outage # "now" /\ NamesServed(journal) /\ Backed(HistoryOf(snapshot))
    BY <1>1, <1>2 DEF RecoveryInvariant, Placed, Working, RefusalInvariant, FilesFit
<1>4. PICK c \in {"idle", "down", "rotate"}, j \in {"none", "compact"} :
        pc' = [pc EXCEPT ![p] = c] /\ job' = [job EXCEPT ![p] = j]
    <2>1. CASE CommitUpdate(p) \/ FinishClose(p)
        BY <2>1 DEF CommitUpdate, FinishClose
    <2>2. CASE CompactSynced(p)
        <3>1. job' = [job EXCEPT ![p] = "compact"]
            BY <1>1, <2>2 DEF CompactSynced
        <3> QED
            BY <2>2, <3>1 DEF CompactSynced
    <2> QED
        BY <2>1, <2>2
<1>5. FilesReadable'
    <2>1. outage' = "never" => Excused(snapshot', journal')
        BY <1>2 DEF RefusalInvariant, FilesReadable
    <2>2. \A s \in dirSnapshots', r \in dirJournals' \cup Survivors(journal', synced') :
            Readable(s, r)
        BY <1>1, <1>2 DEF RefusalInvariant, FilesReadable
    <2>3. synced' <= Len(journal')
        BY <1>2 DEF RefusalInvariant, FilesReadable
    <2> QED
        BY <2>1, <2>2, <2>3 DEF FilesReadable, Survivors
<1>6. NamesServed(journal)' /\ Backed(HistoryOf(snapshot))'
    <2>1. CASE CommitUpdate(p)
        <3>1. /\ served' = next[p] /\ snapshot = next[p]
            BY <1>2, <2>1 DEF CommitUpdate, StoreInvariant, SoundProcess, SnapshotOf
        <3>2. OneMore(served, next[p])
            BY <1>2, <2>1 DEF CommitUpdate, RecoveryInvariant, Placed, Working
        <3>3. HistoryOf(snapshot) = next[p]
            BY <1>1, <3>1, NoSnapshotAssumption DEF HistoryOf, History
        <3>4. Len(served) \in Nat /\ Len(next[p]) = Len(served) + 1
            BY <1>1, <3>2, Lengths DEF OneMore
        <3>5. ASSUME NEW i \in Entries(journal)
              PROVE  Len(journal[i].history) <= Len(next[p]) /\ Len(journal[i].history) \in Nat
            BY <1>1, <1>3, <3>4, WrittenTyped, Lengths DEF NamesServed
        <3>6. \A i \in Entries(journal) :
                /\ Len(journal[i].history) <= Len(next[p]) + 1
                /\ Len(journal[i].history) # Len(next[p]) + 1
            BY <3>4, <3>5
        <3>7. NamesServed(journal)'
            BY <1>2, <3>1, <3>6 DEF NamesServed, Entries
        <3>8. (HistoryOf(snapshot))' = served'
            BY <1>2, <3>1, <3>3 DEF HistoryOf
        <3>9. IsPrefix(served', served') /\ ~(Len(served') < Len(served'))
            BY <1>1, <3>1, <3>4, PrefixReflexive
        <3>10. Backed(HistoryOf(snapshot))'
            BY <3>8, <3>9 DEF Backed
        <3> QED
            BY <3>7, <3>10
    <2>2. CASE FinishClose(p) \/ CompactSynced(p)
        <3>1. served' = served
            BY <2>2 DEF FinishClose, CompactSynced, ghostVars
        <3> QED
            BY <1>2, <1>3, <3>1 DEF NamesServed, Backed, Spoilt, Unparsed, Forks, Entries,
                                    Leading, Written, Leads, HistoryOf
    <2> QED
        BY <2>1, <2>2
<1>7. FilesFit'
    BY <1>2, <1>3, <1>6 DEF FilesFit, NamesServed, Entries
<1>8. pc'[p] = c /\ job'[p] = j
    BY <1>1, <1>4
<1>9. Refusable(p)'
    BY <1>2, <1>8 DEF Refusable, PastWrite
<1>10. \A q \in Proc : Refusable(q)'
    BY <1>2, <1>4, <1>9, OthersRefusable DEF Opened, Working
<1> QED
    BY <1>5, <1>7, <1>10 DEF RefusalInvariant

\* Until the directory is synced again, the journal that was renamed away may be
\* found beside the snapshot that covers it (Compact).
LEMMA RotateReads ==
    ASSUME StoreInvariant, RecoveryInvariant, RefusalInvariant, NEW p \in Proc,
           RotateJournal(p)
    PROVE  RefusalInvariant'
<1>1. /\ pc \in [Proc -> Opened \cup Closed] /\ job \in [Proc -> Jobs]
      /\ journal \in Seq(Line) /\ synced \in Nat /\ served \in History /\ Intact(journal)
    BY DEF StoreInvariant, TypeOK, Jobs, RecoveryInvariant, KnownFiles
<1>2. /\ pc[p] = "rotate" /\ journal' = << >> /\ synced' = 0
      /\ dirJournals' = dirJournals \cup Survivors(journal, synced)
      /\ pc' = [pc EXCEPT ![p] = "idle"] /\ job' = [job EXCEPT ![p] = "none"]
      /\ UNCHANGED <<snapshot, dirSnapshots, next, position, served, outage>>
    BY DEF RotateJournal, ghostVars
<1>3. /\ outage # "now" /\ snapshot = served
      /\ dirSnapshots = {snapshot} /\ dirJournals = {}
    BY <1>2 DEF RecoveryInvariant, Placed, JobFits, Working, RefusalInvariant, Refusable
<1>4. /\ << >> \in Seq(Line) /\ Len(<< >>) = 0 /\ DOMAIN << >> = {}
      /\ SubSeq(<< >>, 1, 0) = << >>
    BY EmptySeq, SubSeqEmpty
<1>5. Survivors(<< >>, 0) = {<< >>}
    <2>1. 0..0 = {0} /\ 0..(0 - 1) = {}
        OBVIOUS
    <2>2. {SubSeq(<< >>, 1, k) : k \in {0}} = {<< >>}
        BY <1>4
    <2> QED
        BY <1>4, <2>1, <2>2 DEF Survivors
<1>6. \A s : Excused(s, << >>)
    BY <1>4 DEF Excused
<1>7. FilesReadable'
    <2>1. outage' = "never" => Excused(snapshot', journal')
        BY <1>2, <1>6
    <2>2. \A s \in dirSnapshots, r \in Survivors(journal, synced) : Readable(s, r)
        BY DEF RefusalInvariant, FilesReadable
    <2>3. \A s \in dirSnapshots', r \in dirJournals' \cup Survivors(journal', synced') :
            Readable(s, r)
        BY <1>2, <1>3, <1>5, <1>6, <2>2 DEF Readable
    <2>4. synced' <= Len(journal')
        BY <1>2, <1>4
    <2> QED
        BY <2>1, <2>3, <2>4 DEF FilesReadable, Survivors
<1>8. \A j \in dirJournals' \cup {journal'} : NamesServed(j)'
    <2>1. NamesServed(journal)
        BY <1>3 DEF RefusalInvariant, FilesFit
    <2>2. \A r \in Survivors(journal, synced) : NamesServed(r)
        BY <1>1, <2>1, SurvivorsNameServed
    <2>3. NamesServed(<< >>)
        BY <1>4 DEF NamesServed, Entries
    <2>4. \A j : NamesServed(j)' <=> NamesServed(j)
        BY <1>2 DEF NamesServed, Entries
    <2> QED
        BY <1>2, <1>3, <2>2, <2>3, <2>4
<1>9. \A s \in dirSnapshots' : Backed(HistoryOf(s))'
    <2>1. /\ HistoryOf(served) = served /\ IsPrefix(served, served)
          /\ ~(Len(served) < Len(served))
        BY <1>1, PrefixReflexive, Lengths, NoSnapshotAssumption DEF HistoryOf, History
    <2> QED
        BY <1>2, <1>3, <2>1 DEF Backed
<1>10. FilesFit'
    BY <1>2, <1>3, <1>8, <1>9 DEF FilesFit, NamesServed, Entries
<1>11. pc'[p] = "idle"
    BY <1>1, <1>2
<1>12. Refusable(p)'
    BY <1>11 DEF Refusable, PastWrite
<1>13. \A q \in Proc : Refusable(q)'
    BY <1>2, <1>12, OthersRefusable DEF Opened, Working
<1> QED
    BY <1>7, <1>10, <1>13 DEF RefusalInvariant

\* Whatever pair of files a power loss picks could be read before it.
LEMMA PowerLossReads ==
    ASSUME StoreInvariant, RecoveryInvariant, RefusalInvariant, PowerLoss
    PROVE  RefusalInvariant'
<1>1. /\ journal \in Seq(Line) /\ synced \in Nat /\ dirJournals \subseteq Seq(Line)
      /\ Intact(journal)
    BY DEF StoreInvariant, TypeOK, RecoveryInvariant, KnownFiles
<1>2. /\ snapshot' \in dirSnapshots /\ dirSnapshots' = {snapshot'}
      /\ journal' \in dirJournals \cup Survivors(journal, synced)
      /\ synced' = Len(journal') /\ dirJournals' = {}
      /\ pc' = [q \in Proc |-> "down"] /\ outage' = "now"
    BY DEF PowerLoss
<1>3. journal' \in Seq(Line) /\ Len(journal') \in Nat
    BY <1>1, <1>2, SurvivingEntries, LenProperties
<1>4. Survivors(journal', synced') = {journal'}
    <2>1. \A n \in Nat : n..n = {n} /\ n..(n - 1) = {}
        OBVIOUS
    <2>2. SubSeq(journal', 1, Len(journal')) = journal'
        BY <1>3, SubSeqFull
    <2>3. Len(journal')..Len(journal') = {Len(journal')}
          /\ Len(journal')..(Len(journal') - 1) = {}
        BY <1>3, <2>1
    <2> QED
        BY <1>2, <2>2, <2>3 DEF Survivors
<1>5. FilesReadable'
    <2>1. Readable(snapshot', journal')
        BY <1>2 DEF RefusalInvariant, FilesReadable
    <2>2. \A s \in dirSnapshots', r \in dirJournals' \cup Survivors(journal', synced') :
            Readable(s, r)
        BY <1>2, <1>4, <2>1
    <2>3. outage' # "never" /\ synced' <= Len(journal')
        BY <1>2, <1>3
    <2> QED
        BY <2>2, <2>3 DEF FilesReadable, Survivors
<1>6. FilesFit'
    BY <1>2 DEF FilesFit
<1>7. \A q \in Proc : Refusable(q)'
    BY <1>2 DEF Refusable, PastWrite
<1> QED
    BY <1>5, <1>6, <1>7 DEF RefusalInvariant

-----------------------------------------------------------------------------
(* The theorems.                                                           *)

\* Every step keeps the invariant.
LEMMA NextReads ==
    ASSUME Exclusive, StoreInvariant, RecoveryInvariant, RefusalInvariant, [Next]_vars
    PROVE  RefusalInvariant'
<1>1. ASSUME NEW p \in Proc, Step(p)
      PROVE  RefusalInvariant'
    <2>1. CASE Open(p)
        BY <2>1, OpenReads
    <2>2. CASE SkipLine(p) \/ ApplyLine(p)
        BY <2>2, ReadingReads
    <2>3. CASE RefuseLine(p)
        BY <2>3, RefuseLineReads
    <2>4. CASE TruncateTail(p) \/ FinishReplay(p)
        BY <2>4, ServingReads
    <2>5. CASE \E t \in Txn : BeginUpdate(p, t)
        BY <2>5, BeginUpdateReads
    <2>6. CASE WriteEntry(p)
        BY <2>6, WriteEntryReads
    <2>7. CASE \/ WriteFails(p) \/ SyncJournalFails(p) \/ SnapshotFails(p)
               \/ SyncDirectoryFails(p) \/ BeginClose(p) \/ BeginCompact(p)
               \/ RotateFails(p) \/ Crash(p)
        BY <2>7, QuietReads
    <2>8. CASE SyncJournal(p)
        BY <2>8, SyncJournalReads
    <2>9. CASE ReplaceSnapshot(p)
        BY <2>9, ReplaceSnapshotReads
    <2>10. CASE CommitUpdate(p) \/ FinishClose(p) \/ CompactSynced(p)
        BY <2>10, DirectorySyncReads
    <2>11. CASE RotateJournal(p)
        BY <2>11, RotateReads
    <2> QED
        BY <1>1, <2>1, <2>2, <2>3, <2>4, <2>5, <2>6, <2>7, <2>8, <2>9, <2>10, <2>11
        DEF Step
<1>2. CASE PowerLoss
    BY <1>2, PowerLossReads
<1>3. CASE UNCHANGED vars
    <2>1. UNCHANGED <<diskVars, served, outage, pc, job, state, next, position>>
        BY <1>3 DEF vars, ghostVars
    <2>2. FilesReadable' /\ FilesFit'
        BY <2>1, SameFiles
    <2>3. UNCHANGED <<snapshot, dirSnapshots, journal, dirJournals>>
        BY <2>1 DEF diskVars
    <2>4. \A q \in Proc : Refusable(q)'
        BY <2>1, <2>3
        DEF RefusalInvariant, Refusable, PastWrite, Spoilt, Unparsed, Forks, Leading, Leads,
            Written, Entries, Blocks, Follows, HistoryOf, DigestOf
    <2> QED
        BY <2>2, <2>4 DEF RefusalInvariant
<1> QED
    BY <1>1, <1>2, <1>3 DEF Next

\* Whatever files a start finds, after a crash or a power loss at any step, can be
\* read to the end, or a whole line of it does not parse (it was written over an
\* unfinished one, or holds a value json.Unmarshal refuses), an entry names the
\* empty state without a digest, or two transactions took one place.
THEOREM FilesStayReadable == ASSUME Exclusive PROVE Spec => []RefusalInvariant
<1>1. Init => StoreInvariant /\ RecoveryInvariant /\ RefusalInvariant
    BY InitEstablishes, InitRecovers, InitReads
<1>2. StoreInvariant /\ RecoveryInvariant /\ RefusalInvariant /\ [Next]_vars
        => (StoreInvariant /\ RecoveryInvariant /\ RefusalInvariant)'
    BY NextKeeps, NextRecovers, NextReads
<1> QED
    BY <1>1, <1>2, PTL DEF Spec

\* Open refuses a directory only for one of those reasons, and for the last of them
\* only where power was lost (replayJournal's errors).
THEOREM RefusalsAreExcused == ASSUME Exclusive PROVE Spec => []RefusedForAReason
<1>1. ASSUME StoreInvariant, RefusalInvariant
      PROVE  RefusedForAReason
    <2>1. SUFFICES ASSUME NEW p \in Proc, pc[p] = "refused"
                   PROVE  \/ Unparsed(journal)
                          \/ Orphans(snapshot, journal)
                          \/ outage # "never" /\ Forks(journal)
        BY DEF RefusedForAReason
    <2>2. \E i \in DOMAIN journal : Blocks(snapshot, journal, i)
        BY <1>1, <2>1 DEF RefusalInvariant, Refusable
    <2>3. CASE outage = "never"
        BY <1>1, <2>2, <2>3 DEF RefusalInvariant, FilesReadable, Excused
    <2>4. CASE outage # "never"
        <3>1. journal \in Survivors(journal, synced) /\ snapshot \in dirSnapshots
            BY <1>1, CutsSurvive
            DEF StoreInvariant, TypeOK, SoundDisk, RefusalInvariant, FilesReadable
        <3>2. Readable(snapshot, journal)
            BY <1>1, <3>1 DEF RefusalInvariant, FilesReadable
        <3> QED
            BY <2>2, <2>4, <3>2 DEF Readable, Excused
    <2> QED
        BY <2>3, <2>4
<1>2. Spec => []StoreInvariant /\ []RefusalInvariant
    BY StoreIsSound, FilesStayReadable
<1> QED
    BY <1>1, <1>2, PTL
=============================================================================
