---------------------------- MODULE LedgerProofs ----------------------------
(***************************************************************************)
(* The file repository implements the ledger, for every set of processes   *)
(* and of transactions and every choice of faults, while one process has   *)
(* the directory open at a time: whatever fails, is killed or loses power, *)
(* readers and callers see one history that grows by whole transactions.   *)
(***************************************************************************)
EXTENDS StoreProofs

-----------------------------------------------------------------------------
(* Prefixes again.                                                         *)

\* The lengths of histories are numbers, and the empty history has length 0.
LEMMA Lengths ==
    /\ \A h \in History : Len(h) \in Nat /\ (Len(h) = 0 <=> h = << >>)
    /\ << >> \in History
BY LenProperties, EmptySeq DEF History

\* Two prefixes of one history are nested; of the same length they are equal.
LEMMA PrefixesNest ==
    ASSUME NEW g \in History, NEW h \in History, NEW u \in History,
           IsPrefix(g, u), IsPrefix(h, u), Len(g) <= Len(h)
    PROVE  IsPrefix(g, h)
<1>1. Len(g) \in Nat /\ Len(h) \in Nat /\ Len(u) \in Nat
    BY Lengths
<1>2. /\ \A i \in 1..Len(g) : g[i] = u[i]
      /\ \A i \in 1..Len(h) : h[i] = u[i]
    BY PrefixByIndex
<1>3. \A i \in 1..Len(g) : g[i] = h[i]
    BY <1>1, <1>2
<1> QED
    BY <1>3, PrefixByIndex

LEMMA PrefixShorter ==
    ASSUME NEW g \in History, NEW h \in History, IsPrefix(g, h)
    PROVE  Len(g) <= Len(h) /\ (Len(g) = Len(h) => g = h)
<1>1. Len(g) \in Nat /\ Len(h) \in Nat
    BY Lengths
<1>2. Len(g) <= Len(h) /\ \A i \in 1..Len(g) : g[i] = h[i]
    BY PrefixByIndex
<1>3. Len(g) = Len(h) => g = h
    BY <1>2, SeqEqual DEF History
<1> QED
    BY <1>2, <1>3

\* The empty history precedes every other.
LEMMA EmptyIsPrefix == \A h \in History : IsPrefix(<< >>, h)
BY Lengths, PrefixReflexive, PrefixOfEmpty

-----------------------------------------------------------------------------
(* What replay makes of the files.                                         *)

\* A replay that has read every entry recovers what was served, or one
\* transaction more (loadSnapshot and replayJournal after a crash).
LEMMA ReplayFinds ==
    ASSUME NEW b \in History, NEW D \in SUBSET Nat, NEW w \in [D -> History],
           NEW k \in Nat, \A i \in D : i <= k,
           NEW f \in History, NEW h \in History,
           Recovers(b, w, f), Replayed(b, w, k, h)
    PROVE  h = f \/ OneMore(f, h)
<1>1. Len(b) \in Nat /\ Len(f) \in Nat /\ Len(h) \in Nat /\ DOMAIN w = D
    BY Lengths
<1>2. Len(b) <= Len(h) /\ (Len(b) = Len(h) => b = h)
    BY PrefixShorter DEF Replayed
<1>3. Len(b) < Len(f) => Len(f) <= Len(h)
    BY <1>1 DEF Replayed, Recovers
<1>4. IsPrefix(b, f) => Len(b) <= Len(f) /\ (Len(b) = Len(f) => b = f)
    BY PrefixShorter
<1>5. CASE Len(b) = Len(h)
    BY <1>1, <1>2, <1>3, <1>4, <1>5 DEF Recovers
<1>6. CASE Len(b) < Len(h)
    <2>1. PICK i \in D : w[i] = h /\ Leads(w, i)
        BY <1>1, <1>6 DEF Replayed
    <2>2. Len(h) <= Len(f) + 1
        BY <1>1, <2>1 DEF Recovers
    <2>3. CASE Len(h) <= Len(f)
        <3>1. IsPrefix(h, f)
            BY <1>1, <1>6, <2>1, <2>3 DEF Recovers
        <3>2. Len(f) <= Len(h)
            BY <1>1, <1>3, <1>6, <2>3
        <3>3. h = f
            BY <1>1, <2>3, <3>1, <3>2, PrefixShorter
        <3> QED
            BY <3>3
    <2>4. CASE Len(h) = Len(f) + 1
        <3>1. IsPrefix(b, f)
            BY <1>1, <1>6, <2>4 DEF Recovers, OneMore
        <3>2. CASE Len(b) = Len(f)
            BY <1>4, <2>4, <3>1, <3>2 DEF OneMore, Replayed
        <3>3. CASE Len(b) < Len(f)
            <4>1. PICK m \in D : w[m] = f /\ Leads(w, m)
                BY <1>1, <3>3 DEF Recovers
            <4>2. IsPrefix(w[m], h)
                BY <1>1, <3>3, <4>1 DEF Replayed
            <4> QED
                BY <2>4, <4>1, <4>2 DEF OneMore
        <3> QED
            BY <1>1, <1>4, <3>1, <3>2, <3>3
    <2> QED
        BY <1>1, <2>2, <2>3, <2>4
<1> QED
    BY <1>1, <1>2, <1>5, <1>6

\* What replay has recovered from all the entries can be recovered again, and no
\* record of a further transaction is left.
LEMMA ReplayRecovers ==
    ASSUME NEW b \in History, NEW D \in SUBSET Nat, NEW w \in [D -> History],
           NEW k \in Nat, \A i \in D : i <= k,
           NEW h \in History, Replayed(b, w, k, h)
    PROVE  /\ Recovers(b, w, h)
           /\ Len(b) <= Len(h)
           /\ \A i \in D : Len(w[i]) <= Len(h)
<1>1. Len(h) \in Nat /\ DOMAIN w = D /\ \A i \in D : Len(w[i]) \in Nat
    BY Lengths
<1>2. Len(b) <= Len(h)
    BY PrefixShorter DEF Replayed
<1>3. \A i \in D : Len(w[i]) <= Len(h)
    BY <1>1 DEF Replayed
<1>4. \A i \in D : Len(w[i]) <= Len(h) + 1
    BY <1>1, <1>3
<1> QED
    BY <1>1, <1>2, <1>3, <1>4 DEF Replayed, Recovers

\* Before the first line replay holds the snapshot.
LEMMA ReplayStarts ==
    ASSUME NEW b \in History, NEW D \in SUBSET (Nat \ {0}), NEW w \in [D -> History]
    PROVE  Replayed(b, w, 0, b)
<1>1. DOMAIN w = D /\ \A i \in D : ~(i <= 0)
    OBVIOUS
<1>2. Len(b) \in Nat /\ IsPrefix(b, b)
    BY Lengths, PrefixReflexive
<1> QED
    BY <1>1, <1>2 DEF Replayed

\* A line that is no entry, or an entry no longer than what is recovered, changes
\* nothing (Covered).
LEMMA ReplaySkips ==
    ASSUME NEW b \in History, NEW D \in SUBSET Nat, NEW w \in [D -> History],
           NEW k \in Nat, NEW h \in History, Replayed(b, w, k, h),
           k + 1 \in D => Len(w[k + 1]) <= Len(h)
    PROVE  Replayed(b, w, k + 1, h)
<1>1. Len(b) \in Nat /\ Len(h) \in Nat /\ DOMAIN w = D /\ \A i \in D : Len(w[i]) \in Nat
    BY Lengths
<1>2. \A i \in D : i <= k + 1 => i <= k \/ i = k + 1
    OBVIOUS
<1>3. \A i \in D : i <= k + 1 => Len(w[i]) <= Len(h)
    BY <1>1, <1>2 DEF Replayed
<1>4. Len(b) < Len(h) => \E i \in D : i <= k /\ w[i] = h
    BY <1>1 DEF Replayed
<1>5. k + 1 \in D /\ Len(b) < Len(w[k + 1]) => ~Leads(w, k + 1)
    BY <1>1, <1>4 DEF Leads
<1>6. \A i \in D : i <= k => i <= k + 1
    OBVIOUS
<1>7. Len(b) < Len(h) => \E i \in D : i <= k + 1 /\ w[i] = h /\ Leads(w, i)
    BY <1>1, <1>6 DEF Replayed
<1>8. \A i \in D : i <= k + 1 /\ Leads(w, i) /\ Len(b) < Len(w[i]) => IsPrefix(w[i], h)
    BY <1>1, <1>2, <1>5 DEF Replayed
<1> QED
    BY <1>1, <1>3, <1>7, <1>8 DEF Replayed

\* An entry of one transaction more leads, and is what is recovered from there on.
LEMMA ReplayApplies ==
    ASSUME NEW b \in History, NEW D \in SUBSET Nat, NEW w \in [D -> History],
           NEW k \in Nat, NEW h \in History, Replayed(b, w, k, h),
           k + 1 \in D, OneMore(h, w[k + 1])
    PROVE  Replayed(b, w, k + 1, w[k + 1])
<1> DEFINE g == w[k + 1]
<1>1. /\ Len(b) \in Nat /\ Len(h) \in Nat /\ DOMAIN w = D
      /\ \A i \in D : Len(w[i]) \in Nat /\ w[i] \in History
    BY Lengths
<1>2. \A i \in D : i <= k + 1 => i <= k \/ i = k + 1
    OBVIOUS
<1>3. g \in History /\ IsPrefix(h, g) /\ Len(g) = Len(h) + 1 /\ IsPrefix(g, g)
    BY PrefixReflexive DEF OneMore
<1>4. \A i \in D : i <= k => Len(w[i]) < Len(g)
    BY <1>1, <1>3 DEF Replayed
<1>5. \A i \in D : i <= k + 1 => Len(w[i]) <= Len(g)
    BY <1>1, <1>2, <1>3, <1>4
<1>6. \A i \in D : i < k + 1 => i <= k
    OBVIOUS
<1>7. Leads(w, k + 1)
    BY <1>1, <1>4, <1>6 DEF Leads
<1>8. IsPrefix(b, g)
    BY <1>3, PrefixTransitive DEF Replayed
<1>9. \A i \in D : i <= k /\ Leads(w, i) /\ Len(b) < Len(w[i]) => IsPrefix(w[i], g)
    BY <1>1, <1>3, PrefixTransitive DEF Replayed
<1>10. \A i \in D : i <= k + 1 /\ Leads(w, i) /\ Len(b) < Len(w[i]) => IsPrefix(w[i], g)
    BY <1>2, <1>3, <1>9
<1>11. k + 1 <= k + 1
    OBVIOUS
<1> QED
    BY <1>1, <1>5, <1>7, <1>8, <1>10, <1>11 DEF Replayed

\* One more entry of one transaction more leaves what can be recovered.
LEMMA RecoversAppend ==
    ASSUME NEW b \in History, NEW f \in History,
           NEW D \in SUBSET Nat, NEW w \in [D -> History],
           NEW E \in SUBSET Nat, NEW v \in [E -> History],
           D \subseteq E, \A i \in D : v[i] = w[i],
           \A i \in E \ D : Len(v[i]) = Len(f) + 1 /\ \A d \in D : d < i,
           Recovers(b, w, f)
    PROVE  Recovers(b, v, f)
<1>1. /\ Len(f) \in Nat /\ DOMAIN w = D /\ DOMAIN v = E
      /\ \A i \in E : Len(v[i]) \in Nat
    BY Lengths
<1>2. \A i \in E : Len(v[i]) <= Len(f) + 1
    BY <1>1 DEF Recovers
<1>3. ASSUME NEW i \in D
      PROVE  Leads(w, i) <=> Leads(v, i)
    <2>1. \A e \in E : e < i => e \in D
        OBVIOUS
    <2> QED
        BY <1>1, <2>1 DEF Leads
<1>4. Len(b) < Len(f) => \E i \in E : v[i] = f /\ Leads(v, i)
    BY <1>1, <1>3 DEF Recovers
<1>5. \A i \in E :
        Leads(v, i) /\ Len(b) < Len(v[i]) /\ Len(v[i]) <= Len(f) => IsPrefix(v[i], f)
    <2>1. \A i \in E \ D : ~(Len(v[i]) <= Len(f))
        BY <1>1
    <2> QED
        BY <1>1, <1>3, <2>1 DEF Recovers
<1> QED
    BY <1>1, <1>2, <1>4, <1>5 DEF Recovers

\* A snapshot that holds what is served, or one transaction more, is enough by
\* itself, whatever shorter entries the journal still has.
LEMMA SnapshotRecovers ==
    ASSUME NEW b \in History, NEW f \in History,
           NEW D \in SUBSET Nat, NEW w \in [D -> History],
           b = f \/ OneMore(f, b), \A i \in D : Len(w[i]) <= Len(f) + 1
    PROVE  Recovers(b, w, f)
<1>1. /\ Len(b) \in Nat /\ Len(f) \in Nat /\ DOMAIN w = D
      /\ \A i \in D : Len(w[i]) \in Nat
    BY Lengths
<1>2. IsPrefix(f, f) /\ Len(f) <= Len(b)
    BY <1>1, PrefixReflexive DEF OneMore
<1> QED
    BY <1>1, <1>2 DEF Recovers

-----------------------------------------------------------------------------
(* The entries of a journal.                                               *)

\* Written lists the histories of a journal by line.
LEMMA WrittenTyped ==
    ASSUME NEW j \in Seq(Line)
    PROVE  /\ Len(j) \in Nat /\ DOMAIN j = 1..Len(j)
           /\ Entries(j) \in SUBSET (1..Len(j))
           /\ DOMAIN Written(j) = Entries(j)
           /\ \A i \in Entries(j) : j[i] \in Entry /\ Written(j)[i] = j[i].history
           /\ Written(j) \in [Entries(j) -> History]
<1>1. Len(j) \in Nat /\ DOMAIN j = 1..Len(j) /\ \A i \in 1..Len(j) : j[i] \in Line
    BY LenProperties, ElementOfSeq
<1>2. \A i \in Entries(j) : i \in 1..Len(j) /\ j[i] \in Entry
    BY <1>1 DEF Entries, IsEntry, Line
<1>3. \A e \in Entry : e.history \in History
    BY DEF Entry
<1> QED
    BY <1>1, <1>2, <1>3 DEF Written, Entries

\* Journals with the same entries at the same lines list the same histories.
LEMMA SameWritten ==
    ASSUME NEW j, NEW r, Entries(j) = Entries(r), \A i \in Entries(j) : j[i] = r[i]
    PROVE  Written(j) = Written(r)
BY DEF Written

\* Half a line, or a line spoilt by an unfinished one, is no entry; whatever is
\* appended is the last line (O_APPEND in appendJournal).
LEMMA WrittenAppends ==
    ASSUME NEW j \in Seq(Line), Intact(j), NEW e \in Entry
    PROVE  /\ Written(AppendPartOfLine(j)) = Written(j)
           /\ Intact(AppendPartOfLine(j))
           /\ EndsTorn(j) => Written(AppendLine(j, e)) = Written(j)
           /\ ~EndsTorn(j) =>
                /\ Entries(AppendLine(j, e)) = Entries(j) \cup {Len(j) + 1}
                /\ \A i \in Entries(j) : Written(AppendLine(j, e))[i] = Written(j)[i]
                /\ Written(AppendLine(j, e))[Len(j) + 1] = e.history
           /\ Intact(AppendLine(j, e))
<1>1. /\ Len(j) \in Nat /\ DOMAIN j = 1..Len(j) /\ Entries(j) \in SUBSET (1..Len(j))
      /\ \A i \in 1..Len(j) : j[i] \in Line
    BY WrittenTyped, ElementOfSeq
<1>2. ASSUME NEW x \in Line
      PROVE  /\ DOMAIN Append(j, x) = 1..(Len(j) + 1)
             /\ Len(Append(j, x)) = Len(j) + 1
             /\ Append(j, x)[Len(j) + 1] = x
             /\ \A i \in 1..Len(j) : Append(j, x)[i] = j[i]
    BY <1>1, AppendProperties, LenProperties
<1>3. Torn \in Line /\ Garbled \in Line /\ e \in Line /\ IsEntry(e)
      /\ ~IsEntry(Torn) /\ ~IsEntry(Garbled)
    BY LineAssumption DEF Line, IsEntry
<1>4. ASSUME EndsTorn(j)
      PROVE  /\ Written(AppendLine(j, e)) = Written(j)
             /\ Intact(AppendLine(j, e))
    <2> DEFINE r == [j EXCEPT ![Len(j)] = Garbled]
    <2>1. DOMAIN r = DOMAIN j /\ Len(j) \in 1..Len(j) /\ j[Len(j)] = Torn
        BY <1>1, <1>4, EmptySeq DEF EndsTorn
    <2>2. r[Len(j)] = Garbled /\ \A i \in 1..Len(j) : i # Len(j) => r[i] = j[i]
        BY <1>1, <2>1
    <2>3. r \in Seq(Line)
        BY <1>3, <2>1, ExceptSeq
    <2>4. Len(r) = Len(j) /\ DOMAIN r = 1..Len(j)
        BY <1>1, <2>1, <2>3, LenProperties
    <2> HIDE DEF r
    <2>5. Entries(r) = Entries(j)
        BY <1>1, <1>3, <2>1, <2>2, <2>4 DEF Entries
    <2>6. \A i \in Entries(j) : r[i] = j[i]
        BY <1>1, <1>3, <2>1, <2>2 DEF Entries
    <2>7. Written(r) = Written(j)
        BY <2>5, <2>6, SameWritten
    <2>8. Intact(r)
        BY <1>1, <2>1, <2>2, <2>4, LineAssumption DEF Intact
    <2>9. AppendLine(j, e) = r
        BY <1>4 DEF AppendLine, r
    <2> QED
        BY <2>7, <2>8, <2>9
<1>5. ASSUME ~EndsTorn(j)
      PROVE  \A i \in 1..Len(j) : j[i] # Torn
    BY <1>1, <1>5, EmptySeq DEF EndsTorn, Intact
<1>6. ASSUME ~EndsTorn(j)
      PROVE  /\ Entries(AppendLine(j, e)) = Entries(j) \cup {Len(j) + 1}
             /\ \A i \in Entries(j) : Written(AppendLine(j, e))[i] = Written(j)[i]
             /\ Written(AppendLine(j, e))[Len(j) + 1] = e.history
             /\ Intact(AppendLine(j, e))
    <2> DEFINE r == Append(j, e)
    <2>1. /\ DOMAIN r = 1..(Len(j) + 1) /\ r[Len(j) + 1] = e /\ Len(r) = Len(j) + 1
          /\ \A i \in 1..Len(j) : r[i] = j[i]
        BY <1>2, <1>3
    <2> HIDE DEF r
    <2>2. Entries(r) = Entries(j) \cup {Len(j) + 1}
        BY <1>1, <1>3, <2>1 DEF Entries
    <2>3. /\ \A i \in Entries(j) : Written(r)[i] = Written(j)[i]
          /\ Written(r)[Len(j) + 1] = e.history
        BY <1>1, <2>1, <2>2 DEF Written
    <2>4. Intact(r)
        BY <1>1, <1>3, <1>5, <1>6, <2>1 DEF Intact
    <2>5. AppendLine(j, e) = r
        BY <1>6 DEF AppendLine, r
    <2> QED
        BY <2>2, <2>3, <2>4, <2>5
<1>7. ASSUME ~EndsTorn(j)
      PROVE  /\ Written(AppendPartOfLine(j)) = Written(j)
             /\ Intact(AppendPartOfLine(j))
    <2> DEFINE r == Append(j, Torn)
    <2>1. /\ DOMAIN r = 1..(Len(j) + 1) /\ r[Len(j) + 1] = Torn /\ Len(r) = Len(j) + 1
          /\ \A i \in 1..Len(j) : r[i] = j[i]
        BY <1>2, <1>3
    <2> HIDE DEF r
    <2>2. Entries(r) = Entries(j)
        BY <1>1, <1>3, <2>1 DEF Entries
    <2>3. \A i \in Entries(j) : r[i] = j[i]
        BY <1>1, <2>1
    <2>4. Written(r) = Written(j)
        BY <2>2, <2>3, SameWritten
    <2>5. Intact(r)
        BY <1>1, <1>5, <1>7, <2>1 DEF Intact
    <2>6. AppendPartOfLine(j) = r
        BY <1>7 DEF AppendPartOfLine, r
    <2> QED
        BY <2>4, <2>5, <2>6
<1>8. EndsTorn(j) => AppendPartOfLine(j) = j
    BY DEF AppendPartOfLine
<1> QED
    BY <1>4, <1>6, <1>7, <1>8

\* The first k lines of a journal hold the entries among them.
LEMMA CutJournal ==
    ASSUME NEW j \in Seq(Line), Intact(j), NEW k \in 0..Len(j)
    PROVE  /\ SubSeq(j, 1, k) \in Seq(Line)
           /\ Len(SubSeq(j, 1, k)) = k
           /\ \A i \in 1..k : SubSeq(j, 1, k)[i] = j[i]
           /\ Intact(SubSeq(j, 1, k))
           /\ Entries(SubSeq(j, 1, k)) = {i \in Entries(j) : i <= k}
           /\ \A i \in Entries(SubSeq(j, 1, k)) :
                 Written(SubSeq(j, 1, k))[i] = Written(j)[i]
<1> DEFINE r == SubSeq(j, 1, k)
<1>1. /\ Len(j) \in Nat /\ DOMAIN j = 1..Len(j) /\ Entries(j) \in SUBSET (1..Len(j))
      /\ \A i \in 1..Len(j) : j[i] \in Line
    BY WrittenTyped, ElementOfSeq
<1>2. \A i \in 1..k : j[i] \in Line
    BY <1>1
<1>3. r \in Seq(Line) /\ Len(r) = k /\ \A i \in 1..k : r[i] = j[i]
    BY <1>1, <1>2, SubSeqProperties
<1>4. DOMAIN r = 1..k
    BY <1>3, LenProperties
<1> HIDE DEF r
<1>5. Intact(r)
    BY <1>1, <1>3, <1>4 DEF Intact
<1>6. Entries(r) = {i \in Entries(j) : i <= k}
    BY <1>1, <1>3, <1>4 DEF Entries
<1>7. \A i \in Entries(r) : Written(r)[i] = Written(j)[i]
    BY <1>1, <1>3, <1>4, <1>6 DEF Written
<1> QED
    BY <1>3, <1>5, <1>6, <1>7 DEF r

\* Whatever a power loss leaves of a journal has no entry that was not in it.
LEMMA SurvivingEntries ==
    ASSUME NEW j \in Seq(Line), Intact(j), NEW n \in Nat, NEW r \in Survivors(j, n)
    PROVE  /\ r \in Seq(Line)
           /\ Intact(r)
           /\ Entries(r) \subseteq Entries(j)
           /\ \A i \in Entries(r) : Written(r)[i] = Written(j)[i]
<1>1. Len(j) \in Nat
    BY LenProperties
<1>2. CASE \E k \in n..Len(j) : r = SubSeq(j, 1, k)
    BY <1>1, <1>2, CutJournal
<1>3. CASE \E k \in n..(Len(j) - 1) : r = Append(SubSeq(j, 1, k), Torn)
    <2>1. PICK k \in n..(Len(j) - 1) : r = Append(SubSeq(j, 1, k), Torn)
        BY <1>3
    <2> DEFINE c == SubSeq(j, 1, k)
    <2>2. k \in 0..Len(j) /\ k + 1 \in 1..Len(j) /\ k # Len(j) /\ k \in Nat
        BY <1>1
    <2>3. /\ c \in Seq(Line) /\ Len(c) = k /\ \A i \in 1..k : c[i] = j[i]
          /\ Intact(c) /\ Entries(c) \subseteq Entries(j)
          /\ \A i \in Entries(c) : Written(c)[i] = Written(j)[i]
        BY <2>2, CutJournal
    <2>4. ~EndsTorn(c)
        <3>1. SUFFICES ASSUME c # << >>, c[Len(c)] = Torn PROVE FALSE
            BY DEF EndsTorn
        <3>2. k # 0
            BY <2>3, <3>1, EmptySeq
        <3>3. k \in 1..k /\ k \in DOMAIN j
            BY <2>2, <3>2, LenProperties
        <3>4. j[k] = Torn
            BY <2>3, <3>1, <3>3
        <3> QED
            BY <2>2, <3>3, <3>4 DEF Intact
    <2> HIDE DEF c
    <2>5. r = AppendPartOfLine(c)
        BY <2>1, <2>4 DEF AppendPartOfLine, c
    <2>6. r \in Seq(Line)
        BY <2>3, <2>5, JournalEdits, 0 \in Nat DEF Line
    <2>7. [previous |-> NoDigest, history |-> << >>] \in Entry
        BY Lengths DEF Entry
    <2>8. Intact(r) /\ Written(r) = Written(c)
        BY <2>3, <2>5, <2>7, WrittenAppends
    <2>9. Entries(r) = Entries(c)
        BY <2>3, <2>6, <2>8, WrittenTyped
    <2> QED
        BY <2>3, <2>6, <2>8, <2>9
<1> QED
    BY <1>2, <1>3 DEF Survivors

-----------------------------------------------------------------------------
(* The invariant of recovery.                                              *)

\* The types of the files as replay sees them.
LEMMA FilesTyped ==
    ASSUME StoreInvariant
    PROVE  /\ journal \in Seq(Line) /\ Len(journal) \in Nat
           /\ HistoryOf(snapshot) \in History
           /\ \A s \in dirSnapshots : HistoryOf(s) \in History
           /\ Entries(journal) \in SUBSET (Nat \ {0})
           /\ Entries(journal) \in SUBSET Nat
           /\ Written(journal) \in [Entries(journal) -> History]
           /\ DOMAIN Written(journal) = Entries(journal)
           /\ \A i \in Entries(journal) : i \in 1..Len(journal)
<1>1. journal \in Seq(Line)
    BY DEF StoreInvariant, TypeOK
<1>2. HistoryOf(snapshot) \in History /\ \A s \in dirSnapshots : HistoryOf(s) \in History
    BY Lengths DEF StoreInvariant, TypeOK, HistoryOf
<1> QED
    BY <1>1, <1>2, WrittenTyped

\* While a process has the directory open the others are closed and idle.
LEMMA Alone ==
    ASSUME StoreInvariant, RecoveryInvariant, NEW p \in Proc, pc[p] \in Opened
    PROVE  \A q \in Proc : q # p => pc[q] \in Closed /\ job[q] = "none"
<1>1. \A q \in Proc : q # p => pc[q] \in Closed
    BY DEF StoreInvariant, TypeOK, OneProcess
<1> QED
    BY <1>1 DEF RecoveryInvariant, Placed, JobFits

\* A new directory satisfies it.
LEMMA InitRecovers == Init => RecoveryInvariant
<1> SUFFICES ASSUME Init PROVE RecoveryInvariant
    OBVIOUS
<1>1. HistoryOf(snapshot) = << >> /\ journal = << >> /\ served = << >> /\ Len(<< >>) = 0
    BY EmptySeq DEF Init, HistoryOf
<1>2. Entries(<< >>) = {} /\ DOMAIN Written(<< >>) = {}
    BY DEF Entries, Written
<1>3. IsPrefix(<< >>, << >>)
    BY Lengths, PrefixReflexive
<1>4. Recovers(HistoryOf(snapshot), Written(journal), served)
    BY <1>1, <1>2, <1>3 DEF Recovers
<1>5. KnownFiles
    BY <1>1, <1>2 DEF Init, KnownFiles, Known, Intact, HistoryOf
<1>6. \A p \in Proc : Placed(p)
    BY DEF Init, Placed, JobFits, Opened, Closed, Working
<1>7. IssuedInOrder /\ Known(served)
    BY <1>1 DEF Init, IssuedInOrder, Known
<1> QED
    BY <1>4, <1>5, <1>6, <1>7 DEF Init, RecoveryInvariant

\* A step that ends a call, closes the process or hands over to writeSnapshot, and
\* writes at most half a line, changes nothing that can be recovered (the error
\* returns of Update, Close, Compact and Open; a kill; the first steps of a call).
LEMMA QuietRecovery ==
    ASSUME StoreInvariant, RecoveryInvariant, NEW p \in Proc, pc[p] \in Opened,
           NEW c \in Closed \cup {"idle", "snapshot"}, NEW j \in Jobs,
           c = "snapshot" <=> j # "none", j = "update" => job[p] = "update",
           c \in {"idle", "snapshot"} => pc[p] \in {"idle"} \cup Working,
           pc' = [pc EXCEPT ![p] = c], job' = [job EXCEPT ![p] = j],
           journal' \in {journal, AppendPartOfLine(journal)},
           UNCHANGED <<snapshot, dirSnapshots, dirJournals, state, next, position,
                       ghostVars>>
    PROVE  RecoveryInvariant'
<1>1. Written(journal') = Written(journal) /\ Intact(journal')
    <2>1. Intact(journal)
        BY DEF RecoveryInvariant, KnownFiles
    <2>2. [previous |-> NoDigest, history |-> << >>] \in Entry
        BY Lengths DEF Entry
    <2> QED
        BY <2>1, <2>2, FilesTyped, WrittenAppends
<1>2. IssuedInOrder' /\ Known(served)'
    BY DEF RecoveryInvariant, IssuedInOrder, Known, ghostVars
<1>3. KnownFiles'
    BY <1>1 DEF RecoveryInvariant, KnownFiles, Known, HistoryOf, ghostVars
<1>4. \A q \in Proc : Placed(q)'
    <2>1. pc'[p] = c /\ job'[p] = j
        BY DEF StoreInvariant, TypeOK
    <2>2. Placed(p)'
        BY <2>1 DEF RecoveryInvariant, Placed, JobFits, Known, ghostVars, Opened, Closed, Working
    <2>3. \A q \in Proc : q # p => pc'[q] \in Closed /\ job'[q] = "none"
        BY Alone DEF StoreInvariant, TypeOK
    <2>4. \A q \in Proc : q # p => Placed(q)'
        BY <2>3 DEF Placed, JobFits, Opened, Closed, Working
    <2> QED
        BY <2>2, <2>4
<1>5. (outage # "now" => Recovers(HistoryOf(snapshot), Written(journal), served))'
    BY <1>1 DEF RecoveryInvariant, HistoryOf, ghostVars
<1>6. (\E h \in confirmed \cup {<< >>} : \A g \in confirmed : Len(g) <= Len(h))'
    BY DEF RecoveryInvariant, ghostVars
<1> QED
    BY <1>2, <1>3, <1>4, <1>5, <1>6 DEF RecoveryInvariant

\* Which steps are quiet.
LEMMA QuietActionsRecover ==
    ASSUME StoreInvariant, RecoveryInvariant, NEW p \in Proc,
           \/ RefuseLine(p) \/ WriteFails(p) \/ SyncJournal(p) \/ SyncJournalFails(p)
           \/ SnapshotFails(p) \/ SyncDirectoryFails(p) \/ BeginClose(p)
           \/ BeginCompact(p) \/ RotateFails(p) \/ Crash(p)
    PROVE  RecoveryInvariant'
<1>1. job[p] \in Jobs /\ job = [job EXCEPT ![p] = job[p]] /\ JobFits(p)
    BY DEF StoreInvariant, TypeOK, Jobs, RecoveryInvariant, Placed
<1>2. CASE RefuseLine(p)
    BY <1>1, <1>2, QuietRecovery
    DEF RefuseLine, Reading, JobFits, Opened, Closed, Working, diskVars, Jobs
<1>3. CASE BeginClose(p) \/ BeginCompact(p)
    BY <1>3, QuietRecovery DEF BeginClose, BeginCompact, Opened, Working, Jobs, diskVars
<1>4. CASE SyncJournal(p)
    BY <1>1, <1>4, QuietRecovery DEF SyncJournal, JobFits, Opened, Working, Jobs
<1>5. CASE Crash(p)
    BY <1>5, QuietRecovery DEF Crash, Closed, Jobs
<1>6. ASSUME pc[p] \in Working, GiveUp(p),
             journal' \in {journal, AppendPartOfLine(journal)},
             UNCHANGED <<snapshot, dirSnapshots, dirJournals, state, next, position, ghostVars>>
      PROVE  RecoveryInvariant'
    <2>1. pc[p] \in Opened /\ "none" \in Jobs /\ job' = [job EXCEPT ![p] = "none"]
        BY <1>6 DEF GiveUp, Opened, Jobs
    <2>2. CASE job[p] = "close"
        <3>1. pc' = [pc EXCEPT ![p] = "down"] /\ "down" \in Closed
            BY <1>6, <2>2 DEF GiveUp, Closed
        <3> QED
            BY <1>6, <2>1, <3>1, QuietRecovery
    <2>3. CASE job[p] # "close"
        <3>1. pc' = [pc EXCEPT ![p] = "idle"]
            BY <1>6, <2>3 DEF GiveUp
        <3> QED
            BY <1>6, <2>1, <3>1, QuietRecovery
    <2> QED
        BY <2>2, <2>3
<1>7. CASE SyncJournalFails(p) \/ SnapshotFails(p) \/ SyncDirectoryFails(p) \/ RotateFails(p)
    BY <1>6, <1>7
    DEF SyncJournalFails, SnapshotFails, SyncDirectoryFails, RotateFails, Working, diskVars
<1>8. CASE WriteFails(p)
    BY <1>6, <1>8 DEF WriteFails, Working
<1> QED
    BY <1>2, <1>3, <1>4, <1>5, <1>7, <1>8

\* Replay starts from the snapshot.
LEMMA OpenRecovers ==
    ASSUME Exclusive, StoreInvariant, RecoveryInvariant, NEW p \in Proc, Open(p)
    PROVE  RecoveryInvariant'
<1> DEFINE s == IF snapshot = NoSnapshot THEN Fresh ELSE Stamped(snapshot)
<1>1. s.history = HistoryOf(snapshot)
    BY DEF Fresh, Stamped, HistoryOf
<1>2. /\ pc' = [pc EXCEPT ![p] = "replay"] /\ job' = [job EXCEPT ![p] = "none"]
      /\ state' = [state EXCEPT ![p] = s] /\ position' = [position EXCEPT ![p] = 0]
      /\ UNCHANGED <<diskVars, next, ghostVars>>
      /\ \A q \in Proc : pc[q] \in Closed
    BY DEF Open
<1> HIDE DEF s
<1>3. /\ pc'[p] = "replay" /\ job'[p] = "none" /\ state'[p] = s /\ position'[p] = 0
      /\ \A q \in Proc : q # p => pc'[q] = pc[q] /\ job'[q] = job[q]
    BY <1>2 DEF StoreInvariant, TypeOK
<1>4. Replayed(HistoryOf(snapshot), Written(journal), 0, HistoryOf(snapshot))
    BY FilesTyped, ReplayStarts
<1>5. Known(HistoryOf(snapshot)) /\ 0 <= Len(journal)
    BY FilesTyped DEF StoreInvariant, SoundDisk, RecoveryInvariant, KnownFiles
<1>6. Placed(p)'
    BY <1>1, <1>2, <1>3, <1>4, <1>5
    DEF Placed, JobFits, Known, HistoryOf, diskVars, ghostVars, Opened, Closed, Working
<1>7. \A q \in Proc : q # p => Placed(q)'
    BY <1>2, <1>3 DEF RecoveryInvariant, Placed, JobFits, Opened, Closed, Working
<1>8. (IssuedInOrder /\ Known(served) /\ KnownFiles)'
    BY <1>2 DEF RecoveryInvariant, IssuedInOrder, Known, KnownFiles, HistoryOf, diskVars, ghostVars
<1>9. /\ (outage # "now" => Recovers(HistoryOf(snapshot), Written(journal), served))'
      /\ (\E h \in confirmed \cup {<< >>} : \A g \in confirmed : Len(g) <= Len(h))'
    BY <1>2 DEF RecoveryInvariant, HistoryOf, diskVars, ghostVars
<1> QED
    BY <1>6, <1>7, <1>8, <1>9 DEF RecoveryInvariant

\* Replay reads on: an entry is passed over or applied.
LEMMA ReadingRecovers ==
    ASSUME StoreInvariant, RecoveryInvariant, NEW p \in Proc, SkipLine(p) \/ ApplyLine(p)
    PROVE  RecoveryInvariant'
<1> DEFINE k == position[p]
           b == HistoryOf(snapshot)
           w == Written(journal)
           h == state[p].history
<1>1. /\ pc[p] = "replay" /\ k \in Nat /\ k < Len(journal) /\ h \in History
      /\ position' = [position EXCEPT ![p] = k + 1]
      /\ UNCHANGED <<diskVars, pc, job, next, ghostVars>>
      /\ k + 1 \in 1..Len(journal) /\ IsEntry(journal[k + 1])
    BY FilesTyped DEF SkipLine, ApplyLine, Parses, Reading, LineRead, StoreInvariant, TypeOK
<1>2. /\ k + 1 \in Entries(journal) /\ w[k + 1] = journal[k + 1].history
      /\ journal[k + 1] \in Entry /\ journal[k + 1] \in SoundLine
    <2>1. k + 1 \in Entries(journal)
        BY <1>1, FilesTyped, LenProperties DEF Entries
    <2>2. journal[k + 1] \in SoundLine
        BY <1>1, ElementOfSeq DEF StoreInvariant, SoundDisk
    <2> HIDE DEF k
    <2> QED
        BY <2>1, <2>2, FilesTyped, WrittenTyped
<1>3. Replayed(b, w, k, h)
    BY <1>1 DEF RecoveryInvariant, Placed
<1>4. k + 1 <= Len(journal)
    BY <1>1
<1>5. \E g \in History :
        /\ state'[p].history = g /\ \A q \in Proc : q # p => state'[q] = state[q]
        /\ Replayed(b, w, k + 1, g) /\ Known(g)
    <2>1. CASE SkipLine(p)
        <3>1. Replayed(b, w, k + 1, h)
            <4>1. Len(w[k + 1]) <= Len(h)
                BY <1>2, <2>1 DEF SkipLine, Covered, LineRead
            <4> HIDE DEF b, w, h, k
            <4> QED
                BY <1>1, <1>3, <4>1, FilesTyped, ReplaySkips DEF b, w
        <3>2. Known(h)
            BY <1>1 DEF RecoveryInvariant, Placed, Opened
        <3> QED
            BY <1>1, <2>1, <3>1, <3>2 DEF SkipLine
    <2>2. CASE ApplyLine(p)
        <3>1. /\ Len(w[k + 1]) = Len(h) + 1 /\ journal[k + 1].previous = state[p].digest
              /\ state' = [state EXCEPT ![p] = Stamped(journal[k + 1].history)]
            BY <1>2, <2>2 DEF ApplyLine, Continues, LineRead
        <3>2. w[k + 1] \in History
            BY <1>2, FilesTyped
        <3>3. IsPrefix(h, w[k + 1])
            <4>1. CASE state[p].digest = NoDigest
                BY <3>2, <4>1, EmptyIsPrefix DEF StoreInvariant, SoundProcess
            <4>2. CASE state[p].digest # NoDigest
                BY <1>2, <3>1, <4>2, LineAssumption
                DEF StoreInvariant, SoundProcess, SoundLine, Entry
            <4> QED
                BY <4>1, <4>2
        <3>4. Replayed(b, w, k + 1, w[k + 1])
            <4>1. OneMore(h, w[k + 1])
                BY <3>1, <3>3 DEF OneMore
            <4> HIDE DEF b, w, h, k
            <4> QED
                BY <1>1, <1>2, <1>3, <4>1, FilesTyped, ReplayApplies DEF b, w
        <3>5. Known(w[k + 1])
            BY <1>2, FilesTyped DEF RecoveryInvariant, KnownFiles
        <3>6. state'[p].history = w[k + 1] /\ \A q \in Proc : q # p => state'[q] = state[q]
            BY <1>2, <3>1 DEF Stamped, StoreInvariant, TypeOK
        <3> QED
            BY <3>2, <3>4, <3>5, <3>6
    <2> QED
        BY <2>1, <2>2
<1>6. \A q \in Proc : Placed(q)'
    <2>1. /\ position'[p] = k + 1 /\ job[p] = "none"
          /\ \A q \in Proc : q # p => pc[q] \in Closed /\ job[q] = "none"
        BY <1>1, Alone DEF StoreInvariant, TypeOK, Opened, RecoveryInvariant, Placed, JobFits
    <2>2. Placed(p)'
        <3>1. PICK g \in History :
                /\ state'[p].history = g
                /\ Replayed(b, w, k + 1, g) /\ Known(g)
            BY <1>5
        <3> QED
            BY <1>1, <1>4, <2>1, <3>1
            DEF Placed, JobFits, Known, HistoryOf, diskVars, ghostVars, Opened, Closed, Working
    <2>3. \A q \in Proc : q # p => Placed(q)'
        BY <1>1, <2>1 DEF Placed, JobFits, Opened, Closed, Working
    <2> QED
        BY <2>2, <2>3
<1>7. (IssuedInOrder /\ Known(served) /\ KnownFiles)'
    BY <1>1 DEF RecoveryInvariant, IssuedInOrder, Known, KnownFiles, HistoryOf, diskVars, ghostVars
<1>8. /\ (outage # "now" => Recovers(HistoryOf(snapshot), Written(journal), served))'
      /\ (\E g \in confirmed \cup {<< >>} : \A f \in confirmed : Len(f) <= Len(g))'
    BY <1>1 DEF RecoveryInvariant, HistoryOf, diskVars, ghostVars
<1> QED
    BY <1>6, <1>7, <1>8 DEF RecoveryInvariant

\* A process starts to serve when it has read every entry: what it recovered was
\* served before, or is recorded and one transaction more, and no record of a
\* further transaction is left (replayJournal, truncating an unfinished line).
LEMMA ServedIsRecovered ==
    ASSUME StoreInvariant, RecoveryInvariant, NEW p \in Proc, TruncateTail(p) \/ FinishReplay(p)
    PROVE  /\ Written(journal') = Written(journal) /\ Intact(journal')
           /\ served' = state[p].history /\ served' \in History /\ served' \in Recorded
           /\ Recovers(HistoryOf(snapshot), Written(journal), served')
           /\ \A h \in Recorded : Len(h) <= Len(served')
           /\ outage # "now" => served' = served \/ OneMore(served, served')
<1> DEFINE k == position[p]
           b == HistoryOf(snapshot)
           w == Written(journal)
           h == state[p].history
<1>1. /\ pc[p] = "replay" /\ k \in Nat /\ k <= Len(journal) /\ h \in History
      /\ served' = h /\ served \in History
      /\ Intact(journal) /\ Replayed(b, w, k, h)
    BY DEF TruncateTail, FinishReplay, Reading, Serve, StoreInvariant, TypeOK,
           RecoveryInvariant, KnownFiles, Placed
<1>2. /\ Written(journal') = w /\ Intact(journal')
      /\ \A i \in Entries(journal) : i <= k
    <2>1. CASE FinishReplay(p)
        <3>1. \A i \in Entries(journal) : i <= k
            <4> HIDE DEF k
            <4>1. k >= Len(journal)
                BY <2>1 DEF FinishReplay, k
            <4> QED
                BY <1>1, <4>1, FilesTyped
        <3> QED
            BY <1>1, <2>1, <3>1 DEF FinishReplay, diskVars
    <2>2. CASE TruncateTail(p)
        <3>1. /\ journal[k + 1] = Torn /\ k < Len(journal)
              /\ journal' = SubSeq(journal, 1, k)
            BY <2>2 DEF TruncateTail, Reading, LineRead, LinesKept
        <3> HIDE DEF k, b, w, h
        <3>2. k + 1 \in DOMAIN journal /\ k \in 0..Len(journal)
            BY <1>1, <3>1, FilesTyped, LenProperties
        <3>3. k + 1 = Len(journal)
            BY <1>1, <3>1, <3>2 DEF Intact
        <3>4. k + 1 \notin Entries(journal)
            BY <3>1 DEF Entries, IsEntry
        <3>5. \A i \in Entries(journal) : i <= k
            BY <1>1, <3>3, <3>4, FilesTyped
        <3>6. /\ journal' \in Seq(Line) /\ Intact(journal')
              /\ Entries(journal') = {i \in Entries(journal) : i <= k}
              /\ \A i \in Entries(journal') : Written(journal')[i] = Written(journal)[i]
            BY <1>1, <3>1, <3>2, FilesTyped, CutJournal
        <3>7. Entries(journal') = Entries(journal)
            BY <3>5, <3>6
        <3>8. /\ Written(journal') \in [Entries(journal') -> History]
              /\ Written(journal) \in [Entries(journal) -> History]
            BY <3>6, FilesTyped, WrittenTyped
        <3>9. Written(journal') = Written(journal)
            BY <3>6, <3>7, <3>8
        <3> QED
            BY <3>5, <3>6, <3>9 DEF w
    <2> QED
        BY <2>1, <2>2
<1> HIDE DEF k, b, w, h
<1>3. /\ b \in History /\ Entries(journal) \in SUBSET Nat
      /\ w \in [Entries(journal) -> History] /\ DOMAIN w = Entries(journal)
      /\ Recorded = {b} \cup {w[i] : i \in DOMAIN w}
    BY FilesTyped DEF b, w, Recorded, Range
<1>4. /\ Recovers(b, w, h) /\ Len(b) <= Len(h)
      /\ \A i \in Entries(journal) : Len(w[i]) <= Len(h)
    BY <1>1, <1>2, <1>3, ReplayRecovers
<1>5. \A g \in Recorded : Len(g) <= Len(h)
    BY <1>3, <1>4
<1>6. h \in Recorded
    <2>1. CASE Len(b) = Len(h)
        BY <1>1, <1>3, <2>1, PrefixShorter DEF Replayed
    <2>2. CASE Len(b) # Len(h)
        <3>1. Len(b) < Len(h)
            BY <1>1, <1>3, <1>4, <2>2, Lengths
        <3> QED
            BY <1>1, <1>3, <3>1 DEF Replayed
    <2> QED
        BY <2>1, <2>2
<1>7. outage # "now" => h = served \/ OneMore(served, h)
    <2>1. SUFFICES ASSUME outage # "now" PROVE h = served \/ OneMore(served, h)
        OBVIOUS
    <2>2. Recovers(b, w, served)
        BY <2>1 DEF RecoveryInvariant, b, w
    <2> QED
        BY <1>1, <1>2, <1>3, <2>2, ReplayFinds
<1> QED
    BY <1>1, <1>2, <1>4, <1>5, <1>6, <1>7 DEF h, b, w

\* What is served from then on can be recovered.
LEMMA ServingRecovers ==
    ASSUME StoreInvariant, RecoveryInvariant, NEW p \in Proc, TruncateTail(p) \/ FinishReplay(p)
    PROVE  RecoveryInvariant'
<1>1. /\ pc[p] = "replay" /\ pc' = [pc EXCEPT ![p] = "idle"] /\ outage' # "now"
      /\ UNCHANGED <<snapshot, dirSnapshots, dirJournals, job, state, next, position,
                     issued, confirmed>>
    BY DEF TruncateTail, FinishReplay, Reading, Serve, diskVars
<1>2. /\ Written(journal') = Written(journal) /\ Intact(journal')
      /\ served' = state[p].history
      /\ Recovers(HistoryOf(snapshot), Written(journal), served')
    BY ServedIsRecovered
<1>3. Known(state[p].history) /\ job[p] = "none"
    BY <1>1 DEF RecoveryInvariant, Placed, JobFits, Opened
<1>4. \A q \in Proc : Placed(q)'
    <2>1. Placed(p)'
        BY <1>1, <1>2, <1>3
        DEF Placed, JobFits, Known, StoreInvariant, TypeOK, Opened, Closed, Working
    <2>2. \A q \in Proc : q # p => pc'[q] \in Closed /\ job'[q] = "none"
        BY <1>1, Alone DEF StoreInvariant, TypeOK, Opened
    <2>3. \A q \in Proc : q # p => Placed(q)'
        BY <2>2 DEF Placed, JobFits, Opened, Closed, Working
    <2> QED
        BY <2>1, <2>3
<1>5. (IssuedInOrder /\ KnownFiles)'
    BY <1>1, <1>2 DEF RecoveryInvariant, IssuedInOrder, Known, KnownFiles, HistoryOf
<1>6. Known(served)'
    BY <1>1, <1>2, <1>3 DEF Known
<1>7. /\ (outage # "now" => Recovers(HistoryOf(snapshot), Written(journal), served))'
      /\ (\E g \in confirmed \cup {<< >>} : \A f \in confirmed : Len(f) <= Len(g))'
    BY <1>1, <1>2 DEF RecoveryInvariant, HistoryOf
<1> QED
    BY <1>4, <1>5, <1>6, <1>7 DEF RecoveryInvariant

\* A transaction asked for now is in no history issued before: histories are issued
\* one transaction at a time, and each transaction once.
LEMMA NewTransaction ==
    ASSUME StoreInvariant, RecoveryInvariant, NEW p \in Proc, NEW t \in Txn, BeginUpdate(p, t)
    PROVE  \A h \in issued : ~IsPrefix(Append(state[p].history, t), h)
<1> SUFFICES ASSUME NEW h \in issued, IsPrefix(Append(state[p].history, t), h) PROVE FALSE
    OBVIOUS
<1> DEFINE n == Append(state[p].history, t)
           m == Len(state[p].history) + 1
<1>1. h \in History /\ n \in History /\ Len(h) \in Nat /\ m \in Nat /\ m >= 1
      /\ \A g \in issued : g \in History
    <2>1. state[p].history \in History /\ issued \subseteq History
        BY DEF StoreInvariant, TypeOK
    <2>2. n \in History
        BY <2>1, PrefixAppend
    <2>3. Len(state[p].history) \in Nat /\ Len(h) \in Nat
        BY <2>1, Lengths
    <2> HIDE DEF n
    <2> QED
        BY <2>1, <2>2, <2>3
<1>2. Len(n) = m /\ n[m] = t
    BY AppendProperties DEF StoreInvariant, TypeOK, History
<1> HIDE DEF n, m
<1>3. m <= Len(h) /\ \A i \in 1..m : n[i] = h[i]
    BY <1>1, <1>2, PrefixByIndex DEF n
<1>4. m \in 1..Len(h) /\ m \in 1..m
    BY <1>1, <1>3
<1>5. PICK g \in issued : Len(g) = m /\ IsPrefix(g, h)
    BY <1>4 DEF RecoveryInvariant, IssuedInOrder
<1>6. g[m] = h[m]
    BY <1>1, <1>4, <1>5, PrefixByIndex
<1>7. t = g[Len(g)]
    BY <1>2, <1>3, <1>4, <1>5, <1>6
<1> QED
    BY <1>7 DEF BeginUpdate

\* A call starts to commit one transaction more, which no issued history continues.
LEMMA BeginUpdateRecovers ==
    ASSUME StoreInvariant, RecoveryInvariant, NEW p \in Proc, NEW t \in Txn, BeginUpdate(p, t)
    PROVE  RecoveryInvariant'
<1> DEFINE s == state[p].history
           n == Append(s, t)
<1>1. /\ pc[p] = "idle" /\ pc' = [pc EXCEPT ![p] = "write"]
      /\ issued' = issued \cup {n} /\ next' = [next EXCEPT ![p] = n]
      /\ job' = [job EXCEPT ![p] = "update"]
      /\ UNCHANGED <<diskVars, state, position, confirmed, served, outage>>
    BY DEF BeginUpdate
<1>2. /\ s \in History /\ n \in History /\ IsPrefix(s, n) /\ n # << >>
      /\ Len(n) = Len(s) + 1 /\ IsPrefix(n, n)
    <2>1. s \in History /\ n \in History /\ IsPrefix(s, n) /\ IsPrefix(n, n)
        BY PrefixAppend, PrefixReflexive DEF StoreInvariant, TypeOK
    <2>2. Len(n) = Len(s) + 1
        BY <2>1, AppendProperties DEF History
    <2> QED
        BY <2>1, <2>2, Lengths
<1>3. \A h \in issued : ~IsPrefix(n, h)
    BY NewTransaction
<1>4. Known(s) /\ s = served /\ outage # "now"
    BY <1>1 DEF RecoveryInvariant, Placed, Opened
<1> HIDE DEF n, s
<1>5. IssuedInOrder'
    <2>1. ASSUME NEW i \in 1..Len(n)
          PROVE  \E g \in issued' : Len(g) = i /\ IsPrefix(g, n)
        <3>1. CASE i = Len(n)
            BY <1>1, <1>2, <3>1
        <3>2. CASE i # Len(n)
            <4>1. i \in 1..Len(s) /\ s # << >>
                BY <1>2, <3>2, Lengths
            <4>2. s \in issued
                BY <1>4, <4>1 DEF Known
            <4>3. PICK g \in issued : Len(g) = i /\ IsPrefix(g, s)
                BY <4>1, <4>2 DEF RecoveryInvariant, IssuedInOrder
            <4>4. g \in History
                BY <4>3 DEF StoreInvariant, TypeOK
            <4> QED
                BY <1>1, <1>2, <4>3, <4>4, PrefixTransitive
        <3> QED
            BY <3>1, <3>2
    <2> QED
        BY <1>1, <1>2, <2>1 DEF RecoveryInvariant, IssuedInOrder
<1>6. (Known(served) /\ KnownFiles)'
    BY <1>1 DEF RecoveryInvariant, Known, KnownFiles, HistoryOf, diskVars
<1>7. \A q \in Proc : Placed(q)'
    <2>1. Placed(p)'
        <3>1. /\ pc'[p] = "write" /\ job'[p] = "update" /\ next'[p] = n
              /\ state'[p].history = s
            BY <1>1 DEF StoreInvariant, TypeOK, s
        <3>2. \A h \in issued' : ~IsStrictPrefix(n, h)
            BY <1>1, <1>3 DEF IsStrictPrefix
        <3> QED
            BY <1>1, <1>2, <1>4, <3>1, <3>2
            DEF Placed, JobFits, OneMore, Known, Opened, Closed, Working
    <2>2. \A q \in Proc : q # p => pc'[q] \in Closed /\ job'[q] = "none"
        BY <1>1, Alone DEF StoreInvariant, TypeOK, Opened
    <2>3. \A q \in Proc : q # p => Placed(q)'
        BY <2>2 DEF Placed, JobFits, Opened, Closed, Working
    <2> QED
        BY <2>1, <2>3
<1>8. /\ (outage # "now" => Recovers(HistoryOf(snapshot), Written(journal), served))'
      /\ (\E g \in confirmed \cup {<< >>} : \A f \in confirmed : Len(f) <= Len(g))'
    BY <1>1 DEF RecoveryInvariant, HistoryOf, diskVars
<1> QED
    BY <1>5, <1>6, <1>7, <1>8 DEF RecoveryInvariant

\* An entry written for the call adds one transaction to what is served, or is
\* spoilt by the unfinished line it lands on.
LEMMA WriteEntryRecovers ==
    ASSUME StoreInvariant, RecoveryInvariant, NEW p \in Proc, WriteEntry(p)
    PROVE  RecoveryInvariant'
<1> DEFINE e == [previous |-> state[p].digest, history |-> next[p]]
           b == HistoryOf(snapshot)
           w == Written(journal)
           v == Written(journal')
<1>1. /\ pc[p] = "write" /\ pc' = [pc EXCEPT ![p] = "sync"] /\ journal' = AppendLine(journal, e)
      /\ UNCHANGED <<snapshot, dirSnapshots, synced, dirJournals, job, state, next,
                     position, ghostVars>>
    BY DEF WriteEntry
<1>2. /\ Intact(journal) /\ job[p] = "update" /\ state[p].history = served /\ outage # "now"
      /\ OneMore(served, next[p]) /\ next[p] \in issued /\ Recovers(b, w, served)
    BY <1>1 DEF RecoveryInvariant, KnownFiles, Placed, JobFits, Working
<1>3. e \in Entry /\ next[p] \in History /\ served \in History
    BY DEF Entry, StoreInvariant, TypeOK
<1> HIDE DEF e, b
<1>4. Intact(journal') /\ Recovers(b, v, served) /\ \A i \in DOMAIN v : Known(v[i])
    <2>1. \A i \in DOMAIN w : Known(w[i])
        BY DEF RecoveryInvariant, KnownFiles
    <2>2. Intact(journal')
        BY <1>1, <1>2, <1>3, FilesTyped, WrittenAppends
    <2>3. CASE EndsTorn(journal)
        BY <1>1, <1>2, <1>3, <2>1, <2>2, <2>3, FilesTyped, WrittenAppends
    <2>4. CASE ~EndsTorn(journal)
        <3>1. /\ Entries(journal') = Entries(journal) \cup {Len(journal) + 1}
              /\ \A i \in Entries(journal) : v[i] = w[i]
              /\ v[Len(journal) + 1] = next[p]
            BY <1>1, <1>2, <1>3, <2>4, FilesTyped, WrittenAppends DEF e
        <3>2. v \in [Entries(journal') -> History] /\ DOMAIN v = Entries(journal')
            <4>1. Torn \in Line /\ Garbled \in Line /\ e \in Line
                BY <1>3 DEF Line
            <4>2. journal' \in Seq(Line)
                BY <1>1, <4>1, FilesTyped, JournalEdits, 0 \in Nat
            <4> QED
                BY <4>2, WrittenTyped
        <3>3. Known(next[p]) /\ Len(next[p]) = Len(served) + 1
            BY <1>2 DEF Known, OneMore
        <3>4. \A i \in DOMAIN v : Known(v[i])
            BY <2>1, <3>1, <3>2, <3>3, FilesTyped
        <3> HIDE DEF v, w
        <3>5. /\ Entries(journal) \in SUBSET Nat /\ Entries(journal') \in SUBSET Nat
              /\ Entries(journal) \subseteq Entries(journal')
            BY <3>1, FilesTyped
        <3>6. \A i \in Entries(journal') \ Entries(journal) :
                Len(v[i]) = Len(served) + 1 /\ \A d \in Entries(journal) : d < i
            BY <3>1, <3>3, FilesTyped
        <3>7. w \in [Entries(journal) -> History] /\ b \in History
            BY FilesTyped DEF w, b
        <3>8. Recovers(b, v, served)
            BY <1>2, <1>3, <3>1, <3>2, <3>5, <3>6, <3>7, RecoversAppend
        <3> QED
            BY <2>2, <3>4, <3>8
    <2> QED
        BY <2>3, <2>4
<1> HIDE DEF v, w
<1>5. \A q \in Proc : Placed(q)'
    <2>1. Placed(p)'
        BY <1>1, <1>2
        DEF RecoveryInvariant, Placed, JobFits, Known, StoreInvariant, TypeOK, ghostVars,
            Opened, Closed, Working
    <2>2. \A q \in Proc : q # p => pc'[q] \in Closed /\ job'[q] = "none"
        BY <1>1, Alone DEF StoreInvariant, TypeOK, Opened, Working
    <2>3. \A q \in Proc : q # p => Placed(q)'
        BY <2>2 DEF Placed, JobFits, Opened, Closed, Working
    <2> QED
        BY <2>1, <2>3
<1>6. (IssuedInOrder /\ Known(served))'
    BY <1>1 DEF RecoveryInvariant, IssuedInOrder, Known, ghostVars
<1>7. KnownFiles'
    BY <1>1, <1>4 DEF RecoveryInvariant, KnownFiles, Known, HistoryOf, ghostVars, v
<1>8. /\ (outage # "now" => Recovers(HistoryOf(snapshot), Written(journal), served))'
      /\ (\E g \in confirmed \cup {<< >>} : \A f \in confirmed : Len(f) <= Len(g))'
    BY <1>1, <1>4 DEF RecoveryInvariant, HistoryOf, ghostVars, b, v
<1> QED
    BY <1>5, <1>6, <1>7, <1>8 DEF RecoveryInvariant

\* A snapshot put in place holds what is served, or the transaction being committed
\* on top of it.
LEMMA ReplaceSnapshotRecovers ==
    ASSUME StoreInvariant, RecoveryInvariant, NEW p \in Proc, ReplaceSnapshot(p)
    PROVE  RecoveryInvariant'
<1> DEFINE s == SnapshotOf(p)
<1>1. /\ pc[p] = "snapshot" /\ pc' = [pc EXCEPT ![p] = "dirsync"]
      /\ snapshot' = s /\ dirSnapshots' = dirSnapshots \cup {s}
      /\ UNCHANGED <<journal, synced, dirJournals, job, state, next, position, ghostVars>>
    BY DEF ReplaceSnapshot
<1>2. /\ state[p].history = served /\ outage # "now" /\ job[p] # "none" /\ Known(served)
      /\ job[p] = "update" => OneMore(served, next[p]) /\ next[p] \in issued
      /\ s \in History /\ served \in History
    BY <1>1 DEF RecoveryInvariant, Placed, JobFits, Working, SnapshotOf, StoreInvariant, TypeOK
<1>3. (s = served \/ OneMore(served, s)) /\ Known(s)
    BY <1>2 DEF SnapshotOf, Known
<1> HIDE DEF s
<1>4. HistoryOf(s) = s
    BY <1>2, NoSnapshotAssumption DEF HistoryOf, History
<1>5. Recovers(s, Written(journal), served)
    <2>1. \A i \in Entries(journal) : Len(Written(journal)[i]) <= Len(served) + 1
        BY <1>2, FilesTyped DEF RecoveryInvariant, Recovers
    <2> QED
        BY <1>2, <1>3, <2>1, FilesTyped, SnapshotRecovers
<1>6. \A q \in Proc : Placed(q)'
    <2>1. Placed(p)'
        BY <1>1, <1>2
        DEF RecoveryInvariant, Placed, JobFits, Known, StoreInvariant, TypeOK, ghostVars,
            Opened, Closed, Working
    <2>2. \A q \in Proc : q # p => pc'[q] \in Closed /\ job'[q] = "none"
        BY <1>1, Alone DEF StoreInvariant, TypeOK, Opened, Working
    <2>3. \A q \in Proc : q # p => Placed(q)'
        BY <2>2 DEF Placed, JobFits, Opened, Closed, Working
    <2> QED
        BY <2>1, <2>3
<1>7. (IssuedInOrder /\ Known(served))'
    BY <1>1 DEF RecoveryInvariant, IssuedInOrder, Known, ghostVars
<1>8. KnownFiles'
    BY <1>1, <1>3, <1>4 DEF RecoveryInvariant, KnownFiles, Known, HistoryOf, ghostVars
<1>9. /\ (outage # "now" => Recovers(HistoryOf(snapshot), Written(journal), served))'
      /\ (\E g \in confirmed \cup {<< >>} : \A f \in confirmed : Len(f) <= Len(g))'
    BY <1>1, <1>4, <1>5 DEF RecoveryInvariant, HistoryOf, ghostVars
<1> QED
    BY <1>6, <1>7, <1>8, <1>9 DEF RecoveryInvariant

\* The transaction confirmed is in the snapshot, and is the longest confirmed.
LEMMA CommitRecovers ==
    ASSUME StoreInvariant, RecoveryInvariant, NEW p \in Proc, CommitUpdate(p)
    PROVE  RecoveryInvariant'
<1>1. /\ pc[p] = "dirsync" /\ job[p] = "update"
      /\ snapshot' = snapshot /\ dirSnapshots' = {snapshot} /\ dirJournals' = {}
      /\ UNCHANGED <<journal, synced, next, position, issued, outage>>
      /\ state' = [state EXCEPT ![p] = Stamped(next[p])]
      /\ confirmed' = confirmed \cup {next[p]} /\ served' = next[p]
      /\ pc' = [pc EXCEPT ![p] = "idle"] /\ job' = [job EXCEPT ![p] = "none"]
    BY DEF CommitUpdate, Committed, DirectorySynced
<1>2. /\ state[p].history = served /\ outage # "now" /\ OneMore(served, next[p])
      /\ next[p] \in issued /\ next[p] \in History /\ served \in History
      /\ snapshot = next[p]
    BY <1>1 DEF RecoveryInvariant, Placed, Working, StoreInvariant, TypeOK, SoundProcess, SnapshotOf
<1>3. HistoryOf(snapshot) = next[p] /\ HistoryOf(snapshot) \in History
    BY <1>2, NoSnapshotAssumption DEF HistoryOf, History
<1>4. Recovers(next[p], Written(journal), next[p])
    <2>1. Len(next[p]) = Len(served) + 1 /\ Len(served) \in Nat
        BY <1>2, Lengths DEF OneMore
    <2>2. \A i \in Entries(journal) : Len(Written(journal)[i]) <= Len(served) + 1
        BY <1>2, FilesTyped DEF RecoveryInvariant, Recovers
    <2>3. \A i \in Entries(journal) : Len(Written(journal)[i]) \in Nat
        BY FilesTyped, Lengths
    <2>4. \A i \in Entries(journal) : Len(Written(journal)[i]) <= Len(next[p]) + 1
        BY <2>1, <2>2, <2>3
    <2> QED
        BY <1>2, <2>4, FilesTyped, SnapshotRecovers
<1>5. \A q \in Proc : Placed(q)'
    <2>1. Placed(p)'
        <3>1. pc'[p] = "idle" /\ job'[p] = "none" /\ state'[p].history = next[p]
            BY <1>1 DEF StoreInvariant, TypeOK, Stamped
        <3> QED
            BY <1>1, <1>2, <3>1 DEF Placed, JobFits, Known, Opened, Closed, Working
    <2>2. \A q \in Proc : q # p => pc'[q] \in Closed /\ job'[q] = "none"
        BY <1>1, Alone DEF StoreInvariant, TypeOK, Opened, Working
    <2>3. \A q \in Proc : q # p => Placed(q)'
        BY <2>2 DEF Placed, JobFits, Opened, Closed, Working
    <2> QED
        BY <2>1, <2>3
<1>6. (IssuedInOrder /\ Known(served))'
    BY <1>1, <1>2 DEF RecoveryInvariant, IssuedInOrder, Known
<1>7. KnownFiles'
    BY <1>1, <1>2, <1>3 DEF RecoveryInvariant, KnownFiles, Known, HistoryOf
<1>8. \A g \in confirmed' : Len(g) <= Len(next[p])
    <2>1. ASSUME NEW g \in confirmed PROVE Len(g) <= Len(next[p])
        <3>1. g \in History /\ IsPrefix(g, HistoryOf(snapshot))
            BY DEF StoreInvariant, TypeOK, ConfirmedIsDurable
        <3> QED
            BY <1>2, <1>3, <3>1, PrefixShorter
    <2>2. Len(next[p]) <= Len(next[p])
        BY <1>2, Lengths
    <2> QED
        BY <1>1, <2>1, <2>2
<1>9. (\E g \in confirmed \cup {<< >>} : \A f \in confirmed : Len(f) <= Len(g))'
    BY <1>1, <1>8
<1>10. (outage # "now" => Recovers(HistoryOf(snapshot), Written(journal), served))'
    BY <1>1, <1>3, <1>4 DEF HistoryOf
<1> QED
    BY <1>5, <1>6, <1>7, <1>9, <1>10 DEF RecoveryInvariant

\* Close and Compact sync the directory with the snapshot of what is served.
LEMMA DirectorySyncRecovers ==
    ASSUME StoreInvariant, RecoveryInvariant, NEW p \in Proc, FinishClose(p) \/ CompactSynced(p)
    PROVE  RecoveryInvariant'
<1>1. /\ pc[p] = "dirsync" /\ job[p] \in {"close", "compact"}
      /\ snapshot' = snapshot /\ dirSnapshots' = {snapshot} /\ dirJournals' = {}
      /\ UNCHANGED <<journal, synced, state, next, position, ghostVars>>
      /\ snapshot \in dirSnapshots
    BY DEF FinishClose, CompactSynced, DirectorySynced, StoreInvariant, SoundDisk
<1>2. /\ state[p].history = served /\ outage # "now" /\ snapshot = state[p].history
      /\ Known(served)
    BY <1>1 DEF RecoveryInvariant, Placed, Working, StoreInvariant, SoundProcess, SnapshotOf
<1>3. \/ pc' = [pc EXCEPT ![p] = "down"] /\ job' = [job EXCEPT ![p] = "none"]
      \/ pc' = [pc EXCEPT ![p] = "rotate"] /\ job' = job /\ job[p] = "compact"
    BY DEF FinishClose, CompactSynced
<1>4. \A q \in Proc : Placed(q)'
    <2>1. Placed(p)'
        BY <1>1, <1>2, <1>3
        DEF Placed, JobFits, Known, StoreInvariant, TypeOK, ghostVars, Opened, Closed, Working
    <2>2. \A q \in Proc : q # p => pc'[q] \in Closed /\ job'[q] = "none"
        BY <1>1, <1>3, Alone DEF StoreInvariant, TypeOK, Opened, Working
    <2>3. \A q \in Proc : q # p => Placed(q)'
        BY <2>2 DEF Placed, JobFits, Opened, Closed, Working
    <2> QED
        BY <2>1, <2>3
<1>5. (IssuedInOrder /\ Known(served) /\ KnownFiles)'
    BY <1>1 DEF RecoveryInvariant, IssuedInOrder, Known, KnownFiles, HistoryOf, ghostVars
<1>6. /\ (outage # "now" => Recovers(HistoryOf(snapshot), Written(journal), served))'
      /\ (\E g \in confirmed \cup {<< >>} : \A f \in confirmed : Len(f) <= Len(g))'
    BY <1>1 DEF RecoveryInvariant, HistoryOf, ghostVars
<1> QED
    BY <1>4, <1>5, <1>6 DEF RecoveryInvariant

\* Compact rotates the journal away only when the snapshot holds what is served.
LEMMA RotateRecovers ==
    ASSUME StoreInvariant, RecoveryInvariant, NEW p \in Proc, RotateJournal(p)
    PROVE  RecoveryInvariant'
<1>1. /\ pc[p] = "rotate" /\ journal' = << >>
      /\ dirJournals' = dirJournals \cup Survivors(journal, synced)
      /\ pc' = [pc EXCEPT ![p] = "idle"] /\ job' = [job EXCEPT ![p] = "none"]
      /\ UNCHANGED <<snapshot, dirSnapshots, state, next, position, ghostVars>>
    BY DEF RotateJournal
<1>2. /\ state[p].history = served /\ outage # "now" /\ snapshot = state[p].history
      /\ Known(served) /\ served \in History /\ synced \in Nat
      /\ Intact(journal) /\ \A i \in DOMAIN Written(journal) : Known(Written(journal)[i])
    BY <1>1 DEF RecoveryInvariant, Placed, JobFits, KnownFiles, Working, StoreInvariant, TypeOK
<1>3. HistoryOf(snapshot) = served
    BY <1>2, NoSnapshotAssumption DEF HistoryOf, History
<1>4. /\ Entries(<< >>) = {} /\ DOMAIN Written(<< >>) = {} /\ Intact(<< >>)
      /\ Written(<< >>) \in [{} -> History]
    BY DEF Entries, Written, Intact
<1>5. Recovers(served, Written(<< >>), served)
    BY <1>2, <1>4, SnapshotRecovers
<1>6. KnownFiles'
    <2>1. ASSUME NEW r \in Survivors(journal, synced)
          PROVE  Intact(r) /\ \A i \in DOMAIN Written(r) : Known(Written(r)[i])
        <3>1. /\ Intact(r) /\ r \in Seq(Line) /\ Entries(r) \subseteq Entries(journal)
              /\ \A i \in Entries(r) : Written(r)[i] = Written(journal)[i]
            BY <1>2, FilesTyped, SurvivingEntries
        <3>2. DOMAIN Written(r) = Entries(r)
            BY <3>1, WrittenTyped
        <3> QED
            BY <1>2, <3>1, <3>2, FilesTyped
    <2> QED
        BY <1>1, <1>4, <2>1 DEF RecoveryInvariant, KnownFiles, Known, HistoryOf, ghostVars
<1>7. \A q \in Proc : Placed(q)'
    <2>1. Placed(p)'
        BY <1>1, <1>2
        DEF Placed, JobFits, Known, StoreInvariant, TypeOK, ghostVars, Opened, Closed, Working
    <2>2. \A q \in Proc : q # p => pc'[q] \in Closed /\ job'[q] = "none"
        BY <1>1, Alone DEF StoreInvariant, TypeOK, Opened, Working
    <2>3. \A q \in Proc : q # p => Placed(q)'
        BY <2>2 DEF Placed, JobFits, Opened, Closed, Working
    <2> QED
        BY <2>1, <2>3
<1>8. (IssuedInOrder /\ Known(served))'
    BY <1>1 DEF RecoveryInvariant, IssuedInOrder, Known, ghostVars
<1>9. /\ (outage # "now" => Recovers(HistoryOf(snapshot), Written(journal), served))'
      /\ (\E g \in confirmed \cup {<< >>} : \A f \in confirmed : Len(f) <= Len(g))'
    BY <1>1, <1>3, <1>5 DEF RecoveryInvariant, HistoryOf, ghostVars
<1> QED
    BY <1>6, <1>7, <1>8, <1>9 DEF RecoveryInvariant

\* A power loss leaves files made of issued histories, and every process down.
LEMMA PowerLossRecovers ==
    ASSUME StoreInvariant, RecoveryInvariant, PowerLoss
    PROVE  RecoveryInvariant'
<1>1. /\ snapshot' \in dirSnapshots /\ dirSnapshots' = {snapshot'}
      /\ journal' \in dirJournals \cup Survivors(journal, synced) /\ dirJournals' = {}
      /\ pc' = [p \in Proc |-> "down"] /\ job' = [p \in Proc |-> "none"] /\ outage' = "now"
      /\ UNCHANGED <<state, next, position, issued, confirmed, served>>
    BY DEF PowerLoss
<1>2. /\ synced \in Nat /\ Intact(journal)
      /\ \A i \in DOMAIN Written(journal) : Known(Written(journal)[i])
    BY DEF RecoveryInvariant, KnownFiles, StoreInvariant, TypeOK
<1>3. Intact(journal') /\ \A i \in DOMAIN Written(journal') : Known(Written(journal')[i])
    <2>1. CASE journal' \in dirJournals
        BY <2>1 DEF RecoveryInvariant, KnownFiles
    <2>2. CASE journal' \in Survivors(journal, synced)
        <3>1. /\ Intact(journal') /\ journal' \in Seq(Line)
              /\ Entries(journal') \subseteq Entries(journal)
              /\ \A i \in Entries(journal') : Written(journal')[i] = Written(journal)[i]
            BY <1>2, <2>2, FilesTyped, SurvivingEntries
        <3>2. DOMAIN Written(journal') = Entries(journal')
            BY <3>1, WrittenTyped
        <3> QED
            BY <1>2, <3>1, <3>2, FilesTyped
    <2> QED
        BY <1>1, <2>1, <2>2
<1>4. KnownFiles'
    BY <1>1, <1>3 DEF RecoveryInvariant, KnownFiles, Known, HistoryOf
<1>5. \A p \in Proc : Placed(p)'
    BY <1>1 DEF Placed, JobFits, Opened, Closed, Working
<1>6. (IssuedInOrder /\ Known(served))'
    BY <1>1 DEF RecoveryInvariant, IssuedInOrder, Known
<1>7. (\E g \in confirmed \cup {<< >>} : \A f \in confirmed : Len(f) <= Len(g))'
    BY <1>1 DEF RecoveryInvariant
<1> QED
    BY <1>1, <1>4, <1>5, <1>6, <1>7 DEF RecoveryInvariant

\* Every step keeps it when one process runs at a time.
LEMMA NextRecovers ==
    ASSUME Exclusive, StoreInvariant, RecoveryInvariant, [Next]_vars
    PROVE  RecoveryInvariant'
<1>1. ASSUME NEW p \in Proc, Step(p)
      PROVE  RecoveryInvariant'
    BY <1>1, QuietActionsRecover, OpenRecovers, ReadingRecovers, ServingRecovers,
       BeginUpdateRecovers, WriteEntryRecovers, ReplaceSnapshotRecovers, CommitRecovers,
       DirectorySyncRecovers, RotateRecovers DEF Step
<1>2. CASE PowerLoss
    BY <1>2, PowerLossRecovers
<1>3. CASE UNCHANGED vars
    <2>1. (IssuedInOrder /\ KnownFiles /\ Known(served))'
        BY <1>3 DEF vars, diskVars, ghostVars, RecoveryInvariant, IssuedInOrder, KnownFiles,
                    Known, HistoryOf
    <2>2. (\A p \in Proc : Placed(p))'
        BY <1>3 DEF vars, diskVars, ghostVars, RecoveryInvariant, Placed, JobFits, Known, HistoryOf
    <2>3. /\ (outage # "now" => Recovers(HistoryOf(snapshot), Written(journal), served))'
          /\ (\E g \in confirmed \cup {<< >>} : \A f \in confirmed : Len(f) <= Len(g))'
        BY <1>3 DEF vars, diskVars, ghostVars, RecoveryInvariant, HistoryOf
    <2> QED
        BY <2>1, <2>2, <2>3 DEF RecoveryInvariant
<1> QED
    BY <1>1, <1>2, <1>3 DEF Next

\* With one process at a time, what is served can be recovered from the files, or
\* one transaction more, in every state that no power loss is still to be
\* recovered from; and what the files hold after one was asked for.
THEOREM FilesHoldWhatIsServed == ASSUME Exclusive PROVE Spec => []RecoveryInvariant
<1>1. Spec => []StoreInvariant
    BY StoreIsSound
<1>2. StoreInvariant /\ RecoveryInvariant /\ [Next]_vars => RecoveryInvariant'
    BY NextRecovers
<1> QED
    BY <1>1, <1>2, InitRecovers, PTL DEF Spec

\* Readers never lose what they were shown, but for the first recovery after a
\* power loss (Open serves what it recovered, Update what it committed).
THEOREM ReadersSeeGrowth == ASSUME Exclusive PROVE Spec => ServedOnlyGrows
<1>1. ASSUME StoreInvariant, RecoveryInvariant, [Next]_vars
      PROVE  IsPrefix(served, served') \/ outage = "now"
    <2>1. served \in History /\ IsPrefix(served, served)
        BY <1>1, PrefixReflexive DEF StoreInvariant, TypeOK
    <2>2. ASSUME NEW p \in Proc, TruncateTail(p) \/ FinishReplay(p)
          PROVE  IsPrefix(served, served') \/ outage = "now"
        BY <1>1, <2>1, <2>2, ServedIsRecovered DEF OneMore
    <2>3. ASSUME NEW p \in Proc, CommitUpdate(p)
          PROVE  IsPrefix(served, served')
        BY <1>1, <2>3 DEF CommitUpdate, RecoveryInvariant, Placed, Working, OneMore
    <2>4. ASSUME NEW p \in Proc, Step(p), ~TruncateTail(p), ~FinishReplay(p), ~CommitUpdate(p)
          PROVE  served' = served
        BY <2>4 DEF Step, Open, SkipLine, ApplyLine, RefuseLine, BeginUpdate, WriteEntry,
                    WriteFails, SyncJournal, SyncJournalFails, ReplaceSnapshot, SnapshotFails,
                    SyncDirectoryFails, BeginClose, FinishClose, BeginCompact, CompactSynced,
                    RotateJournal, RotateFails, Crash, ghostVars
    <2>5. PowerLoss \/ UNCHANGED vars => served' = served
        BY DEF PowerLoss, vars, ghostVars
    <2> QED
        BY <1>1, <2>1, <2>2, <2>3, <2>4, <2>5 DEF Next
<1>2. Spec => []StoreInvariant /\ []RecoveryInvariant
    BY StoreIsSound, FilesHoldWhatIsServed
<1>3. StoreInvariant /\ RecoveryInvariant /\ [Next]_vars
        => [IsPrefix(served, served') \/ outage = "now"]_vars
    BY <1>1
<1> QED
    BY <1>2, <1>3, PTL DEF Spec, ServedOnlyGrows

-----------------------------------------------------------------------------
(* The store implements the ledger.                                        *)

\* The longest confirmed history is one of them, or none, and every process that
\* has the directory open holds it.
LEMMA LongestIsConfirmed ==
    ASSUME StoreInvariant, RecoveryInvariant
    PROVE  /\ LongestConfirmed \in confirmed \cup {<< >>}
           /\ LongestConfirmed \in History
           /\ \A g \in confirmed : Len(g) <= Len(LongestConfirmed)
           /\ \A p \in Proc : pc[p] \in Opened => IsPrefix(LongestConfirmed, state[p].history)
<1>1. /\ LongestConfirmed \in confirmed \cup {<< >>}
      /\ \A g \in confirmed : Len(g) <= Len(LongestConfirmed)
    BY DEF RecoveryInvariant, LongestConfirmed
<1>2. LongestConfirmed \in History
    BY <1>1, Lengths DEF StoreInvariant, TypeOK
<1>3. \A p \in Proc : pc[p] \in Opened => IsPrefix(LongestConfirmed, state[p].history)
    BY <1>1, EmptyIsPrefix DEF StoreInvariant, TypeOK, ConfirmedIsDurable
<1> QED
    BY <1>1, <1>2, <1>3

\* A new directory is an empty ledger.
LEMMA LedgerInit == Init => TheLedger!Init
<1> SUFFICES ASSUME Init PROVE TheLedger!Init
    OBVIOUS
<1>1. LongestConfirmed = << >>
    BY DEF Init, LongestConfirmed
<1>2. InDoubt = {}
    <2>1. Written(<< >>) = << >> /\ Range(Written(<< >>)) = {}
        BY EmptySeq DEF Written, Entries, Range
    <2>2. Recorded = {<< >>}
        BY <2>1 DEF Init, Recorded, HistoryOf
    <2>3. ~OneMore(<< >>, << >>)
        BY Lengths DEF OneMore
    <2> QED
        BY <2>2, <2>3 DEF Init, InDoubt
<1>3. Asked = {} /\ Up = FALSE /\ (outage = "now") = FALSE /\ served = << >>
    BY DEF Init, Asked, Up, Serving, Working
<1> QED
    BY <1>1, <1>2, <1>3 DEF TheLedger!Init

\* Which processes can serve while p has the directory open.
LEMMA UpAlone ==
    ASSUME StoreInvariant, RecoveryInvariant, NEW p \in Proc, pc[p] \in Opened,
           NEW c, NEW j, pc' = [pc EXCEPT ![p] = c], job' = [job EXCEPT ![p] = j]
    PROVE  /\ Up <=> Serving(p)
           /\ Up' <=> c \in {"idle"} \cup Working /\ j # "close"
<1>1. \A q \in Proc : q # p => pc[q] \in Closed /\ pc'[q] \in Closed
    BY Alone DEF StoreInvariant, TypeOK
<1>2. pc'[p] = c /\ job'[p] = j
    BY DEF StoreInvariant, TypeOK
<1>3. Up <=> Serving(p)
    BY <1>1 DEF Up, Serving, Closed, Working
<1>4. Up' <=> c \in {"idle"} \cup Working /\ j # "close"
    BY <1>1, <1>2 DEF Up, Serving, Closed, Working
<1> QED
    BY <1>3, <1>4

\* A step that shows readers nothing and puts no new record in the files but that
\* of its own call only decides what was in doubt, or stops serving.
LEMMA StepDecides ==
    ASSUME StoreInvariant, RecoveryInvariant, NEW p \in Proc, pc[p] \in Opened,
           NEW c, NEW j, pc' = [pc EXCEPT ![p] = c], job' = [job EXCEPT ![p] = j],
           j = "update" => job[p] = "update",
           c \in {"idle"} \cup Working /\ j # "close" => Serving(p),
           UNCHANGED <<next, ghostVars>>,
           \A h \in Recorded' : OneMore(served, h) =>
                h \in Recorded \/ (job[p] = "update" /\ h = next[p])
    PROVE  TheLedger!Next
<1>1. InDoubt' \subseteq InDoubt
    <2>1. \A q \in Proc : job'[q] = "update" => job[q] = "update"
        BY DEF StoreInvariant, TypeOK
    <2>2. CASE outage = "now"
        BY <2>2 DEF InDoubt, ghostVars
    <2>3. CASE outage # "now"
        <3>1. ASSUME NEW h \in InDoubt' PROVE h \in InDoubt
            <4>1. \/ h \in Recorded' /\ OneMore(served, h)
                  \/ \E q \in Proc : job'[q] = "update" /\ h = next[q]
                BY <2>3 DEF InDoubt, ghostVars, OneMore
            <4> QED
                BY <2>1, <2>3, <4>1 DEF InDoubt
        <3> QED
            BY <3>1
    <2> QED
        BY <2>2, <2>3
<1>2. UNCHANGED <<served, LongestConfirmed, Asked>> /\ ((outage = "now")' = (outage = "now"))
    BY DEF ghostVars, LongestConfirmed, Asked
<1>3. Up' => Up
    BY UpAlone
<1>4. CASE Up' = Up
    BY <1>1, <1>2, <1>4 DEF TheLedger!Next, TheLedger!Forget
<1>5. CASE Up' # Up
    <2>1. Up /\ Up' = FALSE
        BY <1>3, <1>5 DEF Up
    <2> QED
        BY <1>1, <1>2, <2>1 DEF TheLedger!Next, TheLedger!Stop
<1> QED
    BY <1>4, <1>5

\* The steps inside a call, and the steps of Open before it serves, are invisible.
LEMMA InnerSteps ==
    ASSUME StoreInvariant, RecoveryInvariant, NEW p \in Proc,
           \/ SkipLine(p) \/ ApplyLine(p) \/ RefuseLine(p)
           \/ WriteEntry(p) \/ WriteFails(p) \/ SyncJournal(p) \/ SyncJournalFails(p)
           \/ ReplaceSnapshot(p) \/ SnapshotFails(p) \/ SyncDirectoryFails(p)
           \/ BeginClose(p) \/ FinishClose(p) \/ BeginCompact(p) \/ CompactSynced(p)
           \/ RotateJournal(p) \/ RotateFails(p) \/ Crash(p)
    PROVE  TheLedger!Next
<1>1. /\ pc[p] \in Opened /\ JobFits(p) /\ Intact(journal)
      /\ pc = [pc EXCEPT ![p] = pc[p]] /\ job = [job EXCEPT ![p] = job[p]]
    BY DEF StoreInvariant, TypeOK, RecoveryInvariant, Placed, KnownFiles, SkipLine, ApplyLine,
           RefuseLine, Reading, WriteEntry, WriteFails, SyncJournal, SyncJournalFails,
           ReplaceSnapshot, SnapshotFails, SyncDirectoryFails, BeginClose, FinishClose,
           BeginCompact, CompactSynced, RotateJournal, RotateFails, Crash, Opened, Working
<1>2. ASSUME snapshot' = snapshot, Written(journal') = Written(journal)
      PROVE  Recorded' = Recorded
    BY <1>2 DEF Recorded, HistoryOf
<1>3. ASSUME journal' \in {journal, AppendPartOfLine(journal)}
      PROVE  Written(journal') = Written(journal)
    <2>1. [previous |-> NoDigest, history |-> << >>] \in Entry
        BY Lengths DEF Entry
    <2> QED
        BY <1>1, <1>3, <2>1, FilesTyped, WrittenAppends
<1>4. ASSUME NEW c, NEW j, pc' = [pc EXCEPT ![p] = c], job' = [job EXCEPT ![p] = j],
             j = "update" => job[p] = "update",
             c \in {"idle"} \cup Working /\ j # "close" => Serving(p),
             UNCHANGED <<next, ghostVars>>, Recorded' = Recorded
      PROVE  TheLedger!Next
    BY <1>1, <1>4, StepDecides
<1>5. CASE SkipLine(p) \/ ApplyLine(p)
    <2>1. /\ pc[p] = "replay" /\ pc' = pc /\ job' = job /\ Recorded' = Recorded
          /\ UNCHANGED <<next, ghostVars>>
        BY <1>2, <1>5 DEF SkipLine, ApplyLine, Reading, diskVars
    <2> QED
        BY <1>1, <1>4, <2>1 DEF Working
<1>6. CASE RefuseLine(p)
    BY <1>1, <1>2, <1>4, <1>6 DEF RefuseLine, diskVars, Working
<1>7. CASE BeginClose(p) \/ BeginCompact(p)
    BY <1>1, <1>2, <1>4, <1>7 DEF BeginClose, BeginCompact, JobFits, Serving, diskVars, Working
<1>8. CASE SyncJournal(p)
    BY <1>1, <1>2, <1>4, <1>8 DEF SyncJournal, JobFits, Serving, Working
<1>9. CASE FinishClose(p)
    BY <1>2, <1>4, <1>9 DEF FinishClose, DirectorySynced, Working
<1>10. CASE CompactSynced(p)
    BY <1>1, <1>2, <1>4, <1>10 DEF CompactSynced, DirectorySynced, Serving, Working
<1>11. CASE Crash(p)
    <2>1. Recorded' = Recorded
        BY <1>2, <1>3, <1>11 DEF Crash
    <2> QED
        BY <1>4, <1>11, <2>1 DEF Crash, Working
<1>12. ASSUME pc[p] \in Working, GiveUp(p), UNCHANGED <<next, ghostVars>>, Recorded' = Recorded
       PROVE  TheLedger!Next
    <2>1. job' = [job EXCEPT ![p] = "none"]
        BY <1>12 DEF GiveUp
    <2>2. CASE job[p] = "close"
        <3>1. pc' = [pc EXCEPT ![p] = "down"]
            BY <1>12, <2>2 DEF GiveUp
        <3> QED
            BY <1>4, <1>12, <2>1, <3>1 DEF Working
    <2>3. CASE job[p] # "close"
        <3>1. pc' = [pc EXCEPT ![p] = "idle"] /\ Serving(p)
            BY <1>12, <2>3 DEF GiveUp, Serving
        <3> QED
            BY <1>4, <1>12, <2>1, <3>1
    <2> QED
        BY <2>2, <2>3
<1>13. CASE WriteFails(p)
    <2>1. Recorded' = Recorded
        BY <1>2, <1>3, <1>13 DEF WriteFails
    <2> QED
        BY <1>12, <1>13, <2>1 DEF WriteFails, Working
<1>14. CASE SyncJournalFails(p) \/ SnapshotFails(p) \/ SyncDirectoryFails(p) \/ RotateFails(p)
    <2>1. Recorded' = Recorded
        BY <1>2, <1>14
        DEF SyncJournalFails, SnapshotFails, SyncDirectoryFails, RotateFails, diskVars
    <2> QED
        BY <1>12, <1>14, <2>1
        DEF SyncJournalFails, SnapshotFails, SyncDirectoryFails, RotateFails, Working
<1>15. CASE RotateJournal(p)
    <2>1. Range(Written(<< >>)) = {}
        BY EmptySeq DEF Written, Entries, Range
    <2>2. Recorded' \subseteq Recorded
        BY <1>15, <2>1 DEF RotateJournal, Recorded, HistoryOf
    <2>3. job[p] = "compact" /\ pc[p] = "rotate"
        BY <1>1, <1>15 DEF RotateJournal, JobFits
    <2>4. Serving(p)
        BY <2>3 DEF Serving, Working
    <2> QED
        BY <1>1, <1>15, <2>2, <2>4, StepDecides DEF RotateJournal
<1>16. CASE ReplaceSnapshot(p)
    <2>1. /\ state[p].history = served /\ job[p] # "none" /\ served \in History
          /\ next[p] \in History /\ pc[p] = "snapshot"
        BY <1>16 DEF ReplaceSnapshot, RecoveryInvariant, Placed, JobFits, Working,
                     StoreInvariant, TypeOK
    <2>2. ~OneMore(served, served)
        BY <2>1, Lengths DEF OneMore
    <2>3. HistoryOf(SnapshotOf(p)) = SnapshotOf(p)
        BY <2>1, NoSnapshotAssumption DEF HistoryOf, SnapshotOf, History
    <2>4. Recorded' \subseteq Recorded \cup {SnapshotOf(p)}
        BY <1>16, <2>3 DEF ReplaceSnapshot, Recorded, HistoryOf
    <2>5. \A h \in Recorded' : OneMore(served, h) =>
                h \in Recorded \/ (job[p] = "update" /\ h = next[p])
        BY <2>1, <2>2, <2>4 DEF SnapshotOf
    <2>6. job[p] # "close" => Serving(p)
        BY <2>1 DEF Serving, Working
    <2> QED
        BY <1>1, <1>16, <2>5, <2>6, StepDecides DEF ReplaceSnapshot
<1>17. CASE WriteEntry(p)
    <2> DEFINE e == [previous |-> state[p].digest, history |-> next[p]]
    <2>1. /\ job[p] = "update" /\ pc[p] = "write" /\ e \in Entry /\ e.history = next[p]
          /\ journal' = AppendLine(journal, e) /\ snapshot' = snapshot
        BY <1>1, <1>17 DEF WriteEntry, JobFits, StoreInvariant, TypeOK, Entry
    <2>2. Serving(p)
        BY <2>1 DEF Serving, Working
    <2> HIDE DEF e
    <2>3. ASSUME NEW i \in DOMAIN Written(journal')
          PROVE  Written(journal')[i] \in Range(Written(journal)) \cup {next[p]}
        <3>1. CASE EndsTorn(journal)
            <4>1. Written(journal') = Written(journal)
                BY <1>1, <2>1, <3>1, FilesTyped, WrittenAppends
            <4> QED
                BY <2>3, <4>1 DEF Range
        <3>2. CASE ~EndsTorn(journal)
            <4>1. /\ Entries(journal') = Entries(journal) \cup {Len(journal) + 1}
                  /\ \A n \in Entries(journal) : Written(journal')[n] = Written(journal)[n]
                  /\ Written(journal')[Len(journal) + 1] = next[p]
                BY <1>1, <2>1, <3>2, FilesTyped, WrittenAppends
            <4>2. DOMAIN Written(journal') = Entries(journal')
                BY DEF Written
            <4> QED
                BY <2>3, <4>1, <4>2, FilesTyped DEF Range
        <3> QED
            BY <3>1, <3>2
    <2>4. Recorded' \subseteq Recorded \cup {next[p]}
        BY <2>1, <2>3 DEF Recorded, Range, HistoryOf
    <2> QED
        BY <1>1, <1>17, <2>1, <2>2, <2>4, StepDecides DEF WriteEntry
<1> QED
    BY <1>5, <1>6, <1>7, <1>8, <1>9, <1>10, <1>11, <1>13, <1>14, <1>15, <1>16, <1>17

\* Opening the directory shows readers nothing.
LEMMA OpenIsInvisible ==
    ASSUME Exclusive, StoreInvariant, RecoveryInvariant, NEW p \in Proc, Open(p)
    PROVE  TheLedger!Next
<1>1. /\ UNCHANGED <<diskVars, next, ghostVars>> /\ \A q \in Proc : pc[q] \in Closed
      /\ pc' = [pc EXCEPT ![p] = "replay"] /\ job' = [job EXCEPT ![p] = "none"]
    BY DEF Open
<1>2. \A q \in Proc : job[q] = "none" /\ job'[q] = "none"
    BY <1>1 DEF RecoveryInvariant, Placed, JobFits, StoreInvariant, TypeOK
<1>3. InDoubt' = InDoubt
    BY <1>1, <1>2 DEF InDoubt, Recorded, HistoryOf, OneMore, diskVars, ghostVars
<1>4. Up = FALSE /\ Up' = FALSE
    BY <1>1 DEF Up, Serving, Closed, Working, StoreInvariant, TypeOK
<1> QED
    BY <1>1, <1>3, <1>4
    DEF TheLedger!Next, TheLedger!Forget, LongestConfirmed, Asked, ghostVars

\* An Update that begins puts one transaction in doubt.
LEMMA BeginUpdateProposes ==
    ASSUME StoreInvariant, RecoveryInvariant, NEW p \in Proc, NEW t \in Txn, BeginUpdate(p, t)
    PROVE  TheLedger!Propose(t)
<1> DEFINE n == Append(served, t)
<1>1. /\ pc[p] = "idle" /\ pc' = [pc EXCEPT ![p] = "write"]
      /\ job' = [job EXCEPT ![p] = "update"] /\ job[p] = "none"
      /\ state[p].history = served /\ outage # "now" /\ served \in History
      /\ issued' = issued \cup {n} /\ next' = [next EXCEPT ![p] = n]
      /\ UNCHANGED <<diskVars, confirmed, served, outage>>
    BY DEF BeginUpdate, RecoveryInvariant, Placed, JobFits, StoreInvariant, TypeOK
<1>2. Up /\ Up'
    <2>1. Serving(p) /\ pc[p] \in Opened /\ "write" \in Working
        BY <1>1 DEF Serving, Opened, Working
    <2>2. Up' <=> "write" \in {"idle"} \cup Working /\ "update" # "close"
        BY <1>1, <2>1, UpAlone
    <2>3. Up <=> Serving(p)
        BY <1>1, <2>1, UpAlone
    <2> QED
        BY <2>1, <2>2, <2>3
<1>3. IsStrictPrefix(LongestConfirmed, n)
    <2>1. /\ IsPrefix(LongestConfirmed, served) /\ LongestConfirmed \in History
        BY <1>1, LongestIsConfirmed DEF Opened
    <2>2. n \in History /\ IsPrefix(served, n) /\ Len(n) = Len(served) + 1
        BY <1>1, PrefixAppend, AppendProperties DEF History
    <2>3. IsPrefix(LongestConfirmed, n)
        BY <1>1, <2>1, <2>2, PrefixTransitive
    <2>4. Len(LongestConfirmed) <= Len(served)
        BY <1>1, <2>1, PrefixShorter
    <2>5. LongestConfirmed # n
        BY <1>1, <2>1, <2>2, <2>4, Lengths
    <2> QED
        BY <2>3, <2>5 DEF IsStrictPrefix
<1> HIDE DEF n
<1>4. LongestConfirmed' = LongestConfirmed /\ Asked' = Asked \cup {n}
    BY <1>1, <1>3 DEF LongestConfirmed, Asked
<1>5. InDoubt' = InDoubt \cup {n}
    <2>1. Recorded' = Recorded
        BY <1>1 DEF Recorded, HistoryOf, diskVars
    <2>2. \A q \in Proc : q # p => job[q] = "none" /\ job'[q] = "none"
        BY <1>1, Alone DEF Opened, StoreInvariant, TypeOK
    <2>3. job'[p] = "update" /\ next'[p] = n
        BY <1>1 DEF StoreInvariant, TypeOK
    <2>4. {next'[q] : q \in {r \in Proc : job'[r] = "update"}} = {n}
        BY <2>2, <2>3
    <2>5. {next[q] : q \in {r \in Proc : job[r] = "update"}} = {}
        BY <1>1, <2>2
    <2>6. InDoubt = {h \in Recorded : OneMore(served, h)}
        BY <1>1, <2>5 DEF InDoubt
    <2>7. InDoubt' = {h \in Recorded : OneMore(served, h)} \cup {n}
        BY <1>1, <2>1, <2>4 DEF InDoubt, OneMore
    <2> QED
        BY <2>6, <2>7
<1>6. Up' = Up /\ (outage = "now")' = (outage = "now")
    BY <1>1, <1>2 DEF Up
<1> QED
    BY <1>1, <1>2, <1>4, <1>5, <1>6 DEF TheLedger!Propose, n

\* An Update that reports success commits what was in doubt, and decides against
\* everything else.
LEMMA CommitUpdateCommits ==
    ASSUME StoreInvariant, RecoveryInvariant, NEW p \in Proc, CommitUpdate(p)
    PROVE  TheLedger!Commit
<1> DEFINE n == next[p]
<1>1. /\ pc[p] = "dirsync" /\ pc' = [pc EXCEPT ![p] = "idle"]
      /\ job[p] = "update" /\ job' = [job EXCEPT ![p] = "none"]
      /\ snapshot' = snapshot /\ UNCHANGED <<journal, next, issued, outage>>
      /\ confirmed' = confirmed \cup {n} /\ served' = n
    BY DEF CommitUpdate, DirectorySynced
<1>2. /\ state[p].history = served /\ outage # "now" /\ OneMore(served, n)
      /\ n \in issued /\ n \in History /\ served \in History
      /\ \A h \in issued : ~IsStrictPrefix(n, h)
      /\ snapshot = n /\ n # NoSnapshot
      /\ Recovers(HistoryOf(snapshot), Written(journal), served)
    BY <1>1, NoSnapshotAssumption
    DEF RecoveryInvariant, Placed, Working, StoreInvariant, TypeOK, SoundProcess, SnapshotOf,
        History
<1>3. n \in InDoubt
    BY <1>1, <1>2 DEF InDoubt
<1> HIDE DEF n
<1>4. Up /\ Up'
    <2>1. Serving(p) /\ pc[p] \in Opened
        BY <1>1 DEF Serving, Opened, Working
    <2>2. Up' <=> "idle" \in {"idle"} \cup Working /\ "none" # "close"
        BY <1>1, <2>1, UpAlone
    <2>3. Up <=> Serving(p)
        BY <1>1, <2>1, UpAlone
    <2> QED
        BY <2>1, <2>2, <2>3
<1>5. /\ Len(n) = Len(served) + 1 /\ Len(served) \in Nat
      /\ \A i \in DOMAIN Written(journal) :
            Len(Written(journal)[i]) <= Len(n) /\ Len(Written(journal)[i]) \in Nat
    BY <1>2, FilesTyped, Lengths DEF OneMore, Recovers
<1>6. LongestConfirmed' = n
    <2>1. \A g \in confirmed : g \in History /\ IsPrefix(g, served)
        BY <1>1, <1>2 DEF StoreInvariant, TypeOK, ConfirmedIsDurable, Opened, Working
    <2>2. \A g \in confirmed : Len(g) < Len(n)
        BY <1>2, <1>5, <2>1, PrefixShorter, Lengths
    <2>3. \A g \in confirmed' : Len(g) <= Len(n)
        BY <1>1, <1>5, <2>1, <2>2, Lengths
    <2>4. ASSUME NEW h \in confirmed' \cup {<< >>}, \A g \in confirmed' : Len(g) <= Len(h)
          PROVE  h = n
        <3>1. Len(n) <= Len(h)
            BY <1>1, <2>4
        <3>2. h \in confirmed => Len(h) < Len(n) /\ Len(h) \in Nat
            BY <2>1, <2>2, Lengths
        <3>3. Len(<< >>) = 0
            BY Lengths
        <3> QED
            BY <1>1, <1>5, <3>1, <3>2, <3>3
    <2>5. n \in confirmed' \cup {<< >>}
        BY <1>1
    <2> QED
        BY <2>3, <2>4, <2>5 DEF LongestConfirmed
<1>7. Asked' = {}
    BY <1>1, <1>2, <1>6 DEF Asked
<1>8. InDoubt' = {}
    <2>1. \A q \in Proc : job'[q] # "update"
        BY <1>1, Alone DEF Opened, Working, StoreInvariant, TypeOK
    <2>2. Recorded' = {n} \cup {Written(journal)[i] : i \in DOMAIN Written(journal)}
        BY <1>1, <1>2 DEF Recorded, HistoryOf, Range
    <2>3. \A h \in Recorded' : Len(h) <= Len(n) /\ Len(h) \in Nat
        BY <1>2, <1>5, <2>2, Lengths
    <2>4. \A h \in Recorded' : ~OneMore(n, h)
        BY <1>5, <2>3 DEF OneMore
    <2>5. {h \in Recorded' : OneMore(served', h)} = {}
        BY <1>1, <2>4
    <2>6. {next'[q] : q \in {r \in Proc : job'[r] = "update"}} = {}
        BY <2>1
    <2>7. InDoubt' \in {{}, {h \in Recorded' : OneMore(served', h)}
                              \cup {next'[q] : q \in {r \in Proc : job'[r] = "update"}}}
        BY DEF InDoubt, OneMore
    <2> QED
        BY <2>5, <2>6, <2>7
<1>9. Up' = Up /\ (outage = "now")' = (outage = "now")
    BY <1>1, <1>4 DEF Up
<1> QED
    BY <1>1, <1>3, <1>4, <1>6, <1>7, <1>8, <1>9 DEF TheLedger!Commit

\* A process that starts to serve restarts the ledger.
LEMMA ServingRestarts ==
    ASSUME StoreInvariant, RecoveryInvariant, NEW p \in Proc, TruncateTail(p) \/ FinishReplay(p)
    PROVE  TheLedger!Restart
<1>1. /\ pc[p] = "replay" /\ pc' = [pc EXCEPT ![p] = "idle"] /\ outage' # "now"
      /\ UNCHANGED <<snapshot, job, next, issued, confirmed>>
      /\ job[p] = "none" /\ job = [job EXCEPT ![p] = job[p]]
    BY DEF TruncateTail, FinishReplay, Reading, Serve, diskVars, RecoveryInvariant, Placed,
           JobFits, StoreInvariant, TypeOK
<1>2. /\ Written(journal') = Written(journal)
      /\ served' = state[p].history /\ served' \in History /\ served' \in Recorded
      /\ \A h \in Recorded : Len(h) <= Len(served')
      /\ outage # "now" => served' = served \/ OneMore(served, served')
    BY ServedIsRecovered
<1>3. Up = FALSE /\ Up'
    <2>1. ~Serving(p)
        BY <1>1 DEF Serving, Working
    <2>2. ~Up /\ Up'
        BY <1>1, <2>1, UpAlone DEF Opened
    <2> QED
        BY <2>2 DEF Up
<1>4. UNCHANGED <<LongestConfirmed, Asked>>
    BY <1>1 DEF LongestConfirmed, Asked
<1>5. InDoubt' = {}
    <2>1. \A q \in Proc : job'[q] # "update"
        BY <1>1, Alone DEF Opened
    <2>2. Recorded' = Recorded
        BY <1>1, <1>2 DEF Recorded, HistoryOf
    <2>3. \A h \in Recorded : Len(h) \in Nat
        <3>1. Recorded \subseteq History
            BY FilesTyped DEF Recorded, Range
        <3> QED
            BY <3>1, Lengths
    <2>4. \A h \in Recorded : ~OneMore(served', h)
        BY <1>2, <2>3, Lengths DEF OneMore
    <2> QED
        BY <2>1, <2>2, <2>4 DEF InDoubt, OneMore
<1>6. CASE outage = "now"
    <2>1. /\ LongestConfirmed \in History /\ IsPrefix(LongestConfirmed, served')
          /\ LongestConfirmed \in confirmed \cup {<< >>}
        BY <1>1, <1>2, LongestIsConfirmed DEF Opened
    <2>2. Known(served')
        BY <1>1, <1>2 DEF RecoveryInvariant, Placed, Opened
    <2>3. served' = << >> => LongestConfirmed = << >>
        <3>1. ASSUME served' = << >> PROVE Len(LongestConfirmed) = 0
            <4>1. Len(LongestConfirmed) <= 0 /\ Len(LongestConfirmed) \in Nat
                BY <1>2, <2>1, <3>1, PrefixShorter, Lengths
            <4> QED
                BY <4>1
        <3> QED
            BY <2>1, <3>1, Lengths
    <2>4. served' \in Asked \cup {LongestConfirmed}
        BY <2>1, <2>2, <2>3 DEF Known, Asked, IsStrictPrefix
    <2>5. served' \in TheLedger!Recoverable
        BY <1>6, <2>1, <2>4 DEF TheLedger!Recoverable, TheLedger!IsPrefix, IsPrefix
    <2> QED
        BY <1>1, <1>3, <1>4, <1>5, <2>5 DEF TheLedger!Restart
<1>7. CASE outage # "now"
    <2>1. served' \in {served} \cup InDoubt
        BY <1>2, <1>7 DEF InDoubt
    <2>2. served' \in TheLedger!Recoverable
        BY <1>7, <2>1 DEF TheLedger!Recoverable
    <2> QED
        BY <1>1, <1>3, <1>4, <1>5, <2>2 DEF TheLedger!Restart
<1> QED
    BY <1>6, <1>7

\* Losing power is losing power.
LEMMA PowerLossIsLoss == PowerLoss => TheLedger!PowerLoss
<1> SUFFICES ASSUME PowerLoss PROVE TheLedger!PowerLoss
    OBVIOUS
<1>1. /\ pc' = [p \in Proc |-> "down"] /\ outage' = "now"
      /\ UNCHANGED <<issued, confirmed, served>>
    BY DEF PowerLoss
<1>2. Up' = FALSE
    BY <1>1 DEF Up, Serving, Working
<1>3. InDoubt' = {} /\ UNCHANGED <<LongestConfirmed, Asked>>
    BY <1>1 DEF InDoubt, LongestConfirmed, Asked
<1> QED
    BY <1>1, <1>2, <1>3 DEF TheLedger!PowerLoss

\* Every step of the store is a step of the ledger, or none.
LEMMA NextIsLedgerStep ==
    ASSUME Exclusive, StoreInvariant, RecoveryInvariant, [Next]_vars
    PROVE  [TheLedger!Next]_(TheLedger!ledgerVars)
<1>1. ASSUME NEW p \in Proc, Step(p)
      PROVE  TheLedger!Next
    <2>1. ASSUME NEW t \in Txn, BeginUpdate(p, t)
          PROVE  TheLedger!Next
        BY <2>1, BeginUpdateProposes DEF TheLedger!Next
    <2>2. CASE CommitUpdate(p)
        BY <2>2, CommitUpdateCommits DEF TheLedger!Next
    <2>3. CASE TruncateTail(p) \/ FinishReplay(p)
        BY <2>3, ServingRestarts DEF TheLedger!Next
    <2>4. CASE Open(p)
        BY <2>4, OpenIsInvisible
    <2> QED
        BY <1>1, <2>1, <2>2, <2>3, <2>4, InnerSteps DEF Step
<1>2. CASE PowerLoss
    BY <1>2, PowerLossIsLoss DEF TheLedger!Next
<1>3. CASE UNCHANGED vars
    BY <1>3 DEF vars, diskVars, ghostVars, TheLedger!ledgerVars, LongestConfirmed, Asked,
                InDoubt, Recorded, HistoryOf, OneMore, Up, Serving
<1> QED
    BY <1>1, <1>2, <1>3 DEF Next

\* What callers and readers see of the repository is the ledger: it grows by whole
\* transactions, a failed call leaves its transaction in doubt until the next
\* success or restart, and a power loss takes back nothing that was confirmed.
THEOREM StoreImplementsLedger == ASSUME Exclusive PROVE Spec => ImplementsLedger
<1>1. Spec => []StoreInvariant /\ []RecoveryInvariant
    BY StoreIsSound, FilesHoldWhatIsServed
<1>2. StoreInvariant /\ RecoveryInvariant /\ [Next]_vars
        => [TheLedger!Next]_(TheLedger!ledgerVars)
    BY NextIsLedgerStep
<1> QED
    BY <1>1, <1>2, LedgerInit, PTL DEF Spec, ImplementsLedger, TheLedger!Spec
=============================================================================
