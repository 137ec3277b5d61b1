---------------------------- MODULE PagingProofs ----------------------------
(***************************************************************************)
(* Lists in pages, for any number of objects, pages of any size, and any   *)
(* changes between two requests.                                           *)
(***************************************************************************)
EXTENDS Paging, SortingProofs

\* Until the last page the cursor names the last item received.
CursorFits ==
    ~ended => IF after = 0 THEN items = << >>
              ELSE items # << >> /\ items[Len(items)] = after

\* The inductive invariant of a client that reads a list page by page.
PagingInvariant ==
    /\ DOMAIN status \subseteq TaskId /\ IsFiniteSet(DOMAIN status)
    /\ items \in Seq(TaskId) /\ after \in Nat /\ ended \in BOOLEAN
    /\ constant \subseteq Matching(status)
    /\ CursorFits
    /\ PagesAscend
    /\ PagesAreComplete

\* A page starts behind everything up to the cursor and nothing else.
LEMMA StartFacts ==
  ASSUME NEW all \in Seq(Nat), after \in Nat
  PROVE  /\ StartOf(all) \in 1..(Len(all) + 1)
         /\ \A j \in 1..(StartOf(all) - 1) : all[j] <= after
         /\ StartOf(all) \in DOMAIN all => all[StartOf(all)] > after
<1>. DEFINE T == {i \in 1..(Len(all) + 1) : i \in DOMAIN all => all[i] > after}
            Fits(i) == /\ \A j \in 1..(i - 1) : all[j] <= after
                       /\ i \in DOMAIN all => all[i] > after
<1>1. Len(all) \in Nat /\ DOMAIN all = 1..Len(all) /\ \A i \in DOMAIN all : all[i] \in Nat
  OBVIOUS
<1>2. T \in SUBSET Nat /\ Len(all) + 1 \in T
  BY <1>1
<1>3. PICK i \in T : \A j \in T : i <= j
  BY <1>2, LeastNumber
<1>4. i \in 1..(Len(all) + 1) /\ Fits(i)
  <2>1. ASSUME NEW j \in 1..(i - 1) PROVE all[j] <= after
    <3>1. j \in DOMAIN all /\ j \notin T
      BY <1>1, <1>3
    <3>2. QED
      BY <1>1, <3>1
  <2>2. QED
    BY <1>3, <2>1
<1>5. StartOf(all) = CHOOSE k \in 1..(Len(all) + 1) : Fits(k)
  BY DEF StartOf
<1>. HIDE DEF Fits
<1>6. StartOf(all) \in 1..(Len(all) + 1) /\ Fits(StartOf(all))
  BY <1>4, <1>5
<1>7. QED
  BY <1>6 DEF Fits

LEMMA ListFacts ==
  ASSUME PagingInvariant
  PROVE  /\ ListTasks \in Seq(TaskId) /\ ListTasks \in Seq(Nat)
         /\ Len(ListTasks) \in Nat /\ DOMAIN ListTasks = 1..Len(ListTasks)
         /\ \A i, j \in DOMAIN ListTasks : i < j => ListTasks[i] < ListTasks[j]
         /\ \A t \in Matching(status) : \E i \in DOMAIN ListTasks : ListTasks[i] = t
<1>. DEFINE S == Matching(status)
<1>1. S \in SUBSET DOMAIN status /\ S \subseteq TaskId /\ S \subseteq Nat
  BY TaskIdAssumption DEF PagingInvariant, Matching
<1>2. IsFiniteSet(S)
  BY <1>1, FS_Subset DEF PagingInvariant
<1>3. S \in SUBSET Int
  BY <1>1
<1>. HIDE DEF S
<1>4. /\ ListTasks \in Seq(S) /\ Len(ListTasks) = Cardinality(S)
      /\ Cardinality(S) \in Nat /\ DOMAIN ListTasks = 1..Cardinality(S)
      /\ \A i, j \in DOMAIN ListTasks : i < j => ListTasks[i] < ListTasks[j]
      /\ \A t \in S : \E i \in DOMAIN ListTasks : ListTasks[i] = t
  BY <1>2, <1>3, AscendingSorts DEF ListTasks, S
<1>5. ListTasks \in Seq(TaskId) /\ ListTasks \in Seq(Nat)
  BY <1>1, <1>4
<1>6. QED
  BY <1>4, <1>5 DEF S

\* A page goes on where the last one ended, and leaves nothing out up to its own
\* end.
LEMMA GetPageKeeps ==
  ASSUME PagingInvariant, GetPage
  PROVE  PagingInvariant'
<1>all. PICK all : all = ListTasks
  OBVIOUS
<1>start. PICK start : start = StartOf(all)
  OBVIOUS
<1>1. PICK limit \in 1..MaxLimit :
        LET end == IF start - 1 + limit > Len(all) THEN Len(all) ELSE start - 1 + limit
        IN  /\ items' = items \o SubSeq(all, start, end)
            /\ after' = Cursor(all, end)
            /\ ended' = (after' = 0)
  BY <1>all, <1>start DEF GetPage
<1>2. PICK end : end = IF start - 1 + limit > Len(all) THEN Len(all) ELSE start - 1 + limit
  OBVIOUS
<1>n. PICK n : n = Len(all)
  OBVIOUS
<1>old. PICK old : old = Len(items)
  OBVIOUS
<1>len. PICK len : len = Len(items')
  OBVIOUS
<1>. DEFINE page == SubSeq(all, start, end)
<1>3. /\ ~ended
      /\ constant' = IF after = 0 THEN Matching(status) ELSE constant
      /\ UNCHANGED <<status, filter>>
      /\ items' = items \o page /\ after' = Cursor(all, end) /\ ended' = (after' = 0)
  BY <1>1, <1>2, <1>all DEF GetPage
<1>4. /\ all \in Seq(TaskId) /\ all \in Seq(Nat) /\ n \in Nat /\ DOMAIN all = 1..n
      /\ \A i, j \in 1..n : i < j => all[i] < all[j]
      /\ \A t \in Matching(status) : \E i \in 1..n : all[i] = t
      /\ \A i \in 1..n : all[i] \in Nat \ {0} /\ all[i] \in TaskId
  <2>1. /\ all \in Seq(TaskId) /\ all \in Seq(Nat) /\ n \in Nat /\ DOMAIN all = 1..n
        /\ \A i, j \in 1..n : i < j => all[i] < all[j]
        /\ \A t \in Matching(status) : \E i \in 1..n : all[i] = t
    BY <1>all, <1>n, ListFacts
  <2>2. \A i \in 1..n : all[i] \in TaskId
    BY <2>1
  <2>3. QED
    BY <2>1, <2>2, TaskIdAssumption
<1>5. /\ start \in 1..(n + 1)
      /\ \A j \in 1..(start - 1) : all[j] <= after
      /\ start \in 1..n => all[start] > after
  BY <1>4, <1>n, <1>start, StartFacts DEF PagingInvariant
<1>6. /\ items \in Seq(TaskId) /\ old \in Nat /\ DOMAIN items = 1..old
      /\ \A i \in 1..old : items[i] \in TaskId
      /\ after \in Nat
  BY <1>old DEF PagingInvariant
<1>7. \A j \in 1..n : j >= start => all[j] > after
  <2>1. ASSUME NEW j \in 1..n, j >= start PROVE all[j] > after
    <3>1. start \in 1..n
      BY <1>4, <1>5, <2>1
    <3>2. all[start] > after /\ (start = j \/ all[start] < all[j])
      BY <1>4, <1>5, <2>1, <3>1
    <3>3. QED
      BY <1>4, <1>6, <3>1, <3>2
  <2>2. QED
    BY <2>1
<1>8. /\ end \in Nat /\ end <= n /\ start - 1 <= end
      /\ end < n => start <= end
  BY <1>2, <1>4, <1>5, <1>n
<1>9. /\ page \in Seq(TaskId) /\ Len(page) = end - start + 1
      /\ \A i \in 1..(end - start + 1) : page[i] = all[start + i - 1]
  <2>1. \A i \in start..end : all[i] \in TaskId
    BY <1>4, <1>5, <1>8
  <2>2. page = [i \in 1..(end - start + 1) |-> all[start + i - 1]]
    <3>1. all \in Seq(TaskId) /\ start \in Int /\ end \in Int
      BY <1>4, <1>5, <1>8
    <3>2. SubSeq(all, start, end) = [i \in 1..(end - start + 1) |-> all[start + i - 1]]
      BY <3>1
    <3>3. QED
      BY <3>2
  <2>. HIDE DEF page
  <2>3. end - start + 1 \in Nat
    BY <1>5, <1>8
  <2>4. \A i \in 1..(end - start + 1) : start + i - 1 \in start..end
    BY <1>5, <1>8
  <2>5. page \in [1..(end - start + 1) -> TaskId]
    BY <2>1, <2>2, <2>4
  <2>6. QED
    BY <2>2, <2>3, <2>5
<1>. HIDE DEF page
<1>10. /\ items' \in Seq(TaskId) /\ Len(items') = old + (end - start + 1)
       /\ \A i \in 1..old : items'[i] = items[i]
       /\ \A i \in start..end : items'[old + (i - start + 1)] = all[i]
  <2>0. PICK more : more = page
    OBVIOUS
  <2>1. /\ items' \in Seq(TaskId) /\ Len(items') = old + Len(page)
        /\ \A i \in 1..old : items'[i] = items[i]
        /\ \A i \in 1..Len(page) : items'[old + i] = page[i]
    <3>1. items \in Seq(TaskId) /\ more \in Seq(TaskId) /\ items' = items \o more
      BY <1>3, <1>6, <1>9, <2>0
    <3>2. items' \in Seq(TaskId)
      BY <3>1
    <3>3. Len(items') = Len(items) + Len(more)
      BY <3>1
    <3>4. \A i \in 1..Len(items) : items'[i] = items[i]
      BY <3>1
    <3>5. \A i \in 1..Len(more) : items'[Len(items) + i] = more[i]
      BY <3>1
    <3>6. QED
      BY <1>old, <2>0, <3>2, <3>3, <3>4, <3>5
  <2>2. ASSUME NEW i \in start..end PROVE items'[old + (i - start + 1)] = all[i]
    <3>1. i - start + 1 \in 1..(end - start + 1) /\ start + (i - start + 1) - 1 = i
      BY <1>5, <1>8
    <3>2. QED
      BY <1>9, <2>1, <3>1
  <2>3. QED
    BY <1>9, <2>1, <2>2
<1>a. /\ start \in Int /\ end \in Int /\ n \in Int /\ old \in Int /\ len \in Int
      /\ 1 <= start /\ start <= n + 1 /\ start - 1 <= end /\ end <= n /\ 0 <= old
      /\ (end < n => start <= end)
      /\ len = old + (end - start + 1)
  BY <1>4, <1>5, <1>6, <1>8, <1>10, <1>len
<1>b. DOMAIN items' = 1..len
  BY <1>10, <1>len
<1>11. /\ after' \in Nat /\ ended' \in BOOLEAN
       /\ ended' => end = n
       /\ ~ended' => start <= end /\ end < n /\ after' = all[end] /\ after' # 0
  <2>1. CASE end < n /\ end > 0
    <3>1. after' = all[end] /\ end \in 1..n
      BY <1>3, <1>4, <1>8, <2>1, <1>n DEF Cursor
    <3>2. all[end] \in Nat \ {0}
      BY <1>4, <3>1
    <3>3. after' # 0 /\ after' \in Nat
      BY <3>1, <3>2
    <3>4. ended' = FALSE
      BY <1>3, <3>3
    <3>5. start <= end /\ end < n
      BY <1>8, <2>1
    <3>6. QED
      BY <3>1, <3>3, <3>4, <3>5
  <2>2. CASE ~(end < n /\ end > 0)
    <3>1. after' = 0
      BY <1>3, <2>2, <1>n DEF Cursor
    <3>2. end = n
      BY <1>a, <2>2
    <3>3. ended' = TRUE
      BY <1>3, <3>1
    <3>4. QED
      BY <3>1, <3>2, <3>3
  <2>3. QED
    BY <2>1, <2>2
<1>12. CursorFits'
  <2>1. ASSUME ~ended' PROVE items' # << >> /\ items'[Len(items')] = after'
    <3>1. end \in start..end /\ start <= end
      BY <1>5, <1>8, <1>11, <2>1
    <3>2. items'[old + (end - start + 1)] = all[end]
      BY <1>10, <3>1
    <3>3. Len(items') > 0
      <4>1. start <= end /\ old >= 0 /\ len = old + (end - start + 1) /\ old \in Int /\ end \in Int /\ start \in Int
        BY <1>a, <3>1
      <4>2. len > 0
        BY <4>1
      <4>3. QED
        BY <4>2, <1>len
    <3>4. Len(items') = old + (end - start + 1)
      BY <1>10
    <3>5. items' # << >>
      BY <1>10, <3>3
    <3>6. QED
      BY <1>11, <2>1, <3>2, <3>4, <3>5
  <2>2. QED
    BY <1>11, <2>1 DEF CursorFits
<1>13. PagesAscend'
  <2>1. ASSUME NEW i \in 1..(len - 1) PROVE items'[i] < items'[i + 1]
    <3>1. CASE i < old
      <4>1. i \in 1..(old - 1) /\ i \in 1..old /\ i + 1 \in 1..old
        BY <1>a, <2>1, <3>1
      <4>2. items[i] < items[i + 1]
        BY <4>1, <1>old DEF PagingInvariant, PagesAscend
      <4>3. QED
        BY <1>10, <4>1, <4>2
    <3>2. CASE i = old
      <4>1. old \in 1..old /\ start \in start..end /\ start \in 1..n
        BY <1>a, <2>1, <3>2
      <4>2. items[old] = after
        BY <1>3, <1>6, <4>1, <1>old DEF PagingInvariant, CursorFits
      <4>3. items'[old + (start - start + 1)] = all[start]
        BY <1>10, <4>1
      <4>4. items'[old + 1] = all[start]
        BY <1>5, <4>3
      <4>5. QED
        BY <1>4, <1>5, <1>6, <1>10, <3>2, <4>1, <4>2, <4>4
    <3>3. CASE i > old
      <4>. DEFINE k == start + (i - old) - 1
      <4>1. /\ k \in start..end /\ k + 1 \in start..end
            /\ k \in 1..n /\ k + 1 \in 1..n
            /\ old + (k - start + 1) = i /\ old + ((k + 1) - start + 1) = i + 1
        BY <1>a, <2>1, <3>3
      <4>. HIDE DEF k
      <4>2. items'[i] = all[k] /\ items'[i + 1] = all[k + 1]
        BY <1>10, <4>1
      <4>3. k < k + 1
        BY <4>1
      <4>4. QED
        BY <1>4, <4>1, <4>2, <4>3
    <3>4. QED
      BY <1>6, <2>1, <3>1, <3>2, <3>3
  <2>2. QED
    BY <2>1, <1>len DEF PagesAscend
<1>14. PagesAreComplete'
  <2>1. ASSUME NEW t \in constant', ended' \/ t <= after'
        PROVE  \E i \in DOMAIN items' : items'[i] = t
    <3>1. t \in Matching(status) /\ (after # 0 => t \in constant)
      BY <1>3 DEF PagingInvariant
    <3>2. PICK j \in 1..n : all[j] = t
      BY <1>4, <3>1
    <3>3. j <= end
      <4>1. CASE ended'
        BY <1>4, <1>11, <4>1
      <4>2. CASE ~ended'
        <5>1. end \in 1..n /\ t <= all[end]
          BY <1>4, <1>5, <1>8, <1>11, <2>1, <4>2
        <5>2. ~(end < j)
          BY <1>4, <3>2, <5>1
        <5>3. QED
          BY <1>4, <5>1, <5>2
      <4>3. QED
        BY <4>1, <4>2
    <3>4. CASE j >= start
      <4>1. j \in start..end /\ old + (j - start + 1) \in 1..len
        BY <1>a, <3>3, <3>4
      <4>2. items'[old + (j - start + 1)] = t
        BY <1>10, <3>2, <4>1
      <4>3. QED
        BY <1>b, <4>1, <4>2
    <3>5. CASE j < start
      <4>1. j \in 1..(start - 1) /\ t <= after /\ t \in Nat \ {0}
        BY <1>4, <1>5, <3>2, <3>5
      <4>2. t \in constant
        BY <1>6, <3>1, <4>1
      <4>3. PICK i \in DOMAIN items : items[i] = t
        BY <4>1, <4>2 DEF PagingInvariant, PagesAreComplete, ToSet
      <4>4. i \in 1..old /\ i \in DOMAIN items'
        BY <1>a, <1>b, <1>6, <4>3
      <4>5. QED
        BY <1>10, <4>3, <4>4
    <3>6. QED
      BY <1>4, <1>5, <3>4, <3>5
  <2>2. QED
    BY <2>1 DEF PagesAreComplete, ToSet
<1>15. constant' \subseteq Matching(status)'
  BY <1>3 DEF PagingInvariant, Matching
<1>16. QED
  BY <1>3, <1>10, <1>11, <1>12, <1>13, <1>14, <1>15 DEF PagingInvariant

\* An object that comes or changes takes nothing from what was received.
LEMMA ChangeKeeps ==
  ASSUME PagingInvariant, NEW st, NEW t \in TaskId, DOMAIN st = DOMAIN status \cup {t}, Change(st)
  PROVE  PagingInvariant'
<1>1. /\ status' = st /\ constant' = constant \cap Matching(st)
      /\ filter' = filter /\ after' = after /\ items' = items /\ ended' = ended
  BY DEF Change
<1>2. IsFiniteSet(DOMAIN status') /\ DOMAIN status' \subseteq TaskId
  BY <1>1, FS_AddElement DEF PagingInvariant
<1>3. Matching(status)' = Matching(st)
  BY <1>1 DEF Matching
<1>4. PagesAscend' /\ CursorFits'
  BY <1>1 DEF PagingInvariant, PagesAscend, CursorFits
<1>5. PagesAreComplete'
  BY <1>1 DEF PagingInvariant, PagesAreComplete
<1>6. QED
  BY <1>1, <1>2, <1>3, <1>4, <1>5 DEF PagingInvariant

LEMMA PagingInitHolds == ASSUME PagingInit PROVE PagingInvariant
<1>1. DOMAIN status = {} /\ after = 0 /\ items = << >> /\ ended = FALSE /\ constant = {}
  <2>1. status = << >> => DOMAIN status = {}
    OBVIOUS
  <2>2. QED
    BY <2>1 DEF PagingInit
<1>2. PagesAscend
  BY <1>1 DEF PagesAscend
<1>3. CursorFits /\ PagesAreComplete
  BY <1>1 DEF CursorFits, PagesAreComplete
<1>4. items \in Seq(TaskId)
  BY <1>1
<1>5. DOMAIN status \subseteq TaskId /\ IsFiniteSet(DOMAIN status)
  BY <1>1, FS_EmptySet
<1>6. after \in Nat /\ ended \in BOOLEAN /\ constant \subseteq Matching(status)
  BY <1>1
<1>7. QED
  BY <1>2, <1>3, <1>4, <1>5, <1>6 DEF PagingInvariant

LEMMA PagingNextKeeps ==
  ASSUME PagingInvariant, [PagingNext]_pagingVars
  PROVE  PagingInvariant'
<1>1. CASE GetPage
  BY <1>1, GetPageKeeps
<1>2. CASE Enqueue
  <2>1. PICK t \in TaskId \ DOMAIN status : Change(Put(status, t, "PENDING"))
    BY <1>2 DEF Enqueue
  <2>2. DOMAIN Put(status, t, "PENDING") = DOMAIN status \cup {t}
    BY DEF Put
  <2>3. QED
    BY <2>1, <2>2, ChangeKeeps
<1>3. CASE Finish
  <2>1. PICK t \in DOMAIN status : Change(Put(status, t, "DONE"))
    BY <1>3 DEF Finish
  <2>2. DOMAIN Put(status, t, "DONE") = DOMAIN status \cup {t} /\ t \in TaskId
    BY DEF Put, PagingInvariant
  <2>3. QED
    BY <2>1, <2>2, ChangeKeeps
<1>4. CASE UNCHANGED pagingVars
  BY <1>4 DEF pagingVars, PagingInvariant, CursorFits, PagesAscend, PagesAreComplete, Matching
<1>5. QED
  BY <1>1, <1>2, <1>3, <1>4 DEF PagingNext

\* A client that reads a list to its end, however large its pages and whatever
\* comes or changes meanwhile, sees no object twice and all in order
\* (server.go, paginate).
THEOREM PagesStayInOrder == PagingInit /\ [][PagingNext]_pagingVars => []PagesAscend
<1>1. PagingInvariant => PagesAscend
  BY DEF PagingInvariant
<1>2. PagingInit => PagingInvariant
  BY PagingInitHolds
<1>3. PagingInvariant /\ [PagingNext]_pagingVars => PagingInvariant'
  BY PagingNextKeeps
<1>4. QED
  BY <1>1, <1>2, <1>3, PTL

\* Nor does it miss an object that was on the list all the time.
THEOREM PagesMissNothing == PagingInit /\ [][PagingNext]_pagingVars => []PagesAreComplete
<1>1. PagingInvariant => PagesAreComplete
  BY DEF PagingInvariant
<1>2. PagingInit => PagingInvariant
  BY PagingInitHolds
<1>3. PagingInvariant /\ [PagingNext]_pagingVars => PagingInvariant'
  BY PagingNextKeeps
<1>4. QED
  BY <1>1, <1>2, <1>3, PTL
=============================================================================
