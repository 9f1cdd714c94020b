----------------------- MODULE InMemoryTimelineProofs -----------------------
(***************************************************************************)
(* Theorems about InMemoryTimeline, for any activities, batches, slices,   *)
(* length and number of calls.                                             *)
(***************************************************************************)
EXTENDS InMemoryTimeline, FiniteSetTheorems, SequenceTheorems, TLAPS

-----------------------------------------------------------------------------
(* What splice does to an array *)

\* The array that splice removes from, as an array whose elements are those of s at
\* distinct places.
LEMMA SplicedRestOf ==
  ASSUME NEW s \in Seq(Activities), NEW start \in Nat, NEW count \in Nat
  PROVE  /\ SplicedRest(s, start, count) \in Seq(Activities)
         /\ \A i \in DOMAIN SplicedRest(s, start, count) :
              \E p \in DOMAIN s :
                /\ SplicedRest(s, start, count)[i] = s[p]
                /\ p = IF i <= start THEN i ELSE i + count
<1> DEFINE k == IF start < Len(s) THEN start ELSE Len(s)
           a == SubSeq(s, 1, k)
           b == SubSeq(s, start + count + 1, Len(s))
<1>1. k \in Nat /\ k <= Len(s) /\ k <= start /\ Len(s) \in Nat
  OBVIOUS
<1>2. a \in Seq(Activities) /\ Len(a) = k /\ \A i \in 1 .. k : a[i] = s[i]
  BY <1>1
<1>3. /\ b \in Seq(Activities)
      /\ Len(b) = IF start + count + 1 <= Len(s) THEN Len(s) - (start + count) ELSE 0
      /\ \A i \in 1 .. Len(b) : b[i] = s[start + count + i]
  BY <1>1
<1>4. SplicedRest(s, start, count) = a \o b
  BY DEF SplicedRest, Start
<1> HIDE DEF a, b
<1>5. /\ a \o b \in Seq(Activities)
      /\ Len(a \o b) = Len(a) + Len(b)
      /\ \A i \in 1 .. Len(a) + Len(b) :
           (a \o b)[i] = IF i <= Len(a) THEN a[i] ELSE b[i - Len(a)]
  BY <1>2, <1>3, ConcatProperties
<1>6. ASSUME NEW i \in DOMAIN (a \o b)
      PROVE  \E p \in DOMAIN s :
               (a \o b)[i] = s[p] /\ p = IF i <= start THEN i ELSE i + count
  <2>1. i \in 1 .. Len(a) + Len(b)
    BY <1>5
  <2>2. CASE i <= k
    BY <1>1, <1>2, <1>5, <2>1, <2>2
  <2>3. CASE i > k
    <3>1. /\ i - k \in 1 .. Len(b)
          /\ start + count + 1 <= Len(s)
          /\ Len(b) = Len(s) - (start + count)
      BY <1>1, <1>2, <1>3, <2>1, <2>3
    <3>2. k = start
      BY <1>1, <3>1
    <3>3. (a \o b)[i] = s[start + count + (i - k)]
      <4>1. (a \o b)[i] = b[i - k]
        BY <1>1, <1>2, <1>5, <2>1, <2>3
      <4>2. b[i - k] = s[start + count + (i - k)]
        BY <1>3, <3>1
      <4> QED
        BY <4>1, <4>2
    <3>4. start + count + (i - k) = i + count /\ i + count \in 1 .. Len(s) /\ i > start
      BY <1>1, <2>1, <2>3, <3>1, <3>2
    <3> QED
      BY <3>3, <3>4
  <2> QED
    BY <1>1, <2>1, <2>2, <2>3
<1> QED
  BY <1>4, <1>5, <1>6

\* An id goes to the end.
LEMMA InsertedAtEnd ==
  ASSUME NEW s \in Seq(Activities), NEW x \in Activities
  PROVE  SpliceIn(s, reverse_bisect_left(s), x) = Append(s, x)
<1>1. CASE s = <<>>
  <2>1. Len(s) = 0 /\ SubSeq(s, 1, 0) = <<>> /\ SubSeq(s, 0 + 1, Len(s)) = <<>>
    BY <1>1
  <2>2. Start(s, 0) = <<>>
    BY <2>1 DEF Start
  <2>3. SpliceIn(s, 0, x) = <<>> \o <<x>> \o <<>>
    BY <2>1, <2>2 DEF SpliceIn
  <2>4. <<>> \o <<x>> \o <<>> = Append(s, x)
    BY <1>1
  <2> QED
    BY <1>1, <2>3, <2>4 DEF reverse_bisect_left
<1>2. CASE s # <<>>
  <2>1. Start(s, Len(s) + 1) = s
    BY DEF Start
  <2>2. SubSeq(s, Len(s) + 2, Len(s)) = <<>>
    OBVIOUS
  <2>3. SpliceIn(s, Len(s) + 1, x) = s \o <<x>> \o <<>>
    BY <2>1, <2>2 DEF SpliceIn
  <2>4. s \o <<x>> \o <<>> = Append(s, x)
    OBVIOUS
  <2> QED
    BY <1>2, <2>3, <2>4 DEF reverse_bisect_left
<1> QED
  BY <1>1, <1>2
-----------------------------------------------------------------------------
(* Types *)

\* The adds under way, for arrays that have only been joined by others.
LEMMA StillAdding ==
  ASSUME microtasks \in Seq(Adding), DOMAIN arrays \subseteq DOMAIN arrays',
         microtasks' = microtasks \/ microtasks' = Disturbed
  PROVE  microtasks' \in Seq(Adding)' /\ Len(microtasks') = Len(microtasks)
<1>1. ASSUME NEW t \in Adding PROVE [t EXCEPT !.alone = FALSE] \in Adding
  BY DEF Adding
<1>2. /\ Disturbed \in [1 .. Len(microtasks) -> Adding]
      /\ Len(microtasks) \in Nat
  BY <1>1 DEF Disturbed
<1>4. Disturbed \in Seq(Adding) /\ Len(Disturbed) = Len(microtasks)
  BY <1>2
<1>3. Adding \subseteq Adding'
  BY DEF Adding
<1> QED
  BY <1>3, <1>4

\* How often an id is in an array.
LEMMA Counted ==
  ASSUME NEW s \in Seq(Activities), NEW a
  PROVE  Cardinality({i \in DOMAIN s : s[i] = a}) \in Nat
<1>1. IsFiniteSet(1 .. Len(s)) /\ DOMAIN s = 1 .. Len(s)
  BY FS_Interval
<1>2. IsFiniteSet({i \in DOMAIN s : s[i] = a})
  BY <1>1, FS_Subset
<1> QED
  BY <1>2, FS_CardinalityType

\* The feed's array.
LEMMA TimelineType ==
  ASSUME TypeOK
  PROVE  Timeline \in Seq(Activities) /\ Elements(Timeline) \subseteq Activities
  BY DEF TypeOK, Timeline, Elements

\* The call of an add with the feed's array, or with a new one.
LEMMA StartAddTyped ==
  ASSUME TypeOK, NEW acts \in Adds, NEW heap, NEW ref, StartAdd(acts, heap, ref),
         heap \in Seq(Seq(Activities)), DOMAIN arrays \subseteq DOMAIN heap, ref \in DOMAIN heap
  PROVE  TypeOK'
<1> USE DEF TypeOK, StartAdd
<1> DEFINE t == [ref |-> ref, todo |-> acts, exist |-> Head(acts) \in Elements(Timeline),
                 acts |-> Elements(acts), alone |-> TRUE]
<1>1. acts \in Seq(Activities) /\ Elements(acts) \subseteq Activities
  BY InMemoryAssumption DEF Elements
<1>2. /\ arrays' \in Seq(Seq(Activities)) /\ timelineStore' \in {0} \cup DOMAIN arrays'
      /\ activityStore' \in SUBSET Activities /\ reads' \in SUBSET Reading /\ calls' \in Nat
  BY DEF Call
<1>3. t \in Adding' /\ Adding \subseteq Adding'
  BY <1>1 DEF Adding
<1>4. microtasks' \in Seq(Adding)'
  <2>1. microtasks \in Seq(Adding') /\ microtasks' = Append(microtasks, t)
    BY <1>3
  <2> HIDE DEF t
  <2> QED
    BY <1>3, <2>1, AppendProperties
<1>5. past' \in History
  <2>1. [a \in Activities |-> IF a \in Elements(acts) THEN past.added[a] + 1 ELSE past.added[a]]
          \in [Activities -> Nat]
    BY DEF History
  <2>2. {a \in Elements(acts) : \E i \in DOMAIN microtasks : a \in microtasks[i].acts}
          \subseteq Activities
    BY <1>1
  <2> QED
    BY <2>1, <2>2 DEF History
<1> QED
  BY <1>2, <1>4, <1>5

\* The add that goes on has an array, and an id to insert.
LEMMA TypesKept ==
  ASSUME TypeOK, [Next]_vars,
         \A i \in DOMAIN microtasks : microtasks[i].todo # <<>>
  PROVE  TypeOK'
<1> USE DEF TypeOK
<1>1. ASSUME NEW S \in Inserts, InsertActivities(S) PROVE TypeOK'
  <2>1. past' \in History
    BY <1>1, InMemoryAssumption DEF InsertActivities, History
  <2>2. Adding' = Adding
    BY <1>1 DEF InsertActivities, Adding
  <2> QED
    BY <1>1, <2>1, <2>2, InMemoryAssumption DEF InsertActivities, Call
<1>2. ASSUME NEW a \in activityStore, RemoveActivity(a) PROVE TypeOK'
  <2>1. past' \in History
    BY <1>2 DEF RemoveActivity, History
  <2>2. Adding' = Adding
    BY <1>2 DEF RemoveActivity, Adding
  <2> QED
    BY <1>2, <2>1, <2>2 DEF RemoveActivity, Call
<1>3. ASSUME NEW acts \in Adds, AddToStorage(acts) PROVE TypeOK'
  <2>1. CASE timelineStore = 0
    <3>1. /\ Append(arrays, <<>>) \in Seq(Seq(Activities))
          /\ DOMAIN arrays \subseteq DOMAIN Append(arrays, <<>>)
          /\ Len(arrays) + 1 \in DOMAIN Append(arrays, <<>>)
      OBVIOUS
    <3>2. StartAdd(acts, Append(arrays, <<>>), Len(arrays) + 1)
      BY <1>3, <2>1 DEF AddToStorage
    <3> QED
      BY <3>1, <3>2, StartAddTyped
  <2>2. CASE timelineStore # 0
    <3>1. StartAdd(acts, arrays, timelineStore)
      BY <1>3, <2>2 DEF AddToStorage
    <3> QED
      BY <2>2, <3>1, StartAddTyped
  <2> QED
    BY <2>1, <2>2
<1>4. CASE Resume
  <2> DEFINE c == Head(microtasks)
  <2>1. /\ microtasks # <<>> /\ c \in Adding /\ c.todo # <<>>
        /\ Tail(microtasks) \in Seq(Adding)
    BY <1>4 DEF Resume
  <2>2. /\ c.ref \in DOMAIN arrays /\ c.todo \in Seq(Activities)
        /\ Head(c.todo) \in Activities /\ Tail(c.todo) \in Seq(Activities)
    BY <2>1 DEF Adding
  <2>3. Insert(c) \in Seq(Seq(Activities)) /\ DOMAIN Insert(c) = DOMAIN arrays
    <3>1. SpliceIn(arrays[c.ref], reverse_bisect_left(arrays[c.ref]), Head(c.todo))
            \in Seq(Activities)
      <4> HIDE DEF c
      <4>1. arrays[c.ref] \in Seq(Activities)
        BY <2>2
      <4>2. \A t \in Seq(Activities), x \in Activities :
              SpliceIn(t, reverse_bisect_left(t), x) \in Seq(Activities)
        <5> SUFFICES ASSUME NEW t \in Seq(Activities), NEW x \in Activities
                     PROVE  SpliceIn(t, reverse_bisect_left(t), x) \in Seq(Activities)
          OBVIOUS
        <5>1. SpliceIn(t, reverse_bisect_left(t), x) = Append(t, x)
          BY InsertedAtEnd
        <5>2. Append(t, x) \in Seq(Activities)
          OBVIOUS
        <5> QED
          BY <5>1, <5>2
      <4> QED
        BY <2>2, <4>1, <4>2, Zenon
    <3> QED
      BY <2>2, <3>1 DEF Insert
  <2>4. /\ arrays' \in Seq(Seq(Activities)) /\ DOMAIN arrays' = DOMAIN arrays
        /\ UNCHANGED <<timelineStore, activityStore, reads, calls, past>>
        /\ Adding' = Adding
    BY <1>4, <2>3 DEF Resume, Adding
  <2>5. microtasks' \in Seq(Adding)
    <3>1. \A rest \in Seq(Activities) : \A e \in BOOLEAN :
            [c EXCEPT !.todo = rest, !.exist = e] \in Adding
      BY <2>1 DEF Adding
    <3>2. \/ microtasks' = Tail(microtasks)
          \/ microtasks' = Append(Tail(microtasks),
               [c EXCEPT !.todo = Tail(c.todo),
                         !.exist = Head(Tail(c.todo)) \in Elements(Timeline')])
      BY <1>4 DEF Resume
    <3>3. [c EXCEPT !.todo = Tail(c.todo), !.exist = Head(Tail(c.todo)) \in Elements(Timeline')]
            \in Adding
      <4>1. (Head(Tail(c.todo)) \in Elements(Timeline')) \in BOOLEAN
        OBVIOUS
      <4> QED
        BY <2>2, <3>1, <4>1, Zenon
    <3>4. \A q \in Seq(Adding), n \in Adding : Append(q, n) \in Seq(Adding)
      BY AppendProperties
    <3> QED
      BY <2>1, <3>2, <3>3, <3>4, Zenon
  <2> QED
    BY <2>4, <2>5
<1>5. CASE RemoveFromStorage
  BY <1>5 DEF RemoveFromStorage, Call, Adding
<1>6. ASSUME NEW s \in Slices, GetSlice(s[1], s[2]) PROVE TypeOK'
  <2> DEFINE page == Page(Timeline, s[1], s[2])
  <2>1. s[1] \in Nat /\ s[2] \in Nat
    BY InMemoryAssumption
  <2>2. page \in Seq(Activities)
    BY <2>1, TimelineType DEF Page
  <2>3. arrays' \in Seq(Seq(Activities)) /\ DOMAIN arrays' = DOMAIN arrays
    <3>1. CASE timelineStore = 0
      BY <1>6, <3>1 DEF GetSlice
    <3>2. CASE timelineStore # 0
      <4> DEFINE rest == SplicedRest(arrays[timelineStore], s[1], s[2])
      <4>1. timelineStore \in DOMAIN arrays /\ arrays[timelineStore] \in Seq(Activities)
        BY <3>2
      <4>2. rest \in Seq(Activities)
        BY <2>1, <4>1, SplicedRestOf, Zenon
      <4>3. arrays' = [arrays EXCEPT ![timelineStore] = rest]
        BY <1>6, <3>2 DEF GetSlice
      <4> HIDE DEF rest
      <4> QED
        BY <4>1, <4>2, <4>3
    <3> QED
      BY <3>1, <3>2
  <2>4. microtasks' \in Seq(Adding)'
    BY <1>6, <2>3, StillAdding DEF GetSlice
  <2>5. reads' \in SUBSET Reading
    <3>1. [ids |-> Elements(page), nth |-> calls] \in Reading
      BY <2>2 DEF Reading, Elements
    <3> QED
      BY <1>6, <3>1 DEF GetSlice
  <2>6. past' \in History
    <3> DEFINE taken ==
          [a \in Activities |-> past.taken[a] + Cardinality({i \in DOMAIN page : page[i] = a})]
    <3>1. taken \in [Activities -> Nat]
      <4>1. ASSUME NEW a \in Activities
            PROVE  past.taken[a] + Cardinality({i \in DOMAIN page : page[i] = a}) \in Nat
        <5> HIDE DEF page
        <5>1. Cardinality({i \in DOMAIN page : page[i] = a}) \in Nat
          BY <2>2, Counted
        <5> QED
          BY <5>1 DEF History
      <4> QED
        BY <4>1
    <3>2. past' = [past EXCEPT !.taken = taken]
      BY <1>6 DEF GetSlice
    <3>3. ASSUME NEW f \in [Activities -> Nat]
          PROVE  [past EXCEPT !.taken = f] \in History
      BY DEF History
    <3>4. [past EXCEPT !.taken = taken] \in History
      BY <3>1, <3>3
    <3> QED
      BY <3>2, <3>4
  <2> QED
    BY <1>6, <2>3, <2>4, <2>5, <2>6 DEF GetSlice, Call
<1>7. ASSUME NEW r \in reads, Hydrate(r) PROVE TypeOK'
  <2>1. r.ids \subseteq Activities
    BY DEF Reading
  <2>2. past' \in History
    <3>1. [past EXCEPT !.nulls = past.nulls \cup {r.ids}] \in History
      <4>1. past.nulls \cup {r.ids} \in SUBSET SUBSET Activities
        BY <2>1 DEF History
      <4>2. \A N \in SUBSET SUBSET Activities : [past EXCEPT !.nulls = N] \in History
        BY DEF History
      <4> QED
        BY <4>1, <4>2
    <3> QED
      BY <1>7, <3>1 DEF Hydrate
  <2>3. Adding' = Adding
    BY <1>7 DEF Hydrate, Adding
  <2> QED
    BY <1>7, <2>2, <2>3 DEF Hydrate
<1>8. CASE Trim
  <2> DEFINE s == arrays[timelineStore]
             rest == SubSeq(s, MaxLength + 1, Len(s))
             heap == [arrays EXCEPT ![timelineStore] = Start(s, MaxLength)]
  <2>1. timelineStore \in DOMAIN arrays /\ s \in Seq(Activities) /\ MaxLength \in Nat
    BY <1>8, InMemoryAssumption DEF Trim
  <2>2. Start(s, MaxLength) \in Seq(Activities) /\ rest \in Seq(Activities)
    BY <2>1 DEF Start
  <2>3. heap \in Seq(Seq(Activities)) /\ Len(heap) = Len(arrays)
    BY <2>1, <2>2
  <2>4. arrays' = Append(heap, rest) /\ timelineStore' = Len(arrays) + 1
    BY <1>8, <2>1 DEF Trim, Timeline
  <2> HIDE DEF heap, rest
  <2>5. /\ arrays' \in Seq(Seq(Activities)) /\ DOMAIN arrays \subseteq DOMAIN arrays'
        /\ timelineStore' \in DOMAIN arrays'
    BY <2>2, <2>3, <2>4
  <2>6. microtasks' \in Seq(Adding)'
    BY <1>8, <2>5, StillAdding DEF Trim
  <2> QED
    BY <1>8, <2>5, <2>6 DEF Trim, Call
<1>9. CASE Delete
  <2>1. microtasks' \in Seq(Adding)'
    BY <1>9, StillAdding DEF Delete
  <2> QED
    BY <1>9, <2>1 DEF Delete, Call
<1>10. CASE Flush
  <2>1. microtasks' \in Seq(Adding)'
    BY <1>10, StillAdding DEF Flush
  <2>2. past' \in History
    BY <1>10 DEF Flush, History
  <2> QED
    BY <1>10, <2>1, <2>2 DEF Flush, Call
<1>11. CASE UNCHANGED vars
  BY <1>11 DEF vars, Adding
<1> QED
  BY <1>1, <1>2, <1>3, <1>4, <1>5, <1>6, <1>7, <1>8, <1>9, <1>10, <1>11 DEF Next

-----------------------------------------------------------------------------
(* Each id once *)

\* An add that waits has an id to insert, and its ids are its own.
Carried ==
  \A i \in DOMAIN microtasks :
    microtasks[i].todo # <<>> /\ Elements(microtasks[i].todo) \subseteq microtasks[i].acts

\* Two adds under way have an id in common only when it overlapped.
Apart ==
  \A i, j \in DOMAIN microtasks :
    i # j => microtasks[i].acts \cap microtasks[j].acts \subseteq past.overlapped

\* What an add has seen of its next id is still so when it goes on.
Fresh ==
  \A i \in DOMAIN microtasks :
    /\ microtasks[i].ref = timelineStore
    /\ ~microtasks[i].exist
    /\ Head(microtasks[i].todo) \notin past.overlapped
    => Head(microtasks[i].todo) \notin Elements(arrays[timelineStore])

OnceInv == TypeOK /\ Carried /\ Apart /\ Fresh /\ OnceEach

\* What a read, a trim or a deletion leaves of the adds under way.
LEMMA SameTasks ==
  ASSUME TypeOK, microtasks' = microtasks \/ microtasks' = Disturbed
  PROVE  /\ DOMAIN microtasks' = DOMAIN microtasks
         /\ \A i \in DOMAIN microtasks :
              /\ microtasks'[i].ref = microtasks[i].ref
              /\ microtasks'[i].todo = microtasks[i].todo
              /\ microtasks'[i].exist = microtasks[i].exist
              /\ microtasks'[i].acts = microtasks[i].acts
<1>1. ASSUME NEW t \in Adding
      PROVE  LET u == [t EXCEPT !.alone = FALSE] IN
             u.ref = t.ref /\ u.todo = t.todo /\ u.exist = t.exist /\ u.acts = t.acts
  BY DEF Adding
<1>2. \A i \in DOMAIN microtasks : microtasks[i] \in Adding
  BY DEF TypeOK
<1>3. CASE microtasks' = microtasks
  BY <1>3
<1>4. CASE microtasks' = Disturbed
  BY <1>1, <1>2, <1>4 DEF Disturbed
<1> QED
  BY <1>3, <1>4

\* A step that leaves the adds as they are, and of the feed's array some distinct
\* places, or makes the feed a new array.
LEMMA OnceKeptByOthers ==
  ASSUME OnceInv, microtasks' = microtasks \/ microtasks' = Disturbed,
         past'.overlapped = past.overlapped,
         \/ timelineStore' = 0
         \/ /\ timelineStore' = timelineStore
            /\ Elements(Timeline') \subseteq Elements(Timeline)
         \/ timelineStore' \notin DOMAIN arrays,
         \A i, j \in DOMAIN Timeline' :
           /\ Timeline'[i] \in Activities
           /\ Timeline'[i] = Timeline'[j] /\ Timeline'[i] \notin past.overlapped => i = j
  PROVE  Carried' /\ Apart' /\ Fresh' /\ OnceEach'
<1>1. /\ DOMAIN microtasks' = DOMAIN microtasks
      /\ \A i \in DOMAIN microtasks :
           /\ microtasks'[i].ref = microtasks[i].ref
           /\ microtasks'[i].todo = microtasks[i].todo
           /\ microtasks'[i].exist = microtasks[i].exist
           /\ microtasks'[i].acts = microtasks[i].acts
  BY SameTasks DEF OnceInv
<1>2. \A i \in DOMAIN microtasks : microtasks[i].ref \in DOMAIN arrays
  <2>1. \A i \in DOMAIN microtasks : microtasks[i] \in Adding
    BY DEF OnceInv, TypeOK
  <2> QED
    BY <2>1 DEF Adding
<1>3. 0 \notin DOMAIN arrays
  BY DEF OnceInv, TypeOK
<1>4. Carried'
  BY <1>1 DEF OnceInv, Carried, Elements
<1>5. Apart'
  BY <1>1 DEF OnceInv, Apart
<1>6. Fresh'
  <2> SUFFICES ASSUME NEW i \in DOMAIN microtasks,
                      microtasks[i].ref = timelineStore', ~microtasks[i].exist,
                      Head(microtasks[i].todo) \notin past.overlapped
               PROVE  Head(microtasks[i].todo) \notin Elements(arrays[timelineStore])'
    BY <1>1 DEF Fresh
  <2>1. /\ timelineStore' = timelineStore /\ timelineStore # 0
        /\ Elements(Timeline') \subseteq Elements(Timeline)
    BY <1>2, <1>3
  <2>2. Timeline = arrays[timelineStore] /\ Timeline' = arrays'[timelineStore']
    BY <2>1 DEF Timeline
  <2> QED
    BY <2>1, <2>2 DEF OnceInv, Fresh, Elements
<1>7. OnceEach'
  BY DEF OnceEach
<1> QED
  BY <1>4, <1>5, <1>6, <1>7

\* An add to the feed's array, or to the new one of a feed without.
LEMMA OnceKeptByAdd ==
  ASSUME OnceInv, NEW acts \in Adds, NEW heap, NEW ref, StartAdd(acts, heap, ref),
         \/ heap = arrays /\ ref = timelineStore /\ ref # 0
         \/ timelineStore = 0 /\ heap = Append(arrays, <<>>) /\ ref = Len(arrays) + 1
  PROVE  Carried' /\ Apart' /\ Fresh' /\ OnceEach'
<1> DEFINE n == Len(microtasks) + 1
           t == [ref |-> ref, todo |-> acts, exist |-> Head(acts) \in Elements(Timeline),
                 acts |-> Elements(acts), alone |-> TRUE]
           both == {a \in Elements(acts) : \E i \in DOMAIN microtasks : a \in microtasks[i].acts}
<1>1. acts \in Seq(Activities) /\ acts # <<>>
  BY InMemoryAssumption
<1>2. microtasks \in Seq(Adding) /\ arrays \in Seq(Seq(Activities)) /\ past \in History
  BY DEF OnceInv, TypeOK
<1>3. /\ DOMAIN microtasks' = 1 .. n /\ DOMAIN microtasks = 1 .. n - 1 /\ n \in Nat
      /\ microtasks'[n] = t /\ \A i \in 1 .. n - 1 : microtasks'[i] = microtasks[i]
  <2>1. microtasks' = Append(microtasks, t)
    BY DEF StartAdd
  <2> HIDE DEF t
  <2> QED
    BY <1>2, <2>1
<1>4. past'.overlapped = past.overlapped \cup both
  BY <1>2 DEF StartAdd, History
<1>5. /\ t.ref = ref /\ t.todo = acts /\ t.acts = Elements(acts)
      /\ t.exist = (Head(acts) \in Elements(Timeline))
  OBVIOUS
<1>6. timelineStore' = ref /\ arrays' = heap /\ ref # 0
  BY <1>2 DEF StartAdd
<1>7. Timeline' = Timeline /\ arrays'[ref] = Timeline
  BY <1>2, <1>6 DEF Timeline
<1> HIDE DEF n, t
<1>8. Carried'
  <2> SUFFICES ASSUME NEW i \in 1 .. n
               PROVE  /\ microtasks'[i].todo # <<>>
                      /\ Elements(microtasks'[i].todo) \subseteq microtasks'[i].acts
    BY <1>3 DEF Carried, Elements
  <2>1. CASE i = n
    BY <1>1, <1>3, <1>5, <2>1
  <2>2. CASE i # n
    BY <1>3, <2>2 DEF OnceInv, Carried
  <2> QED
    BY <2>1, <2>2
<1>9. Apart'
  <2> SUFFICES ASSUME NEW i \in 1 .. n, NEW j \in 1 .. n, i # j,
                      NEW a \in microtasks'[i].acts, a \in microtasks'[j].acts
               PROVE  a \in past.overlapped \cup both
    BY <1>3, <1>4 DEF Apart
  <2>1. CASE i = n
    BY <1>3, <1>5, <2>1
  <2>2. CASE j = n
    BY <1>3, <1>5, <2>2
  <2>3. CASE i # n /\ j # n
    BY <1>3, <2>3 DEF OnceInv, Apart
  <2> QED
    BY <2>1, <2>2, <2>3
<1>10. Fresh'
  <2> SUFFICES ASSUME NEW i \in 1 .. n,
                      microtasks'[i].ref = ref, ~microtasks'[i].exist,
                      Head(microtasks'[i].todo) \notin past.overlapped \cup both
               PROVE  Head(microtasks'[i].todo) \notin Elements(Timeline)
    BY <1>3, <1>4, <1>6, <1>7 DEF Fresh, Elements
  <2>2. CASE i = n
    BY <1>3, <1>5, <2>2
  <2>3. CASE i # n
    <3>1. microtasks'[i] = microtasks[i] /\ i \in DOMAIN microtasks
      BY <1>3, <2>3
    <3>2. CASE ref = timelineStore
      <4>1. Head(microtasks[i].todo) \notin Elements(arrays[timelineStore])
        BY <3>1, <3>2 DEF OnceInv, Fresh
      <4>2. Timeline = arrays[timelineStore]
        BY <1>6, <3>2 DEF Timeline
      <4> QED
        BY <3>1, <4>1, <4>2
    <3>3. CASE timelineStore = 0
      BY <3>3 DEF Timeline, Elements
    <3> QED
      BY <3>2, <3>3
  <2> QED
    BY <2>2, <2>3
<1>11. OnceEach'
  BY <1>4, <1>7 DEF OnceInv, OnceEach
<1> QED
  BY <1>8, <1>9, <1>10, <1>11

\* The add that goes on, its next id, and what it is afterwards if it has more of them.
Oldest == Head(microtasks)
NextId == Head(Oldest.todo)
Shorter == [Oldest EXCEPT !.todo = Tail(Oldest.todo),
                          !.exist = Head(Tail(Oldest.todo)) \in Elements(Timeline')]

\* An add that goes on: the others move up, and it comes last unless it has ended.  What
\* the feed holds more than before is the id, and only when it was not found there.
LEMMA ResumeStep ==
  ASSUME OnceInv, Resume
  PROVE  LET n == Len(microtasks)
             more == Tail(Oldest.todo) # <<>>
         IN /\ n \in Nat \ {0} /\ DOMAIN microtasks = 1 .. n /\ Oldest = microtasks[1]
            /\ Oldest \in Adding /\ Oldest.todo # <<>> /\ Oldest.todo \in Seq(Activities)
            /\ Oldest.ref \in DOMAIN arrays
            /\ NextId \in Oldest.acts /\ NextId \in Activities
            /\ Elements(Tail(Oldest.todo)) \subseteq Oldest.acts
            /\ Shorter.todo = Tail(Oldest.todo) /\ Shorter.ref = Oldest.ref
            /\ Shorter.acts = Oldest.acts /\ Shorter.alone = Oldest.alone
            /\ Shorter.exist = (Head(Tail(Oldest.todo)) \in Elements(Timeline'))
            /\ DOMAIN microtasks' = IF more THEN 1 .. n ELSE 1 .. n - 1
            /\ \A i \in 1 .. n - 1 : microtasks'[i] = microtasks[i + 1]
            /\ more => microtasks'[n] = Shorter
            /\ timelineStore' = timelineStore /\ past' = past
            /\ \/ /\ Timeline' = Timeline
                  /\ Oldest.exist \/ Oldest.ref # timelineStore
               \/ /\ ~Oldest.exist /\ Oldest.ref = timelineStore /\ timelineStore # 0
                  /\ Timeline \in Seq(Activities) /\ Timeline' = Append(Timeline, NextId)
<1> DEFINE c == Oldest
           x == NextId
           q == Tail(microtasks)
           n == Len(microtasks)
           u == Shorter
           more == Tail(c.todo) # <<>>
<1> USE DEF Oldest, NextId, Shorter
<1>1. microtasks \in Seq(Adding) /\ arrays \in Seq(Seq(Activities)) /\ microtasks # <<>>
  BY DEF OnceInv, TypeOK, Resume
<1>2. /\ n \in Nat \ {0} /\ DOMAIN microtasks = 1 .. n
      /\ c = microtasks[1] /\ 1 \in DOMAIN microtasks
      /\ q \in Seq(Adding) /\ Len(q) = n - 1 /\ \A i \in 1 .. n - 1 : q[i] = microtasks[i + 1]
  BY <1>1, HeadTailProperties
<1>3. /\ c \in Adding /\ c.todo # <<>> /\ Elements(c.todo) \subseteq c.acts
      /\ c.todo \in Seq(Activities) /\ c.ref \in DOMAIN arrays
  <2>1. microtasks[1] \in Adding
    BY <1>1, <1>2
  <2>2. microtasks[1].todo # <<>> /\ Elements(microtasks[1].todo) \subseteq microtasks[1].acts
    BY <1>2 DEF OnceInv, Carried
  <2>3. microtasks[1].todo \in Seq(Activities) /\ microtasks[1].ref \in DOMAIN arrays
    BY <2>1 DEF Adding
  <2> QED
    BY <1>2, <2>1, <2>2, <2>3
<1>4. /\ x \in c.acts /\ x \in Activities /\ Tail(c.todo) \in Seq(Activities)
      /\ Elements(Tail(c.todo)) \subseteq c.acts
  BY <1>3 DEF Elements
<1>5. /\ u.todo = Tail(c.todo) /\ u.ref = c.ref /\ u.acts = c.acts
      /\ u.exist = (Head(Tail(c.todo)) \in Elements(Timeline'))
  BY <1>3 DEF Adding
<1>10. u.alone = c.alone
  BY <1>3 DEF Adding
\* The task that follows place i of the tasks after the step: itself, or what c becomes.
<1>6. /\ DOMAIN microtasks' = IF more THEN 1 .. n ELSE 1 .. n - 1
      /\ \A i \in 1 .. n - 1 : microtasks'[i] = microtasks[i + 1]
      /\ more => microtasks'[n] = u
  <2>1. IF more THEN microtasks' = Append(q, u) ELSE microtasks' = q
    BY DEF Resume
  <2>2. Len(q) = n - 1 /\ n \in Nat \ {0} /\ q \in Seq(Adding)
        /\ \A i \in 1 .. n - 1 : q[i] = microtasks[i + 1]
    BY <1>2
  <2> HIDE DEF c, q, u, more, n
  <2>3. CASE more
    <3>1. microtasks' = Append(q, u)
      BY <2>1, <2>3
    <3>2. /\ DOMAIN Append(q, u) = 1 .. n /\ Append(q, u)[n] = u
          /\ \A i \in 1 .. n - 1 : Append(q, u)[i] = q[i]
      BY <2>2
    <3> QED
      BY <2>2, <2>3, <3>1, <3>2
  <2>4. CASE ~more
    BY <2>1, <2>2, <2>4
  <2> QED
    BY <2>3, <2>4
<1>7. /\ arrays' = Insert(c) /\ timelineStore' = timelineStore /\ past' = past
  BY DEF Resume
<1>8. arrays' = IF c.exist THEN arrays ELSE [arrays EXCEPT ![c.ref] = Append(@, x)]
  <2>1. SpliceIn(arrays[c.ref], reverse_bisect_left(arrays[c.ref]), x) = Append(arrays[c.ref], x)
    <3>1. arrays[c.ref] \in Seq(Activities)
      BY <1>1, <1>3
    <3> HIDE DEF x, c
    <3> QED
      BY <1>4, <3>1, InsertedAtEnd, Zenon
  <2> QED
    BY <1>3, <1>7, <2>1 DEF Insert
\* What the feed holds more than before is x, and only when c had not found it there.
<1>9. \/ Timeline' = Timeline /\ (c.exist \/ c.ref # timelineStore)
      \/ /\ ~c.exist /\ c.ref = timelineStore /\ timelineStore # 0
         /\ Timeline \in Seq(Activities) /\ Timeline' = Append(Timeline, x)
  <2> HIDE DEF c, x
  <2>0. c.ref # 0
    BY <1>1, <1>3
  <2>1. CASE c.exist \/ c.ref # timelineStore
    BY <1>1, <1>3, <1>7, <1>8, <2>1 DEF Timeline
  <2>2. CASE ~c.exist /\ c.ref = timelineStore /\ timelineStore # 0
    <3>1. arrays'[timelineStore] = Append(arrays[timelineStore], x)
      BY <1>1, <1>3, <1>8, <2>2
    <3>2. arrays[timelineStore] \in Seq(Activities)
      BY <1>1, <1>3, <2>2
    <3> QED
      BY <1>7, <2>2, <3>1, <3>2 DEF Timeline
  <2> QED
    BY <2>0, <2>1, <2>2
<1> HIDE DEF c, x, q, n, u, more, Oldest, NextId, Shorter
<1>11. c = Oldest /\ x = NextId /\ u = Shorter /\ n = Len(microtasks)
      /\ (more <=> Tail(Oldest.todo) # <<>>)
  BY DEF c, x, u, n, more
<1> QED
  BY <1>2, <1>3, <1>4, <1>5, <1>6, <1>7, <1>9, <1>10, <1>11

LEMMA OnceKeptByResume ==
  ASSUME OnceInv, Resume
  PROVE  Carried' /\ Apart' /\ Fresh' /\ OnceEach'
<1> DEFINE c == Oldest
           x == NextId
           n == Len(microtasks)
           u == Shorter
           more == Tail(c.todo) # <<>>
<1>1. microtasks \in Seq(Adding) /\ arrays \in Seq(Seq(Activities))
  BY DEF OnceInv, TypeOK
<1>2. n \in Nat \ {0} /\ DOMAIN microtasks = 1 .. n /\ c = microtasks[1] /\ 1 \in DOMAIN microtasks
  BY ResumeStep
<1>4. x \in c.acts /\ Elements(Tail(c.todo)) \subseteq c.acts
  BY ResumeStep
<1>5. /\ u.todo = Tail(c.todo) /\ u.ref = c.ref /\ u.acts = c.acts
      /\ u.exist = (Head(Tail(c.todo)) \in Elements(Timeline'))
  BY ResumeStep
<1>6. /\ DOMAIN microtasks' = IF more THEN 1 .. n ELSE 1 .. n - 1
      /\ \A i \in 1 .. n - 1 : microtasks'[i] = microtasks[i + 1]
      /\ more => microtasks'[n] = u
  BY ResumeStep
<1>7. timelineStore' = timelineStore /\ past' = past
  BY ResumeStep
<1>9. \/ Timeline' = Timeline
      \/ /\ ~c.exist /\ c.ref = timelineStore /\ timelineStore # 0
         /\ Timeline \in Seq(Activities) /\ Timeline' = Append(Timeline, x)
  BY ResumeStep
<1> HIDE DEF c, x, n, u, more
<1>10. Carried'
  <2> SUFFICES ASSUME NEW i \in DOMAIN microtasks'
               PROVE  /\ microtasks'[i].todo # <<>>
                      /\ Elements(microtasks'[i].todo) \subseteq microtasks'[i].acts
    BY DEF Carried, Elements
  <2>1. CASE i \in 1 .. n - 1
    BY <1>2, <1>6, <2>1 DEF OnceInv, Carried
  <2>2. CASE i = n /\ more
    BY <1>4, <1>5, <1>6, <2>2 DEF more
  <2> QED
    BY <1>2, <1>6, <2>1, <2>2
\* Each task is one that was there, with the same ids: c comes last.
<1>11. \A i \in DOMAIN microtasks' :
         LET p == IF i = n THEN 1 ELSE i + 1 IN
         p \in 1 .. n /\ microtasks'[i].acts = microtasks[p].acts
  BY <1>2, <1>5, <1>6
<1>12. Apart'
  <2> SUFFICES ASSUME NEW i \in DOMAIN microtasks', NEW j \in DOMAIN microtasks', i # j
               PROVE  microtasks'[i].acts \cap microtasks'[j].acts \subseteq past.overlapped
    BY <1>7 DEF Apart
  <2> DEFINE a == IF i = n THEN 1 ELSE i + 1
             b == IF j = n THEN 1 ELSE j + 1
  <2>1. a \in 1 .. n /\ b \in 1 .. n /\ a # b
    BY <1>2, <1>6, <1>11
  <2>2. microtasks'[i].acts = microtasks[a].acts /\ microtasks'[j].acts = microtasks[b].acts
    BY <1>11
  <2> QED
    BY <1>2, <2>1, <2>2 DEF OnceInv, Apart
<1>13. Fresh'
  <2> SUFFICES ASSUME NEW i \in DOMAIN microtasks',
                      microtasks'[i].ref = timelineStore, ~microtasks'[i].exist,
                      Head(microtasks'[i].todo) \notin past.overlapped
               PROVE  Head(microtasks'[i].todo) \notin Elements(arrays'[timelineStore])
    BY <1>7 DEF Fresh, Elements
  <2>1. \A k \in DOMAIN microtasks : microtasks[k].ref # 0
    <3>1. \A k \in DOMAIN microtasks : microtasks[k] \in Adding
      BY <1>1
    <3>2. 0 \notin DOMAIN arrays
      BY <1>1
    <3> QED
      BY <3>1, <3>2 DEF Adding
  <2>2. timelineStore # 0
    <3>1. CASE i \in 1 .. n - 1
      <4>1. i + 1 \in DOMAIN microtasks /\ microtasks'[i] = microtasks[i + 1]
        BY <1>2, <1>6, <3>1
      <4> QED
        BY <2>1, <4>1
    <3>2. CASE i = n /\ more
      BY <1>2, <1>5, <1>6, <2>1, <3>2
    <3> QED
      BY <1>2, <1>6, <3>1, <3>2
  <2>3. Timeline = arrays[timelineStore] /\ Timeline' = arrays'[timelineStore]
    BY <1>7, <2>2 DEF Timeline
  <2>4. CASE i \in 1 .. n - 1
    <3> DEFINE y == Head(microtasks[i + 1].todo)
    <3>1. i + 1 \in DOMAIN microtasks /\ microtasks'[i] = microtasks[i + 1] /\ i + 1 # 1
      BY <1>2, <1>6, <2>4
    <3>2. y \notin Elements(Timeline)
      BY <2>3, <3>1 DEF OnceInv, Fresh
    <3>3. y \in microtasks[i + 1].acts
      <4>1. microtasks[i + 1] \in Adding
        BY <1>1, <3>1
      <4>2. microtasks[i + 1].todo # <<>> /\ microtasks[i + 1].todo \in Seq(Activities)
        BY <3>1, <4>1 DEF OnceInv, Carried, Adding
      <4>3. y \in Elements(microtasks[i + 1].todo)
        BY <4>2 DEF Elements
      <4> QED
        BY <3>1, <4>3 DEF OnceInv, Carried
    <3>4. y # x
      BY <1>2, <1>4, <3>1, <3>3 DEF OnceInv, Apart
    <3> HIDE DEF y
    <3>5. y \notin Elements(Timeline')
      BY <1>9, <3>2, <3>4 DEF Elements
    <3> QED
      BY <2>3, <3>1, <3>5 DEF y
  <2>5. CASE i = n /\ more
    BY <1>5, <1>6, <2>3, <2>5
  <2> QED
    BY <1>2, <1>6, <2>4, <2>5
<1>14. OnceEach'
  <2>1. CASE Timeline' = Timeline
    BY <1>7, <2>1 DEF OnceInv, OnceEach
  <2>2. CASE /\ ~c.exist /\ c.ref = timelineStore /\ timelineStore # 0
             /\ Timeline \in Seq(Activities) /\ Timeline' = Append(Timeline, x)
    <3>1. Timeline = arrays[timelineStore]
      BY <2>2 DEF Timeline
    <3>2. x \notin past.overlapped => x \notin Elements(Timeline)
      BY <1>2, <2>2, <3>1 DEF OnceInv, Fresh, x, c, NextId
    <3>3. /\ DOMAIN Timeline' = 1 .. Len(Timeline) + 1 /\ Len(Timeline) \in Nat
          /\ DOMAIN Timeline = 1 .. Len(Timeline)
          /\ Timeline'[Len(Timeline) + 1] = x
          /\ \A i \in 1 .. Len(Timeline) : Timeline'[i] = Timeline[i]
      BY <2>2
    <3> SUFFICES ASSUME NEW a \in Activities, a \notin past.overlapped,
                        NEW i \in DOMAIN Timeline', NEW j \in DOMAIN Timeline',
                        Timeline'[i] = a, Timeline'[j] = a
                 PROVE  i = j
      BY <1>7 DEF OnceEach
    <3>4. CASE a = x
      BY <3>2, <3>3, <3>4 DEF Elements
    <3>5. CASE a # x
      BY <3>3, <3>5 DEF OnceInv, OnceEach
    <3> QED
      BY <3>4, <3>5
  <2> QED
    BY <1>9, <2>1, <2>2
<1> QED
  BY <1>10, <1>12, <1>13, <1>14

\* The places of the rest of an array that hold an id come from places that held it.
LEMMA RestDistinct ==
  ASSUME NEW s \in Seq(Activities), NEW S, NEW start \in Nat, NEW count \in Nat,
         \A i, j \in DOMAIN s : s[i] = s[j] /\ s[i] \notin S => i = j
  PROVE  LET rest == SplicedRest(s, start, count) IN
         /\ Elements(rest) \subseteq Elements(s)
         /\ \A i, j \in DOMAIN rest :
              /\ rest[i] \in Activities
              /\ rest[i] = rest[j] /\ rest[i] \notin S => i = j
<1> DEFINE rest == SplicedRest(s, start, count)
           from(i) == IF i <= start THEN i ELSE i + count
<1>1. rest \in Seq(Activities)
  BY SplicedRestOf
<1>2. ASSUME NEW i \in DOMAIN rest
      PROVE  from(i) \in DOMAIN s /\ rest[i] = s[from(i)]
  <2>1. PICK p \in DOMAIN s : rest[i] = s[p] /\ p = IF i <= start THEN i ELSE i + count
    BY SplicedRestOf
  <2> QED
    BY <2>1
<1>3. \A i \in DOMAIN rest : rest[i] \in Activities /\ i \in Nat
  BY <1>1
<1> HIDE DEF rest
<1>4. \A i, j \in DOMAIN rest : from(i) = from(j) => i = j
  BY <1>3
<1> HIDE DEF from
<1>5. Elements(rest) \subseteq Elements(s)
  BY <1>2 DEF Elements
<1>6. \A i, j \in DOMAIN rest : rest[i] = rest[j] /\ rest[i] \notin S => i = j
  BY <1>2, <1>4
<1> QED
  BY <1>3, <1>5, <1>6 DEF rest

\* What the tail of an array holds, likewise.
LEMMA TailDistinct ==
  ASSUME NEW s \in Seq(Activities), NEW S, NEW n \in Nat,
         \A i, j \in DOMAIN s : s[i] = s[j] /\ s[i] \notin S => i = j
  PROVE  LET rest == SubSeq(s, n + 1, Len(s)) IN
         \A i, j \in DOMAIN rest :
           /\ rest[i] \in Activities
           /\ rest[i] = rest[j] /\ rest[i] \notin S => i = j
<1> DEFINE rest == SubSeq(s, n + 1, Len(s))
<1>1. /\ rest \in Seq(Activities) /\ Len(s) \in Nat
      /\ DOMAIN rest = 1 .. (IF n + 1 <= Len(s) THEN Len(s) - n ELSE 0)
      /\ \A i \in DOMAIN rest : rest[i] = s[n + i]
  OBVIOUS
<1> HIDE DEF rest
<1>2. \A i \in DOMAIN rest : n + i \in DOMAIN s /\ i \in Nat /\ rest[i] \in Activities
  BY <1>1
<1> QED
  BY <1>1, <1>2 DEF rest

\* An add takes the feed's array, or makes the feed an empty one.
LEMMA AddStep ==
  ASSUME OnceInv, NEW acts \in Adds, AddToStorage(acts)
  PROVE  \E heap, ref :
           /\ StartAdd(acts, heap, ref) /\ Timeline' = Timeline
           /\ \/ heap = arrays /\ ref = timelineStore /\ ref # 0
              \/ timelineStore = 0 /\ heap = Append(arrays, <<>>) /\ ref = Len(arrays) + 1
<1>1. arrays \in Seq(Seq(Activities))
  BY DEF OnceInv, TypeOK
<1>2. CASE timelineStore = 0
  <2>1. StartAdd(acts, Append(arrays, <<>>), Len(arrays) + 1)
    BY <1>2 DEF AddToStorage
  <2>2. Timeline' = <<>>
    BY <1>1, <2>1 DEF StartAdd, Timeline
  <2> QED
    BY <1>2, <2>1, <2>2 DEF Timeline
<1>3. CASE timelineStore # 0
  <2>1. StartAdd(acts, arrays, timelineStore)
    BY <1>3 DEF AddToStorage
  <2>2. Timeline' = Timeline
    BY <2>1 DEF StartAdd, Timeline
  <2> QED
    BY <1>3, <2>1, <2>2
<1> QED
  BY <1>2, <1>3

\* A read leaves of the feed's array what splice leaves.
LEMMA GetSliceStep ==
  ASSUME OnceInv, NEW start, NEW stop, GetSlice(start, stop)
  PROVE  /\ timelineStore' = timelineStore /\ microtasks' = Disturbed
         /\ past'.overlapped = past.overlapped
         /\ \/ timelineStore = 0 /\ Timeline' = Timeline
            \/ timelineStore # 0 /\ Timeline' = SplicedRest(Timeline, start, stop)
<1>1. /\ timelineStore' = timelineStore /\ microtasks' = Disturbed
      /\ past'.overlapped = past.overlapped
  BY DEF GetSlice, OnceInv, TypeOK, History
<1>2. CASE timelineStore = 0
  BY <1>1, <1>2 DEF Timeline
<1>3. CASE timelineStore # 0
  <2>1. arrays' = [arrays EXCEPT ![timelineStore] = SplicedRest(arrays[timelineStore], start, stop)]
    BY <1>3 DEF GetSlice
  <2>2. timelineStore \in DOMAIN arrays
    BY <1>3 DEF OnceInv, TypeOK
  <2> QED
    BY <1>1, <1>3, <2>1, <2>2 DEF Timeline
<1> QED
  BY <1>1, <1>2, <1>3

\* A trim makes the feed a new array of the ids from MaxLength on.
LEMMA TrimStep ==
  ASSUME OnceInv, Trim
  PROVE  /\ Timeline' = SubSeq(Timeline, MaxLength + 1, Len(Timeline))
         /\ timelineStore' \notin DOMAIN arrays
         /\ microtasks' = Disturbed /\ past' = past
<1> DEFINE rest == SubSeq(Timeline, MaxLength + 1, Len(Timeline))
           heap == [arrays EXCEPT ![timelineStore] = Start(arrays[timelineStore], MaxLength)]
<1>1. Timeline \in Seq(Activities) /\ MaxLength \in Nat
  BY InMemoryAssumption, TimelineType DEF OnceInv
<1>2. arrays \in Seq(Seq(Activities)) /\ timelineStore \in DOMAIN arrays
  BY DEF OnceInv, TypeOK, Trim
<1>3. arrays' = Append(heap, rest) /\ timelineStore' = Len(arrays) + 1
  BY DEF Trim
<1>4. heap \in Seq(Seq(Activities)) /\ Len(heap) = Len(arrays)
  <2>1. Start(arrays[timelineStore], MaxLength) \in Seq(Activities)
    BY <1>1, <1>2 DEF Start
  <2> QED
    BY <1>2, <2>1
<1>5. rest \in Seq(Activities)
  BY <1>1
<1> HIDE DEF heap, rest
<1>6. Append(heap, rest)[Len(heap) + 1] = rest
  BY <1>4, <1>5, AppendProperties
<1>7. Timeline' = rest /\ timelineStore' \notin DOMAIN arrays
  BY <1>2, <1>3, <1>4, <1>6 DEF Timeline
<1> QED
  BY <1>7 DEF Trim, rest

\* The strengthened invariant is inductive.
LEMMA OnceInvKept ==
  ASSUME OnceInv, [Next]_vars
  PROVE  OnceInv'
<1>1. TypeOK'
  BY TypesKept DEF OnceInv, Carried
<1>2. \A i, j \in DOMAIN Timeline :
        /\ Timeline[i] \in Activities
        /\ Timeline[i] = Timeline[j] /\ Timeline[i] \notin past.overlapped => i = j
  <2>1. Timeline \in Seq(Activities)
    BY TimelineType DEF OnceInv
  <2>2. \A i \in DOMAIN Timeline : Timeline[i] \in Activities
    BY <2>1
  <2> QED
    BY <2>2 DEF OnceInv, OnceEach
\* Steps that leave the feed's array alone.
<1>3. ASSUME timelineStore' = timelineStore, arrays' = arrays, microtasks' = microtasks,
             past'.overlapped = past.overlapped
      PROVE  Carried' /\ Apart' /\ Fresh' /\ OnceEach'
  <2>1. Timeline' = Timeline
    BY <1>3 DEF Timeline
  <2> QED
    BY <1>2, <1>3, <2>1, OnceKeptByOthers
\* Steps that leave the feed without an array.
<1>4. ASSUME timelineStore' = 0, microtasks' = Disturbed, past'.overlapped = past.overlapped
      PROVE  Carried' /\ Apart' /\ Fresh' /\ OnceEach'
  <2>1. Timeline' = <<>>
    BY <1>4 DEF Timeline
  <2> QED
    BY <1>4, <2>1, OnceKeptByOthers
<1>5. past \in History
  BY DEF OnceInv, TypeOK
<1>6. Carried' /\ Apart' /\ Fresh' /\ OnceEach'
  <2>1. ASSUME NEW S \in Inserts, InsertActivities(S) PROVE Carried' /\ Apart' /\ Fresh' /\ OnceEach'
    BY <1>3, <1>5, <2>1 DEF InsertActivities, History
  <2>2. ASSUME NEW a \in activityStore, RemoveActivity(a)
        PROVE  Carried' /\ Apart' /\ Fresh' /\ OnceEach'
    BY <1>3, <1>5, <2>2 DEF RemoveActivity, History
  <2>3. ASSUME NEW acts \in Adds, AddToStorage(acts)
        PROVE  Carried' /\ Apart' /\ Fresh' /\ OnceEach'
    BY <2>3, AddStep, OnceKeptByAdd
  <2>4. CASE Resume
    BY <2>4, OnceKeptByResume
  <2>5. CASE RemoveFromStorage
    BY <1>3, <2>5 DEF RemoveFromStorage
  <2>6. ASSUME NEW sl \in Slices, GetSlice(sl[1], sl[2])
        PROVE  Carried' /\ Apart' /\ Fresh' /\ OnceEach'
    <3> DEFINE rest == SplicedRest(Timeline, sl[1], sl[2])
    <3>1. /\ timelineStore' = timelineStore /\ microtasks' = Disturbed
          /\ past'.overlapped = past.overlapped
          /\ timelineStore = 0 \/ Timeline' = rest
      BY <2>6, GetSliceStep
    <3>2. CASE timelineStore = 0
      BY <1>4, <3>1, <3>2
    <3>3. CASE Timeline' = rest
      <4>1. sl[1] \in Nat /\ sl[2] \in Nat /\ Timeline \in Seq(Activities)
        BY InMemoryAssumption, TimelineType DEF OnceInv
      <4>2. /\ Elements(rest) \subseteq Elements(Timeline)
            /\ \A i, j \in DOMAIN rest :
                 /\ rest[i] \in Activities
                 /\ rest[i] = rest[j] /\ rest[i] \notin past.overlapped => i = j
        BY <1>2, <4>1, RestDistinct
      <4> HIDE DEF rest
      <4> QED
        BY <3>1, <3>3, <4>2, OnceKeptByOthers
    <3> QED
      BY <3>1, <3>2, <3>3
  <2>7. ASSUME NEW r \in reads, Hydrate(r) PROVE Carried' /\ Apart' /\ Fresh' /\ OnceEach'
    BY <1>3, <1>5, <2>7 DEF Hydrate, History
  <2>8. CASE Trim
    <3> DEFINE rest == SubSeq(Timeline, MaxLength + 1, Len(Timeline))
    <3>1. Timeline \in Seq(Activities) /\ MaxLength \in Nat
      BY InMemoryAssumption, TimelineType DEF OnceInv
    <3>2. \A i, j \in DOMAIN rest :
            /\ rest[i] \in Activities
            /\ rest[i] = rest[j] /\ rest[i] \notin past.overlapped => i = j
      BY <1>2, <3>1, TailDistinct
    <3>3. /\ Timeline' = rest /\ timelineStore' \notin DOMAIN arrays
          /\ microtasks' = Disturbed /\ past' = past
      BY <2>8, TrimStep
    <3> HIDE DEF rest
    <3> QED
      BY <3>2, <3>3, OnceKeptByOthers
  <2>9. CASE Delete
    BY <1>4, <2>9 DEF Delete
  <2>10. CASE Flush
    BY <1>4, <1>5, <2>10 DEF Flush, History
  <2>11. CASE UNCHANGED vars
    BY <1>3, <2>11 DEF vars
  <2> QED
    BY <2>1, <2>2, <2>3, <2>4, <2>5, <2>6, <2>7, <2>8, <2>9, <2>10, <2>11 DEF Next
<1> QED
  BY <1>1, <1>6 DEF OnceInv

\* The types of the feed, whatever adds, reads, trims and deletions interleave.
THEOREM TypeCorrect == Spec => []TypeOK
<1>1. Init => OnceInv
  BY DEF Init, OnceInv, TypeOK, Carried, Apart, Fresh, OnceEach, Timeline, History, Adding
<1>2. OnceInv /\ [Next]_vars => OnceInv'
  BY OnceInvKept
<1>3. OnceInv => TypeOK
  BY DEF OnceInv
<1> QED
  BY <1>1, <1>2, <1>3, PTL DEF Spec

\* An add tests for an id, awaits, and inserts it: only an id that two adds carried at
\* once is in the feed twice, also after trims that gave the key another array.
THEOREM EachOnce == Spec => []OnceEach
<1>1. Init => OnceInv
  BY DEF Init, OnceInv, TypeOK, Carried, Apart, Fresh, OnceEach, Timeline, History, Adding
<1>2. OnceInv /\ [Next]_vars => OnceInv'
  BY OnceInvKept
<1>3. OnceInv => OnceEach
  BY DEF OnceInv
<1> QED
  BY <1>1, <1>2, <1>3, PTL DEF Spec

-----------------------------------------------------------------------------
(* Pages that come back as null *)

\* Whatever the feed, the adds and the reads hold has been stored, and what has been
\* stored is there or was removed.
Known ==
  /\ past.inserted \subseteq activityStore \cup past.removed
  /\ \A k \in DOMAIN arrays : Elements(arrays[k]) \subseteq past.inserted
  /\ \A i \in DOMAIN microtasks : Elements(microtasks[i].todo) \subseteq past.inserted
  /\ \A r \in reads : r.ids \subseteq past.inserted

NullInv == OnceInv /\ Known /\ NullExplained

\* Parts of an array.
LEMMA PartsOf ==
  ASSUME NEW s \in Seq(Activities), NEW a \in Nat, NEW b \in Nat, b <= Len(s)
  PROVE  Elements(SubSeq(s, a + 1, b)) \subseteq Elements(s)
<1>1. /\ DOMAIN SubSeq(s, a + 1, b) = 1 .. (IF a + 1 <= b THEN b - a ELSE 0)
      /\ \A i \in DOMAIN SubSeq(s, a + 1, b) : SubSeq(s, a + 1, b)[i] = s[a + i]
  OBVIOUS
<1>2. \A i \in DOMAIN SubSeq(s, a + 1, b) : a + i \in DOMAIN s
  BY <1>1
<1> QED
  BY <1>1, <1>2 DEF Elements

\* A step that leaves the histories and the activities, and puts no id anywhere that was
\* not in the feed before.
LEMMA KnownKept ==
  ASSUME OnceInv, Known, past'.inserted = past.inserted, past'.removed = past.removed,
         activityStore' = activityStore, microtasks' = microtasks \/ microtasks' = Disturbed,
         \A k \in DOMAIN arrays' :
           \E l \in DOMAIN arrays : Elements(arrays'[k]) \subseteq Elements(arrays[l]),
         \A r \in reads' : r \in reads \/ r.ids \subseteq Elements(Timeline)
  PROVE  Known'
<1>1. /\ DOMAIN microtasks' = DOMAIN microtasks
      /\ \A i \in DOMAIN microtasks : microtasks'[i].todo = microtasks[i].todo
  BY SameTasks DEF OnceInv
<1>2. Elements(Timeline) \subseteq past.inserted
  BY DEF OnceInv, TypeOK, Known, Timeline, Elements
<1>3. \A k \in DOMAIN arrays' : Elements(arrays'[k]) \subseteq past.inserted
  BY DEF Known
<1>4. \A i \in DOMAIN microtasks' : Elements(microtasks'[i].todo) \subseteq past.inserted
  BY <1>1 DEF Known
<1>5. \A r \in reads' : r.ids \subseteq past.inserted
  BY <1>2 DEF Known
<1> QED
  BY <1>3, <1>4, <1>5 DEF Known, Elements

\* An add goes on with ids that have been stored, and ends with them.
LEMMA KnownKeptByResume ==
  ASSUME OnceInv, Known, Resume
  PROVE  Known'
<1> DEFINE c == Head(microtasks)
           x == Head(c.todo)
           ids == past.inserted
<1>1. /\ microtasks \in Seq(Adding) /\ arrays \in Seq(Seq(Activities)) /\ microtasks # <<>>
      /\ 1 \in DOMAIN microtasks /\ c = microtasks[1]
  BY DEF OnceInv, TypeOK, Resume
<1>2. c \in Adding /\ c.todo # <<>> /\ Elements(c.todo) \subseteq ids
  BY <1>1 DEF OnceInv, Carried, Known
<1>3. /\ c.todo \in Seq(Activities) /\ c.ref \in DOMAIN arrays /\ x \in Activities /\ x \in ids
      /\ Elements(Tail(c.todo)) \subseteq ids
  BY <1>2 DEF Adding, Elements
<1>4. past' = past /\ activityStore' = activityStore /\ reads' = reads /\ arrays' = Insert(c)
  BY DEF Resume
<1>5. \A k \in DOMAIN arrays' : Elements(arrays'[k]) \subseteq ids
  <2>1. arrays[c.ref] \in Seq(Activities)
    BY <1>1, <1>3
  <2>2. SpliceIn(arrays[c.ref], reverse_bisect_left(arrays[c.ref]), x) = Append(arrays[c.ref], x)
    <3> HIDE DEF x, c
    <3> QED
      BY <1>3, <2>1, InsertedAtEnd, Zenon
  <2>3. arrays' = arrays \/ arrays' = [arrays EXCEPT ![c.ref] = Append(arrays[c.ref], x)]
    BY <1>4, <2>2 DEF Insert
  <2>4. Elements(Append(arrays[c.ref], x)) \subseteq ids
    <3>1. Elements(arrays[c.ref]) \subseteq ids
      BY <1>3 DEF Known
    <3> HIDE DEF x, c
    <3> QED
      BY <1>3, <2>1, <3>1 DEF Elements
  <2>5. \A k \in DOMAIN arrays : Elements(arrays[k]) \subseteq ids
    BY DEF Known
  <2> HIDE DEF x, c, ids
  <2> QED
    BY <1>1, <1>3, <2>3, <2>4, <2>5
<1>6. \A i \in DOMAIN microtasks' : Elements(microtasks'[i].todo) \subseteq ids
  <2> DEFINE q == Tail(microtasks)
             u == [c EXCEPT !.todo = Tail(c.todo), !.exist = Head(Tail(c.todo)) \in Elements(Timeline')]
  <2>1. /\ q \in Seq(Adding)
        /\ \A i \in DOMAIN q : i + 1 \in DOMAIN microtasks /\ q[i] = microtasks[i + 1]
    BY <1>1
  <2>2. \A i \in DOMAIN q : Elements(q[i].todo) \subseteq ids
    BY <2>1 DEF Known
  <2>3. u.todo = Tail(c.todo)
    BY <1>2 DEF Adding
  <2>4. microtasks' = q \/ microtasks' = Append(q, u)
    BY DEF Resume
  <2> HIDE DEF q, u, c
  <2>5. \A i \in DOMAIN Append(q, u) :
          (i \in DOMAIN q /\ Append(q, u)[i] = q[i]) \/ Append(q, u)[i] = u
    BY <2>1
  <2> QED
    BY <1>3, <2>2, <2>3, <2>4, <2>5
<1> QED
  BY <1>4, <1>5, <1>6 DEF Known, Elements

\* The strengthened invariant is inductive.
LEMMA NullInvKept ==
  ASSUME NullInv, [Next]_vars
  PROVE  NullInv'
<1>1. OnceInv'
  BY OnceInvKept DEF NullInv
<1>2. /\ past \in History /\ Timeline \in Seq(Activities) /\ arrays \in Seq(Seq(Activities))
      /\ timelineStore # 0 => timelineStore \in DOMAIN arrays /\ Timeline = arrays[timelineStore]
  BY TimelineType DEF NullInv, OnceInv, TypeOK, Timeline
\* Steps that touch neither the arrays nor the pages being read.
<1>3. ASSUME arrays' = arrays, reads' \subseteq reads, past'.inserted = past.inserted,
             past'.removed = past.removed, activityStore' = activityStore,
             microtasks' = microtasks \/ microtasks' = Disturbed
      PROVE  Known'
  BY <1>3, KnownKept DEF NullInv
\* Only reads that end are recorded.
<1>4. ASSUME past'.nulls = past.nulls, past.removed \subseteq past'.removed
      PROVE  NullExplained'
  BY <1>4 DEF NullInv, NullExplained
<1>5. Known' /\ NullExplained'
  <2>1. ASSUME NEW S \in Inserts, InsertActivities(S) PROVE Known' /\ NullExplained'
    <3>1. /\ past'.inserted = past.inserted \cup S /\ past'.removed = past.removed
          /\ past'.nulls = past.nulls
      BY <1>2, <2>1 DEF InsertActivities, History
    <3> QED
      BY <1>4, <2>1, <3>1 DEF NullInv, InsertActivities, Known, Elements
  <2>2. ASSUME NEW a \in activityStore, RemoveActivity(a) PROVE Known' /\ NullExplained'
    <3>1. /\ past'.inserted = past.inserted /\ past'.removed = past.removed \cup {a}
          /\ past'.nulls = past.nulls
      BY <1>2, <2>2 DEF RemoveActivity, History
    <3> QED
      BY <1>4, <2>2, <3>1 DEF NullInv, RemoveActivity, Known, Elements
  <2>3. ASSUME NEW acts \in Adds, AddToStorage(acts) PROVE Known' /\ NullExplained'
    <3>1. PICK heap, ref : /\ StartAdd(acts, heap, ref)
                           /\ heap = arrays \/ heap = Append(arrays, <<>>)
      BY <2>3 DEF AddToStorage
    <3>2. /\ past'.inserted = past.inserted /\ past'.removed = past.removed
          /\ past'.nulls = past.nulls
      BY <1>2, <3>1 DEF StartAdd, History
    <3>3. /\ Elements(acts) \subseteq past.inserted /\ arrays' = heap
          /\ reads' = reads /\ activityStore' = activityStore
      BY <3>1 DEF StartAdd
    <3>4. \A k \in DOMAIN arrays' : Elements(arrays'[k]) \subseteq past.inserted
      <4>1. CASE heap = arrays
        BY <3>3, <4>1 DEF NullInv, Known
      <4>2. CASE heap = Append(arrays, <<>>)
        <5>1. \A k \in DOMAIN heap :
                (k \in DOMAIN arrays /\ heap[k] = arrays[k]) \/ heap[k] = <<>>
          BY <1>2, <4>2
        <5>2. Elements(<<>>) = {}
          BY DEF Elements
        <5> QED
          BY <3>3, <5>1, <5>2 DEF NullInv, Known
      <4> QED
        BY <3>1, <4>1, <4>2
    <3>5. \A i \in DOMAIN microtasks' : Elements(microtasks'[i].todo) \subseteq past.inserted
      <4> DEFINE t == [ref |-> ref, todo |-> acts, exist |-> Head(acts) \in Elements(Timeline),
                       acts |-> Elements(acts), alone |-> TRUE]
      <4>1. microtasks' = Append(microtasks, t) /\ t.todo = acts
        BY <3>1 DEF StartAdd
      <4>2. microtasks \in Seq(Adding)
        BY DEF NullInv, OnceInv, TypeOK
      <4> HIDE DEF t
      <4>3. \A i \in DOMAIN microtasks' :
              (i \in DOMAIN microtasks /\ microtasks'[i] = microtasks[i]) \/ microtasks'[i] = t
        BY <4>1, <4>2
      <4> QED
        BY <3>3, <4>1, <4>3 DEF NullInv, Known
    <3> QED
      BY <1>4, <3>2, <3>3, <3>4, <3>5 DEF NullInv, Known, Elements
  <2>4. CASE Resume
    <3>1. Known'
      BY <2>4, KnownKeptByResume DEF NullInv
    <3> QED
      BY <1>4, <2>4, <3>1 DEF Resume
  <2>5. CASE RemoveFromStorage
    BY <1>3, <1>4, <2>5 DEF RemoveFromStorage
  <2>6. ASSUME NEW sl \in Slices, GetSlice(sl[1], sl[2]) PROVE Known' /\ NullExplained'
    <3> DEFINE page == Page(Timeline, sl[1], sl[2])
               rest == SplicedRest(Timeline, sl[1], sl[2])
    <3>1. sl[1] \in Nat /\ sl[2] \in Nat
      BY InMemoryAssumption
    <3>2. /\ past'.inserted = past.inserted /\ past'.removed = past.removed
          /\ past'.nulls = past.nulls
      BY <1>2, <2>6 DEF GetSlice, History
    <3>3. \A k \in DOMAIN arrays' :
            \E l \in DOMAIN arrays : Elements(arrays'[k]) \subseteq Elements(arrays[l])
      <4>1. CASE timelineStore = 0
        BY <2>6, <4>1 DEF GetSlice, Elements
      <4>2. CASE timelineStore # 0
        <5>1. Elements(rest) \subseteq Elements(Timeline)
          <6>1. \A i \in DOMAIN rest : \E p \in DOMAIN Timeline : rest[i] = Timeline[p]
            BY <1>2, <3>1, SplicedRestOf
          <6> HIDE DEF rest
          <6> QED
            BY <6>1 DEF Elements
        <5>2. arrays' = [arrays EXCEPT ![timelineStore] = rest]
          BY <1>2, <2>6, <4>2 DEF GetSlice
        <5> HIDE DEF rest
        <5> QED
          BY <1>2, <4>2, <5>1, <5>2
      <4> QED
        BY <4>1, <4>2
    <3>4. Elements(page) \subseteq Elements(Timeline)
      <4> DEFINE b == IF sl[1] + sl[2] < Len(Timeline) THEN sl[1] + sl[2] ELSE Len(Timeline)
      <4>1. b \in Nat /\ b <= Len(Timeline)
        BY <1>2, <3>1
      <4> HIDE DEF b
      <4>2. Elements(SubSeq(Timeline, sl[1] + 1, b)) \subseteq Elements(Timeline)
        BY <1>2, <3>1, <4>1, PartsOf
      <4> QED
        BY <4>2 DEF Page, b
    <3>5. \A r \in reads' : r \in reads \/ r.ids \subseteq Elements(Timeline)
      BY <2>6, <3>4 DEF GetSlice
    <3>6. activityStore' = activityStore /\ microtasks' = Disturbed
      BY <2>6 DEF GetSlice
    <3>7. Known'
      BY <3>2, <3>3, <3>5, <3>6, KnownKept DEF NullInv
    <3> QED
      BY <1>4, <3>2, <3>7
  <2>7. ASSUME NEW r \in reads, Hydrate(r) PROVE Known' /\ NullExplained'
    <3>1. /\ past'.inserted = past.inserted /\ past'.removed = past.removed
          /\ past'.nulls \subseteq past.nulls \cup
               (IF r.ids \subseteq activityStore THEN {} ELSE {r.ids})
      BY <1>2, <2>7 DEF Hydrate, History
    <3>2. Known'
      BY <1>3, <2>7, <3>1 DEF Hydrate
    <3>3. ~(r.ids \subseteq activityStore) => r.ids \cap past.removed # {}
      BY DEF NullInv, Known
    <3>4. NullExplained'
      BY <3>1, <3>3 DEF NullInv, NullExplained
    <3> QED
      BY <3>2, <3>4
  <2>8. CASE Trim
    <3> DEFINE cut == Start(Timeline, MaxLength)
               rest == SubSeq(Timeline, MaxLength + 1, Len(Timeline))
               heap == [arrays EXCEPT ![timelineStore] = cut]
    <3>1. timelineStore # 0 /\ MaxLength \in Nat
      BY <2>8, InMemoryAssumption DEF Trim
    <3>2. Elements(rest) \subseteq Elements(Timeline)
      BY <1>2, <3>1, PartsOf
    <3>3. Elements(cut) \subseteq Elements(Timeline)
      BY <1>2, <3>1 DEF Start, Elements
    <3>4. rest \in Seq(Activities) /\ cut \in Seq(Activities)
      BY <1>2, <3>1 DEF Start
    <3>5. arrays' = Append(heap, rest)
      BY <1>2, <2>8, <3>1 DEF Trim
    <3> HIDE DEF cut, rest
    <3>6. heap \in Seq(Seq(Activities)) /\ DOMAIN heap = DOMAIN arrays
          /\ \A k \in DOMAIN heap : heap[k] = arrays[k] \/ heap[k] = cut
      BY <1>2, <3>1, <3>4
    <3> HIDE DEF heap
    <3>7. \A k \in DOMAIN arrays' :
            (k \in DOMAIN heap /\ arrays'[k] = heap[k]) \/ arrays'[k] = rest
      BY <3>4, <3>5, <3>6, AppendProperties
    <3>8. \A k \in DOMAIN arrays' :
            \E l \in DOMAIN arrays : Elements(arrays'[k]) \subseteq Elements(arrays[l])
      BY <1>2, <3>1, <3>2, <3>3, <3>6, <3>7
    <3>9. /\ past' = past /\ activityStore' = activityStore /\ microtasks' = Disturbed
          /\ reads' = reads
      BY <2>8 DEF Trim
    <3>10. Known'
      BY <3>8, <3>9, KnownKept DEF NullInv
    <3> QED
      BY <1>4, <3>9, <3>10
  <2>9. CASE Delete
    BY <1>3, <1>4, <2>9 DEF Delete
  <2>10. CASE Flush
    <3>1. /\ past'.inserted = past.inserted /\ past'.removed = past.removed \cup activityStore
          /\ past'.nulls = past.nulls
      BY <1>2, <2>10 DEF Flush, History
    <3>2. /\ DOMAIN microtasks' = DOMAIN microtasks
          /\ \A i \in DOMAIN microtasks : microtasks'[i].todo = microtasks[i].todo
      BY <2>10, SameTasks DEF Flush, NullInv, OnceInv
    <3>3. arrays' = arrays /\ reads' = reads /\ activityStore' = {}
      BY <2>10 DEF Flush
    <3> QED
      BY <1>4, <3>1, <3>2, <3>3 DEF NullInv, Known, Elements
  <2>11. CASE UNCHANGED vars
    BY <1>3, <1>4, <2>11 DEF vars
  <2> QED
    BY <2>1, <2>2, <2>3, <2>4, <2>5, <2>6, <2>7, <2>8, <2>9, <2>10, <2>11 DEF NullInv, Next
<1> QED
  BY <1>1, <1>5 DEF NullInv

\* A page is read out of the feed and its activities are looked up later: when one is
\* missing then, somebody has removed it.
THEOREM NullsAreExplained == Spec => []NullExplained
<1>1. Init => NullInv
  BY DEF Init, NullInv, OnceInv, TypeOK, Carried, Apart, Fresh, OnceEach, Timeline, History,
     Adding, Known, NullExplained
<1>2. NullInv /\ [Next]_vars => NullInv'
  BY NullInvKept
<1>3. NullInv => NullExplained
  BY DEF NullInv
<1> QED
  BY <1>1, <1>2, <1>3, PTL DEF Spec

-----------------------------------------------------------------------------
(* Each id is read once *)

Places(s, a) == {i \in DOMAIN s : s[i] = a}
Times(s, a) == Cardinality(Places(s, a))

\* The adds that have still to insert an id.
Waiting(a) == {i \in DOMAIN microtasks : a \in Elements(microtasks[i].todo)}

\* An add inserts an id once.
TodoOnce ==
  \A i \in DOMAIN microtasks : \A j, k \in DOMAIN microtasks[i].todo :
    microtasks[i].todo[j] = microtasks[i].todo[k] => j = k

\* What has been added of an id has been read, is in the feed, waits, or is lost.
Balance ==
  \A a \in Activities :
    past.taken[a] + Times(Timeline, a) + Cardinality(Waiting(a)) <= past.added[a]

ReadInv == OnceInv /\ TodoOnce /\ Balance

LEMMA PlacesFinite ==
  ASSUME NEW s \in Seq(Activities), NEW a
  PROVE  /\ IsFiniteSet(Places(s, a)) /\ Places(s, a) \subseteq DOMAIN s
         /\ Times(s, a) \in Nat
<1>1. IsFiniteSet(1 .. Len(s)) /\ DOMAIN s = 1 .. Len(s)
  BY FS_Interval
<1>2. IsFiniteSet(Places(s, a)) /\ Places(s, a) \subseteq DOMAIN s
  BY <1>1, FS_Subset DEF Places
<1> QED
  BY <1>2, FS_CardinalityType DEF Times

LEMMA TimesAppended ==
  ASSUME NEW s \in Seq(Activities), NEW x \in Activities, NEW a
  PROVE  Times(Append(s, x), a) = Times(s, a) + (IF a = x THEN 1 ELSE 0)
<1>1. /\ DOMAIN Append(s, x) = DOMAIN s \cup {Len(s) + 1} /\ Len(s) + 1 \notin DOMAIN s
      /\ Append(s, x)[Len(s) + 1] = x /\ \A i \in DOMAIN s : Append(s, x)[i] = s[i]
  OBVIOUS
<1>2. Places(Append(s, x), a) = IF a = x THEN Places(s, a) \cup {Len(s) + 1} ELSE Places(s, a)
  BY <1>1 DEF Places
<1>3. Len(s) + 1 \notin Places(s, a) /\ IsFiniteSet(Places(s, a)) /\ Times(s, a) \in Nat
  BY <1>1, PlacesFinite DEF Places
<1>4. Cardinality(Places(s, a) \cup {Len(s) + 1}) = Times(s, a) + 1
  BY <1>3, FS_AddElement DEF Times
<1> QED
  BY <1>2, <1>3, <1>4 DEF Times

\* What is taken out of an array and what is left are no more than there was.
LEMMA TimesSpliced ==
  ASSUME NEW s \in Seq(Activities), NEW start \in Nat, NEW count \in Nat, NEW a
  PROVE  Times(Page(s, start, count), a) + Times(SplicedRest(s, start, count), a) <= Times(s, a)
<1> DEFINE page == Page(s, start, count)
           rest == SplicedRest(s, start, count)
           out == {i \in Places(s, a) : start < i /\ i <= start + count}
           kept == Places(s, a) \ out
           f == [i \in Places(page, a) |-> start + i]
           g == [i \in Places(rest, a) |-> IF i <= start THEN i ELSE i + count]
<1>1. /\ IsFiniteSet(Places(s, a)) /\ IsFiniteSet(out) /\ IsFiniteSet(kept)
      /\ Times(s, a) = Cardinality(out) + Cardinality(kept)
  <2>1. IsFiniteSet(Places(s, a)) /\ Places(s, a) \cap out = out
    BY PlacesFinite
  <2> HIDE DEF out
  <2>2. /\ IsFiniteSet(out) /\ IsFiniteSet(Places(s, a) \ out)
        /\ Cardinality(Places(s, a) \ out) = Cardinality(Places(s, a)) - Cardinality(out)
    BY <2>1, FS_Difference, FS_Subset
  <2>3. Cardinality(Places(s, a)) \in Nat /\ Cardinality(out) \in Nat
    BY <2>1, <2>2, FS_CardinalityType
  <2> QED
    BY <2>1, <2>2, <2>3 DEF Times
<1>2. Cardinality(Places(page, a)) <= Cardinality(out)
  <2>1. /\ page \in Seq(Activities)
        /\ \A i \in DOMAIN page : /\ i \in Nat \ {0} /\ i <= count
                                  /\ start + i \in DOMAIN s /\ page[i] = s[start + i]
    <3> DEFINE m == IF start + count < Len(s) THEN start + count ELSE Len(s)
    <3>1. m \in Nat /\ m <= Len(s) /\ m <= start + count /\ Len(s) \in Nat
      OBVIOUS
    <3> HIDE DEF m
    <3>2. /\ SubSeq(s, start + 1, m) \in Seq(Activities)
          /\ DOMAIN SubSeq(s, start + 1, m) = 1 .. (IF start + 1 <= m THEN m - start ELSE 0)
          /\ \A i \in DOMAIN SubSeq(s, start + 1, m) : SubSeq(s, start + 1, m)[i] = s[start + i]
      BY <3>1
    <3>3. page = SubSeq(s, start + 1, m)
      BY DEF Page, m
    <3> HIDE DEF page
    <3>4. ASSUME NEW i \in DOMAIN page
          PROVE  i \in Nat \ {0} /\ i <= m - start
      BY <3>1, <3>2, <3>3
    <3>5. ASSUME NEW i \in DOMAIN page
          PROVE  i <= count /\ start + i \in 1 .. Len(s)
      BY <3>1, <3>4
    <3> QED
      BY <3>2, <3>3, <3>4, <3>5
  <2>2. \A i \in Places(page, a) : start + i \in out
    BY <2>1 DEF Places
  <2>3. \A i \in Places(page, a) : i \in Nat
    BY <2>1 DEF Places
  <2> HIDE DEF page, out
  <2>4. f \in Injection(Places(page, a), out)
    BY <2>2, <2>3 DEF Injection, IsInjective
  <2> QED
    BY <1>1, <2>4, FS_Injection
<1>3. Cardinality(Places(rest, a)) <= Cardinality(kept)
  <2>1. rest \in Seq(Activities)
    BY SplicedRestOf
  <2>2. ASSUME NEW i \in DOMAIN rest
        PROVE  LET p == IF i <= start THEN i ELSE i + count IN
               p \in DOMAIN s /\ rest[i] = s[p] /\ i \in Nat /\ ~ (start < p /\ p <= start + count)
    <3>1. PICK p \in DOMAIN s : rest[i] = s[p] /\ p = IF i <= start THEN i ELSE i + count
      BY SplicedRestOf
    <3>2. i \in Nat
      BY <2>1
    <3> HIDE DEF rest
    <3> QED
      BY <3>1, <3>2
  <2>3. \A i \in Places(rest, a) : g[i] \in kept /\ i \in Nat
    BY <2>2 DEF Places
  <2> HIDE DEF rest, kept
  <2>4. g \in Injection(Places(rest, a), kept)
    BY <2>3 DEF Injection, IsInjective
  <2> QED
    BY <1>1, <2>4, FS_Injection
<1>4. page \in Seq(Activities) /\ rest \in Seq(Activities)
  <2> DEFINE m == IF start + count < Len(s) THEN start + count ELSE Len(s)
  <2>1. m \in Nat /\ m <= Len(s)
    OBVIOUS
  <2>2. page = SubSeq(s, start + 1, m)
    BY DEF Page
  <2>3. rest \in Seq(Activities)
    BY SplicedRestOf
  <2> HIDE DEF page, rest, m
  <2> QED
    BY <2>1, <2>2, <2>3
<1>5. Cardinality(Places(page, a)) \in Nat /\ Cardinality(Places(rest, a)) \in Nat
      /\ Cardinality(out) \in Nat /\ Cardinality(kept) \in Nat
  BY <1>1, <1>4, PlacesFinite, FS_CardinalityType DEF Times
<1> HIDE DEF out, kept, page, rest
<1>6. Cardinality(Places(page, a)) + Cardinality(Places(rest, a)) <= Times(s, a)
  BY <1>1, <1>2, <1>3, <1>5
<1> QED
  BY <1>6 DEF Times, page, rest

LEMMA TimesInTail ==
  ASSUME NEW s \in Seq(Activities), NEW n \in Nat, NEW a
  PROVE  Times(SubSeq(s, n + 1, Len(s)), a) <= Times(s, a)
<1> DEFINE rest == SubSeq(s, n + 1, Len(s))
           f == [i \in Places(rest, a) |-> n + i]
<1>1. \A i \in DOMAIN rest : i \in Nat /\ n + i \in DOMAIN s /\ rest[i] = s[n + i]
  <2>1. /\ DOMAIN rest = 1 .. (IF n + 1 <= Len(s) THEN Len(s) - n ELSE 0)
        /\ \A i \in DOMAIN rest : rest[i] = s[n + i]
    OBVIOUS
  <2> QED
    BY <2>1
<1> HIDE DEF rest
<1>2. f \in Injection(Places(rest, a), Places(s, a))
  BY <1>1 DEF Injection, IsInjective, Places
<1> QED
  BY <1>2, PlacesFinite, FS_Injection DEF Times, rest

LEMMA WaitingFinite ==
  ASSUME TypeOK, NEW a
  PROVE  IsFiniteSet(Waiting(a)) /\ Cardinality(Waiting(a)) \in Nat
<1>1. IsFiniteSet(1 .. Len(microtasks)) /\ DOMAIN microtasks = 1 .. Len(microtasks)
  BY FS_Interval DEF TypeOK
<1>2. IsFiniteSet(Waiting(a))
  BY <1>1, FS_Subset DEF Waiting
<1> QED
  BY <1>2, FS_CardinalityType

\* A step that leaves the adds as they are, and of the feed no more of an id than has
\* not been read.
LEMMA BalanceKept ==
  ASSUME ReadInv, microtasks' = microtasks \/ microtasks' = Disturbed, past'.added = past.added,
         \A a \in Activities :
           past'.taken[a] + Times(Timeline', a) <= past.taken[a] + Times(Timeline, a)
           /\ past'.taken[a] \in Nat /\ Times(Timeline', a) \in Nat
  PROVE  TodoOnce' /\ Balance'
<1>1. /\ DOMAIN microtasks' = DOMAIN microtasks
      /\ \A i \in DOMAIN microtasks : microtasks'[i].todo = microtasks[i].todo
  BY SameTasks DEF ReadInv, OnceInv
<1>2. TodoOnce'
  BY <1>1 DEF ReadInv, TodoOnce
<1>3. ASSUME NEW a \in Activities
      PROVE  past'.taken[a] + Times(Timeline', a) + Cardinality(Waiting(a)') <= past.added[a]
  <2>1. Waiting(a)' = Waiting(a)
    BY <1>1 DEF Waiting, Elements
  <2>2. /\ past.taken[a] \in Nat /\ past.added[a] \in Nat
        /\ Times(Timeline, a) \in Nat /\ Cardinality(Waiting(a)) \in Nat
    BY TimelineType, PlacesFinite, WaitingFinite DEF ReadInv, OnceInv, TypeOK, History
  <2>3. past.taken[a] + Times(Timeline, a) + Cardinality(Waiting(a)) <= past.added[a]
    BY DEF ReadInv, Balance
  <2> QED
    BY <2>1, <2>2, <2>3
<1> QED
  BY <1>2, <1>3 DEF Balance, Times, Places

\* An add brings one of each of its ids.
LEMMA BalanceKeptByAdd ==
  ASSUME ReadInv, NEW acts \in Adds, NEW heap, NEW ref, StartAdd(acts, heap, ref),
         Timeline' = Timeline
  PROVE  TodoOnce' /\ Balance'
<1> DEFINE n == Len(microtasks) + 1
           t == [ref |-> ref, todo |-> acts, exist |-> Head(acts) \in Elements(Timeline),
                 acts |-> Elements(acts), alone |-> TRUE]
<1>1. microtasks \in Seq(Adding) /\ past \in History
  BY DEF ReadInv, OnceInv, TypeOK
<1>2. /\ DOMAIN microtasks' = 1 .. n /\ DOMAIN microtasks = 1 .. n - 1 /\ n \in Nat \ {0}
      /\ microtasks'[n] = t /\ \A i \in 1 .. n - 1 : microtasks'[i] = microtasks[i]
  <2>1. microtasks' = Append(microtasks, t)
    BY DEF StartAdd
  <2> HIDE DEF t
  <2> QED
    BY <1>1, <2>1
<1>3. t.todo = acts /\ \A i, j \in DOMAIN acts : acts[i] = acts[j] => i = j
  BY InMemoryAssumption
<1>4. /\ past'.taken = past.taken
      /\ past'.added = [a \in Activities |->
                          IF a \in Elements(acts) THEN past.added[a] + 1 ELSE past.added[a]]
  BY <1>1 DEF StartAdd, History
<1> HIDE DEF n, t
<1>5. TodoOnce'
  <2>1. ASSUME NEW i \in 1 .. n, NEW j \in DOMAIN microtasks'[i].todo,
               NEW k \in DOMAIN microtasks'[i].todo, microtasks'[i].todo[j] = microtasks'[i].todo[k]
        PROVE  j = k
    <3>1. CASE i = n
      BY <1>2, <1>3, <2>1, <3>1
    <3>2. CASE i # n
      BY <1>2, <2>1, <3>2 DEF ReadInv, TodoOnce
    <3> QED
      BY <3>1, <3>2
  <2> QED
    BY <1>2, <2>1 DEF TodoOnce
<1>6. ASSUME NEW a \in Activities
      PROVE  past'.taken[a] + Times(Timeline, a) + Cardinality(Waiting(a)') <= past'.added[a]
  <2>1. Waiting(a)' = IF a \in Elements(acts) THEN Waiting(a) \cup {n} ELSE Waiting(a)
    <3>1. \A i \in 1 .. n - 1 : i \in Waiting(a)' <=> i \in Waiting(a)
      BY <1>2 DEF Waiting, Elements
    <3>2. n \in Waiting(a)' <=> a \in Elements(acts)
      <4>1. n \in DOMAIN microtasks' /\ microtasks'[n].todo = acts
        BY <1>2, <1>3
      <4> QED
        BY <4>1 DEF Waiting, Elements
    <3>3. Waiting(a)' \subseteq 1 .. n /\ Waiting(a) \subseteq 1 .. n - 1
      BY <1>2 DEF Waiting
    <3>4. 1 .. n = (1 .. n - 1) \cup {n} /\ n \notin 1 .. n - 1
      BY <1>2
    <3> DEFINE now == Waiting(a)
               next == Waiting(a)'
    <3>5. /\ next \subseteq (1 .. n - 1) \cup {n} /\ now \subseteq 1 .. n - 1
          /\ \A i \in 1 .. n - 1 : i \in next <=> i \in now
          /\ n \in next <=> a \in Elements(acts)
      BY <3>1, <3>2, <3>3, <3>4
    <3> HIDE DEF now, next
    <3>6. CASE a \in Elements(acts)
      <4>1. next = now \cup {n}
        BY <3>4, <3>5, <3>6
      <4> QED
        BY <3>6, <4>1 DEF now, next
    <3>7. CASE a \notin Elements(acts)
      <4>1. next = now
        BY <3>4, <3>5, <3>7
      <4> QED
        BY <3>7, <4>1 DEF now, next
    <3> QED
      BY <3>6, <3>7
  <2>2. n \notin Waiting(a)
    BY <1>2 DEF Waiting
  <2>3. IsFiniteSet(Waiting(a)) /\ Cardinality(Waiting(a)) \in Nat
    BY WaitingFinite DEF ReadInv, OnceInv
  <2>4. Cardinality(Waiting(a)') = Cardinality(Waiting(a)) + (IF a \in Elements(acts) THEN 1 ELSE 0)
    <3>1. Cardinality(Waiting(a) \cup {n}) = Cardinality(Waiting(a)) + 1
      BY <2>2, <2>3, FS_AddElement
    <3>2. CASE a \in Elements(acts)
      BY <2>1, <3>1, <3>2
    <3>3. CASE a \notin Elements(acts)
      BY <2>1, <2>3, <3>3
    <3> QED
      BY <3>2, <3>3
  <2>5. past.taken[a] + Times(Timeline, a) + Cardinality(Waiting(a)) <= past.added[a]
    BY DEF ReadInv, Balance
  <2>6. past.taken[a] \in Nat /\ past.added[a] \in Nat /\ Times(Timeline, a) \in Nat
    BY <1>1, TimelineType, PlacesFinite DEF ReadInv, OnceInv, History
  <2>7. past'.taken[a] = past.taken[a]
        /\ past'.added[a] = past.added[a] + (IF a \in Elements(acts) THEN 1 ELSE 0)
    BY <1>4, <2>6
  <2> QED
    BY <2>3, <2>4, <2>5, <2>6, <2>7
<1> QED
  BY <1>5, <1>6 DEF Balance

\* What an add has inserted it does not insert again.
LEMMA BalanceKeptByResume ==
  ASSUME ReadInv, Resume
  PROVE  TodoOnce' /\ Balance'
<1> DEFINE c == Oldest
           x == NextId
           n == Len(microtasks)
           more == Tail(c.todo) # <<>>
<1>1. /\ n \in Nat \ {0} /\ DOMAIN microtasks = 1 .. n /\ c = microtasks[1]
      /\ c.todo # <<>> /\ c.todo \in Seq(Activities) /\ x \in Activities
      /\ DOMAIN microtasks' = IF more THEN 1 .. n ELSE 1 .. n - 1
      /\ \A i \in 1 .. n - 1 : microtasks'[i] = microtasks[i + 1]
      /\ more => microtasks'[n].todo = Tail(c.todo)
      /\ past' = past
      /\ \/ Timeline' = Timeline
         \/ Timeline \in Seq(Activities) /\ Timeline' = Append(Timeline, x)
  BY ResumeStep DEF ReadInv
<1>2. \A j, k \in DOMAIN c.todo : c.todo[j] = c.todo[k] => j = k
  <2>1. 1 \in DOMAIN microtasks /\ c = microtasks[1]
    BY <1>1
  <2> HIDE DEF c
  <2> QED
    BY <2>1 DEF ReadInv, TodoOnce
<1>3. x = c.todo[1] /\ 1 \in DOMAIN c.todo
  BY <1>1 DEF NextId
<1> HIDE DEF c, x, n, more
<1>4. /\ \A j \in DOMAIN Tail(c.todo) : /\ j \in Nat \ {0} /\ j + 1 \in DOMAIN c.todo
                                        /\ Tail(c.todo)[j] = c.todo[j + 1]
  BY <1>1
<1>5. /\ x \notin Elements(Tail(c.todo)) /\ x \in Elements(c.todo)
      /\ Elements(Tail(c.todo)) \subseteq Elements(c.todo)
  BY <1>2, <1>3, <1>4 DEF Elements
<1>6. TodoOnce'
  <2>1. ASSUME NEW i \in DOMAIN microtasks', NEW j \in DOMAIN microtasks'[i].todo,
               NEW k \in DOMAIN microtasks'[i].todo, microtasks'[i].todo[j] = microtasks'[i].todo[k]
        PROVE  j = k
    <3>1. CASE i \in 1 .. n - 1
      <4>1. i + 1 \in DOMAIN microtasks /\ microtasks'[i] = microtasks[i + 1]
        BY <1>1, <3>1
      <4> QED
        BY <2>1, <4>1 DEF ReadInv, TodoOnce
    <3>2. CASE i = n /\ more
      <4>1. microtasks'[i].todo = Tail(c.todo)
        BY <1>1, <3>2
      <4>2. /\ j \in Nat /\ k \in Nat /\ j + 1 \in DOMAIN c.todo /\ k + 1 \in DOMAIN c.todo
            /\ c.todo[j + 1] = c.todo[k + 1]
        BY <1>4, <2>1, <4>1
      <4>3. j + 1 = k + 1
        BY <1>2, <4>2
      <4> QED
        BY <4>2, <4>3
    <3>3. i \in 1 .. n - 1 \/ (i = n /\ more)
      <4>1. CASE more
        BY <1>1, <4>1
      <4>2. CASE ~more
        BY <1>1, <4>2
      <4> QED
        BY <4>1, <4>2
    <3> QED
      BY <3>1, <3>2, <3>3
  <2> QED
    BY <2>1 DEF TodoOnce
<1>7. ASSUME NEW a \in Activities
      PROVE  past.taken[a] + Times(Timeline', a) + Cardinality(Waiting(a)') <= past.added[a]
  <2> DEFINE after == Waiting(a)'
             before == IF a = x THEN Waiting(a) \ {1} ELSE Waiting(a)
             f == [i \in after |-> IF i = n THEN 1 ELSE i + 1]
  <2>1. 1 \in Waiting(a) <=> a \in Elements(c.todo)
    BY <1>1 DEF Waiting
  <2>2. ASSUME NEW i \in after PROVE f[i] \in before /\ i \in 1 .. n
    <3>1. CASE i \in 1 .. n - 1
      <4>1. i + 1 \in DOMAIN microtasks /\ microtasks'[i] = microtasks[i + 1] /\ i + 1 # 1 /\ i # n
        BY <1>1, <3>1
      <4>2. i + 1 \in Waiting(a)
        BY <4>1 DEF Waiting, Elements
      <4> QED
        BY <1>1, <3>1, <4>1, <4>2
    <3>2. CASE i = n /\ more
      <4>1. a \in Elements(Tail(c.todo))
        BY <1>1, <3>2 DEF Waiting, Elements
      <4> QED
        BY <1>1, <1>5, <2>1, <3>2, <4>1
    <3>3. i \in DOMAIN microtasks'
      BY DEF Waiting
    <3> QED
      BY <1>1, <3>1, <3>2, <3>3
  <2>3. IsFiniteSet(Waiting(a)) /\ Cardinality(Waiting(a)) \in Nat
    BY WaitingFinite DEF ReadInv, OnceInv
  <2>4. /\ IsFiniteSet(before)
        /\ Cardinality(before) = Cardinality(Waiting(a)) - (IF a = x THEN 1 ELSE 0)
    <3>1. IsFiniteSet(Waiting(a) \ {1})
          /\ (1 \in Waiting(a) => Cardinality(Waiting(a) \ {1}) = Cardinality(Waiting(a)) - 1)
      BY <2>3, FS_RemoveElement
    <3>2. CASE a = x
      <4>1. 1 \in Waiting(a)
        BY <1>5, <2>1, <3>2
      <4> QED
        BY <3>1, <3>2, <4>1
    <3>3. CASE a # x
      BY <2>3, <3>3
    <3> QED
      BY <3>2, <3>3
  <2> HIDE DEF after, before
  <2>5. f \in Injection(after, before)
    <3>1. \A i, j \in after : f[i] = f[j] => i = j
      BY <1>1, <2>2
    <3>2. f \in [after -> before]
      BY <2>2
    <3> QED
      BY <3>1, <3>2 DEF Injection, IsInjective
  <2>6. Cardinality(after) <= Cardinality(before) /\ Cardinality(after) \in Nat
    BY <2>4, <2>5, FS_Injection, FS_CardinalityType
  <2>7. /\ past.taken[a] \in Nat /\ past.added[a] \in Nat /\ Times(Timeline, a) \in Nat
        /\ past.taken[a] + Times(Timeline, a) + Cardinality(Waiting(a)) <= past.added[a]
    BY TimelineType, PlacesFinite DEF ReadInv, OnceInv, TypeOK, History, Balance
  <2>8. Times(Timeline', a) = Times(Timeline, a)
        \/ Times(Timeline', a) = Times(Timeline, a) + (IF a = x THEN 1 ELSE 0)
    <3>1. CASE Timeline' = Timeline
      BY <3>1
    <3>2. CASE Timeline \in Seq(Activities) /\ Timeline' = Append(Timeline, x)
      <4>1. Times(Append(Timeline, x), a) = Times(Timeline, a) + (IF a = x THEN 1 ELSE 0)
        BY <1>1, <3>2, TimesAppended
      <4> QED
        BY <3>2, <4>1
    <3> QED
      BY <1>1, <3>1, <3>2
  <2> QED
    BY <2>3, <2>4, <2>6, <2>7, <2>8 DEF after
<1> QED
  BY <1>1, <1>6, <1>7 DEF Balance, Times, Places

LEMMA ReadInvKept ==
  ASSUME ReadInv, [Next]_vars
  PROVE  ReadInv'
<1> SUFFICES TodoOnce' /\ Balance'
  BY OnceInvKept DEF ReadInv
<1>1. past \in History /\ Timeline \in Seq(Activities)
  BY TimelineType DEF ReadInv, OnceInv, TypeOK
<1>2. \A a \in Activities : past.taken[a] \in Nat /\ Times(Timeline, a) \in Nat
  BY <1>1, PlacesFinite DEF History
\* Steps that leave the feed's array alone, or take it away.
<1>3. ASSUME Timeline' = Timeline \/ Timeline' = <<>>,
             microtasks' = microtasks \/ microtasks' = Disturbed,
             past'.added = past.added, past'.taken = past.taken
      PROVE  TodoOnce' /\ Balance'
  <2>1. \A a : Times(<<>>, a) = 0
    <3>1. \A a : Places(<<>>, a) = {}
      BY DEF Places
    <3> QED
      BY <3>1, FS_EmptySet DEF Times
  <2>2. \A a \in Activities : Times(Timeline', a) = Times(Timeline, a) \/ Times(Timeline', a) = 0
    BY <1>3, <2>1
  <2> QED
    BY <1>2, <1>3, <2>2, BalanceKept
<1>4. ASSUME NEW S \in Inserts, InsertActivities(S) PROVE TodoOnce' /\ Balance'
  BY <1>1, <1>3, <1>4 DEF InsertActivities, History, Timeline
<1>5. ASSUME NEW a \in activityStore, RemoveActivity(a) PROVE TodoOnce' /\ Balance'
  BY <1>1, <1>3, <1>5 DEF RemoveActivity, History, Timeline
<1>6. ASSUME NEW acts \in Adds, AddToStorage(acts) PROVE TodoOnce' /\ Balance'
  BY <1>6, AddStep, BalanceKeptByAdd DEF ReadInv
<1>7. CASE Resume
  BY <1>7, BalanceKeptByResume
<1>8. CASE RemoveFromStorage
  BY <1>3, <1>8 DEF RemoveFromStorage, Timeline
<1>9. ASSUME NEW sl \in Slices, GetSlice(sl[1], sl[2]) PROVE TodoOnce' /\ Balance'
  <2> DEFINE page == Page(Timeline, sl[1], sl[2])
  <2>1. sl[1] \in Nat /\ sl[2] \in Nat
    BY InMemoryAssumption
  <2>2. /\ past'.added = past.added
        /\ past'.taken = [a \in Activities |-> past.taken[a] + Times(page, a)]
    <3>1. past' = [past EXCEPT !.taken = [a \in Activities |-> past.taken[a] + Times(page, a)]]
      BY <1>9 DEF GetSlice, Times, Places
    <3> HIDE DEF page
    <3> QED
      BY <1>1, <3>1 DEF History
  <2>3. /\ microtasks' = Disturbed
        /\ \/ timelineStore = 0 /\ Timeline' = Timeline
           \/ Timeline' = SplicedRest(Timeline, sl[1], sl[2])
    BY <1>9, GetSliceStep DEF ReadInv
  <2>4. page \in Seq(Activities)
    BY <1>1, <2>1 DEF Page
  <2>5. timelineStore = 0 => page = <<>>
    <3>1. SubSeq(<<>>, sl[1] + 1, IF sl[1] + sl[2] < 0 THEN sl[1] + sl[2] ELSE 0) = <<>>
      BY <2>1
    <3> QED
      BY <3>1 DEF Page, Timeline
  <2>6. ASSUME NEW a \in Activities
        PROVE  /\ past'.taken[a] + Times(Timeline', a) <= past.taken[a] + Times(Timeline, a)
               /\ past'.taken[a] \in Nat /\ Times(Timeline', a) \in Nat
    <3>1. past'.taken[a] = past.taken[a] + Times(page, a) /\ Times(page, a) \in Nat
      BY <2>2, <2>4, PlacesFinite
    <3>2. CASE timelineStore = 0 /\ Timeline' = Timeline
      <4>1. Times(page, a) = 0
        <5>1. page = <<>>
          BY <2>5, <3>2
        <5> HIDE DEF page
        <5>2. Places(page, a) = {}
          BY <5>1 DEF Places
        <5> QED
          BY <5>2, FS_EmptySet DEF Times
      <4> QED
        BY <1>2, <3>1, <3>2, <4>1
    <3>3. CASE Timeline' = SplicedRest(Timeline, sl[1], sl[2])
      <4>1. Times(page, a) + Times(Timeline', a) <= Times(Timeline, a)
        BY <1>1, <2>1, <3>3, TimesSpliced
      <4>2. Times(Timeline', a) \in Nat
        BY <1>1, <2>1, <3>3, SplicedRestOf, PlacesFinite
      <4> QED
        BY <1>2, <3>1, <4>1, <4>2
    <3> QED
      BY <2>3, <3>2, <3>3
  <2> QED
    BY <2>2, <2>3, <2>6, BalanceKept
<1>10. ASSUME NEW r \in reads, Hydrate(r) PROVE TodoOnce' /\ Balance'
  BY <1>1, <1>3, <1>10 DEF Hydrate, History, Timeline
<1>11. CASE Trim
  <2>1. /\ Timeline' = SubSeq(Timeline, MaxLength + 1, Len(Timeline))
        /\ microtasks' = Disturbed /\ past' = past /\ MaxLength \in Nat
    BY <1>11, TrimStep, InMemoryAssumption DEF ReadInv
  <2>2. \A a \in Activities : Times(Timeline', a) <= Times(Timeline, a)
    BY <1>1, <2>1, TimesInTail
  <2>3. SubSeq(Timeline, MaxLength + 1, Len(Timeline)) \in Seq(Activities)
    BY <1>1, <2>1
  <2>4. \A a \in Activities : Times(Timeline', a) \in Nat
    BY <2>1, <2>3, PlacesFinite
  <2> QED
    BY <1>2, <2>1, <2>2, <2>4, BalanceKept
<1>12. CASE Delete
  BY <1>3, <1>12 DEF Delete, Timeline
<1>13. CASE Flush
  BY <1>1, <1>3, <1>13 DEF Flush, History, Timeline
<1>14. CASE UNCHANGED vars
  BY <1>3, <1>14 DEF vars, Timeline
<1> QED
  BY <1>4, <1>5, <1>6, <1>7, <1>8, <1>9, <1>10, <1>11, <1>12, <1>13, <1>14 DEF Next

LEMMA InitReadInv == Init => ReadInv
<1> SUFFICES ASSUME Init PROVE ReadInv
  OBVIOUS
<1>1. OnceInv
  BY DEF Init, OnceInv, TypeOK, Carried, Apart, Fresh, OnceEach, Timeline, History, Adding
<1>2. /\ microtasks = <<>> /\ Timeline = <<>>
      /\ \A a \in Activities : past.taken[a] = 0 /\ past.added[a] = 0
  BY DEF Init, Timeline
<1>3. \A a : Places(<<>>, a) = {} /\ Waiting(a) = {}
  BY <1>2 DEF Places, Waiting
<1>4. TodoOnce
  BY <1>2 DEF TodoOnce
<1>5. \A a : Times(Timeline, a) = 0 /\ Cardinality(Waiting(a)) = 0
  BY <1>2, <1>3, FS_EmptySet DEF Times
<1>6. Balance
  BY <1>2, <1>5 DEF Balance
<1> QED
  BY <1>1, <1>4, <1>6 DEF ReadInv

\* An id is read no more often than it was added, whatever adds wait in between and
\* however often the feed is trimmed, deleted and made anew.
THEOREM ReadsOnce == Spec => []ReadOnce
<1>1. ASSUME ReadInv, NEW a \in Activities
      PROVE  past.taken[a] + Cardinality({i \in DOMAIN Timeline : Timeline[i] = a}) <= past.added[a]
  <2>1. /\ past.taken[a] \in Nat /\ past.added[a] \in Nat /\ Times(Timeline, a) \in Nat
        /\ Cardinality(Waiting(a)) \in Nat
    BY <1>1, TimelineType, PlacesFinite, WaitingFinite DEF ReadInv, OnceInv, TypeOK, History
  <2>2. past.taken[a] + Times(Timeline, a) + Cardinality(Waiting(a)) <= past.added[a]
    BY <1>1 DEF ReadInv, Balance
  <2>3. past.taken[a] + Times(Timeline, a) <= past.added[a]
    BY <2>1, <2>2
  <2> QED
    BY <2>3 DEF Times, Places
<1>2. ReadInv => ReadOnce
  BY <1>1 DEF ReadOnce
<1> QED
  BY InitReadInv, ReadInvKept, <1>2, PTL DEF Spec

-----------------------------------------------------------------------------
(* An undisturbed add leaves all its ids *)

\* An add that nothing has disturbed works on the feed's array, which holds all its ids
\* but those it has still to insert, and what it found there is there still.
Sound ==
  \A i \in DOMAIN microtasks : microtasks[i].alone =>
    /\ microtasks[i].ref = timelineStore
    /\ microtasks[i].acts \subseteq Elements(Timeline) \cup Elements(microtasks[i].todo)
    /\ microtasks[i].exist => Head(microtasks[i].todo) \in Elements(Timeline)

StoredInv == OnceInv /\ Sound

\* An undisturbed add that goes on leaves in the feed the id it has dealt with.
LEMMA ResumeStores ==
  ASSUME StoredInv, Resume
  PROVE  /\ Elements(Timeline) \subseteq Elements(Timeline')
         /\ Oldest.alone =>
              /\ Oldest.ref = timelineStore
              /\ Oldest.acts \subseteq Elements(Timeline') \cup Elements(Tail(Oldest.todo))
<1>1. /\ 1 \in DOMAIN microtasks /\ Oldest = microtasks[1]
      /\ Oldest.todo # <<>> /\ Oldest.todo \in Seq(Activities)
      /\ \/ Timeline' = Timeline /\ (Oldest.exist \/ Oldest.ref # timelineStore)
         \/ Timeline \in Seq(Activities) /\ Timeline' = Append(Timeline, NextId)
  <2>1. DOMAIN microtasks = 1 .. Len(microtasks) /\ Len(microtasks) \in Nat \ {0}
    BY ResumeStep DEF StoredInv
  <2>2. 1 \in DOMAIN microtasks
    BY <2>1
  <2> QED
    BY <2>2, ResumeStep DEF StoredInv
<1>2. Oldest.alone =>
        /\ Oldest.ref = timelineStore
        /\ Oldest.acts \subseteq Elements(Timeline) \cup Elements(Oldest.todo)
        /\ Oldest.exist => NextId \in Elements(Timeline)
  BY <1>1 DEF StoredInv, Sound, NextId
<1>3. Elements(Oldest.todo) \subseteq {NextId} \cup Elements(Tail(Oldest.todo))
  <2> DEFINE s == Oldest.todo
  <2>1. s \in Seq(Activities) /\ s # <<>> /\ NextId = Head(s)
    BY <1>1 DEF NextId
  <2> HIDE DEF s
  <2>2. ASSUME NEW i \in DOMAIN s
        PROVE  s[i] = NextId \/ \E j \in DOMAIN Tail(s) : Tail(s)[j] = s[i]
    <3>1. CASE i = 1
      BY <2>1, <3>1
    <3>2. CASE i # 1
      <4>1. i - 1 \in DOMAIN Tail(s) /\ Tail(s)[i - 1] = s[i]
        BY <2>1, <3>2
      <4> QED
        BY <4>1
    <3> QED
      BY <3>1, <3>2
  <2>3. Elements(s) \subseteq {NextId} \cup Elements(Tail(s))
    BY <2>2 DEF Elements
  <2> QED
    BY <2>3 DEF s
<1>4. CASE Timeline' = Timeline /\ (Oldest.exist \/ Oldest.ref # timelineStore)
  BY <1>2, <1>3, <1>4
<1>5. CASE Timeline \in Seq(Activities) /\ Timeline' = Append(Timeline, NextId)
  <2>1. Elements(Timeline) \subseteq Elements(Timeline') /\ NextId \in Elements(Timeline')
    <3>1. /\ DOMAIN Timeline \subseteq DOMAIN Append(Timeline, NextId)
          /\ \A i \in DOMAIN Timeline : Append(Timeline, NextId)[i] = Timeline[i]
          /\ Len(Timeline) + 1 \in DOMAIN Append(Timeline, NextId)
          /\ Append(Timeline, NextId)[Len(Timeline) + 1] = NextId
      BY <1>5
    <3> QED
      BY <1>5, <3>1 DEF Elements
  <2> QED
    BY <1>2, <1>3, <2>1
<1> QED
  BY <1>1, <1>4, <1>5

LEMMA SoundKeptByResume ==
  ASSUME StoredInv, Resume
  PROVE  Sound'
<1> DEFINE n == Len(microtasks)
           c == Oldest
           u == Shorter
           more == Tail(c.todo) # <<>>
<1>1. /\ n \in Nat \ {0} /\ DOMAIN microtasks = 1 .. n
      /\ u.todo = Tail(c.todo) /\ u.ref = c.ref /\ u.acts = c.acts /\ u.alone = c.alone
      /\ u.exist = (Head(Tail(c.todo)) \in Elements(Timeline'))
      /\ DOMAIN microtasks' = IF more THEN 1 .. n ELSE 1 .. n - 1
      /\ \A i \in 1 .. n - 1 : microtasks'[i] = microtasks[i + 1]
      /\ more => microtasks'[n] = u
      /\ timelineStore' = timelineStore
  BY ResumeStep DEF StoredInv
<1>2. /\ Elements(Timeline) \subseteq Elements(Timeline')
      /\ c.alone => /\ c.ref = timelineStore
                    /\ c.acts \subseteq Elements(Timeline') \cup Elements(Tail(c.todo))
  BY ResumeStores
<1> HIDE DEF n, c, u, more
<1>3. ASSUME NEW i \in DOMAIN microtasks', microtasks'[i].alone
      PROVE  /\ microtasks'[i].ref = timelineStore'
             /\ microtasks'[i].acts \subseteq Elements(Timeline') \cup Elements(microtasks'[i].todo)
             /\ microtasks'[i].exist => Head(microtasks'[i].todo) \in Elements(Timeline')
  <2>1. CASE i \in 1 .. n - 1
    <3>1. i + 1 \in DOMAIN microtasks /\ microtasks'[i] = microtasks[i + 1]
      BY <1>1, <2>1
    <3> QED
      BY <1>1, <1>2, <1>3, <3>1 DEF StoredInv, Sound
  <2>2. CASE i = n /\ more
    <3>1. microtasks'[i] = u
      BY <1>1, <2>2
    <3> QED
      BY <1>1, <1>2, <1>3, <3>1
  <2>3. i \in 1 .. n - 1 \/ (i = n /\ more)
    <3>1. CASE more
      BY <1>1, <3>1
    <3>2. CASE ~more
      BY <1>1, <3>2
    <3> QED
      BY <3>1, <3>2
  <2> QED
    BY <2>1, <2>2, <2>3
<1> QED
  BY <1>3 DEF Sound

\* A feed without an array has no undisturbed add, so a new array takes nobody's ids away.
LEMMA SoundKeptByAdd ==
  ASSUME StoredInv, NEW acts \in Adds, AddToStorage(acts)
  PROVE  Sound'
<1>1. PICK heap, ref :
        /\ StartAdd(acts, heap, ref) /\ Timeline' = Timeline
        /\ \/ heap = arrays /\ ref = timelineStore /\ ref # 0
           \/ timelineStore = 0 /\ heap = Append(arrays, <<>>) /\ ref = Len(arrays) + 1
  BY AddStep DEF StoredInv
<1> DEFINE n == Len(microtasks) + 1
           t == [ref |-> ref, todo |-> acts, exist |-> Head(acts) \in Elements(Timeline),
                 acts |-> Elements(acts), alone |-> TRUE]
<1>2. microtasks \in Seq(Adding) /\ arrays \in Seq(Seq(Activities))
  BY DEF StoredInv, OnceInv, TypeOK
<1>3. microtasks' = Append(microtasks, t) /\ timelineStore' = ref
  BY <1>1 DEF StartAdd
<1>4. /\ t.ref = ref /\ t.todo = acts /\ t.acts = Elements(acts)
      /\ t.exist = (Head(acts) \in Elements(Timeline))
  OBVIOUS
<1> HIDE DEF t
<1>5. /\ DOMAIN microtasks' = DOMAIN microtasks \cup {n} /\ microtasks'[n] = t
      /\ \A i \in DOMAIN microtasks : microtasks'[i] = microtasks[i]
  BY <1>2, <1>3
<1> HIDE DEF n
<1>6. ASSUME NEW i \in DOMAIN microtasks, microtasks[i].alone PROVE timelineStore = ref
  <2>1. microtasks[i].ref = timelineStore /\ microtasks[i] \in Adding
    BY <1>2, <1>6 DEF StoredInv, Sound
  <2>2. timelineStore \in 1 .. Len(arrays)
    BY <1>2, <2>1 DEF Adding
  <2> QED
    BY <1>1, <1>2, <2>2
<1>7. ASSUME NEW i \in DOMAIN microtasks', microtasks'[i].alone
      PROVE  /\ microtasks'[i].ref = timelineStore'
             /\ microtasks'[i].acts \subseteq Elements(Timeline') \cup Elements(microtasks'[i].todo)
             /\ microtasks'[i].exist => Head(microtasks'[i].todo) \in Elements(Timeline')
  <2>1. CASE i \in DOMAIN microtasks
    BY <1>1, <1>3, <1>5, <1>6, <1>7, <2>1 DEF StoredInv, Sound
  <2>2. CASE i = n
    BY <1>1, <1>3, <1>4, <1>5, <2>2
  <2> QED
    BY <1>5, <2>1, <2>2
<1> QED
  BY <1>7 DEF Sound

LEMMA StoredInvKept ==
  ASSUME StoredInv, [Next]_vars
  PROVE  StoredInv'
<1> SUFFICES Sound'
  BY OnceInvKept DEF StoredInv
\* A read, a trim or a deletion disturbs every add.
<1>1. ASSUME microtasks' = Disturbed PROVE Sound'
  <2>1. microtasks \in Seq(Adding)
    BY DEF StoredInv, OnceInv, TypeOK
  <2>2. ASSUME NEW i \in DOMAIN microtasks' PROVE ~microtasks'[i].alone
    <3>1. i \in DOMAIN microtasks /\ microtasks'[i] = [microtasks[i] EXCEPT !.alone = FALSE]
      BY <1>1 DEF Disturbed
    <3>2. microtasks[i] \in Adding
      BY <2>1, <3>1
    <3> QED
      BY <3>1, <3>2 DEF Adding
  <2> QED
    BY <2>2 DEF Sound
<1>2. ASSUME microtasks' = microtasks, timelineStore' = timelineStore, arrays' = arrays
      PROVE  Sound'
  BY <1>2 DEF StoredInv, Sound, Timeline, Elements
<1>3. ASSUME NEW S \in Inserts, InsertActivities(S) PROVE Sound'
  BY <1>2, <1>3 DEF InsertActivities
<1>4. ASSUME NEW a \in activityStore, RemoveActivity(a) PROVE Sound'
  BY <1>2, <1>4 DEF RemoveActivity
<1>5. ASSUME NEW acts \in Adds, AddToStorage(acts) PROVE Sound'
  BY <1>5, SoundKeptByAdd
<1>6. CASE Resume
  BY <1>6, SoundKeptByResume
<1>7. CASE RemoveFromStorage
  BY <1>2, <1>7 DEF RemoveFromStorage
<1>8. ASSUME NEW sl \in Slices, GetSlice(sl[1], sl[2]) PROVE Sound'
  BY <1>1, <1>8 DEF GetSlice
<1>9. ASSUME NEW r \in reads, Hydrate(r) PROVE Sound'
  BY <1>2, <1>9 DEF Hydrate
<1>10. CASE Trim
  BY <1>1, <1>10 DEF Trim
<1>11. CASE Delete
  BY <1>1, <1>11 DEF Delete
<1>12. CASE Flush
  BY <1>1, <1>12 DEF Flush
<1>13. CASE UNCHANGED vars
  BY <1>2, <1>13 DEF vars
<1> QED
  BY <1>3, <1>4, <1>5, <1>6, <1>7, <1>8, <1>9, <1>10, <1>11, <1>12, <1>13 DEF Next

\* An add ends only by going on with its last id.
LEMMA EndsByResume ==
  ASSUME StoredInv, [Next]_vars, Len(microtasks') < Len(microtasks)
  PROVE  Resume /\ Tail(Oldest.todo) = <<>>
<1>1. microtasks \in Seq(Adding) /\ Len(microtasks) \in Nat
  BY DEF StoredInv, OnceInv, TypeOK
<1>2. ASSUME microtasks' = Disturbed PROVE FALSE
  <2>1. Disturbed \in [1 .. Len(microtasks) -> {microtasks'[i] : i \in 1 .. Len(microtasks)}]
    BY <1>1, <1>2 DEF Disturbed
  <2>2. Len(Disturbed) = Len(microtasks)
    BY <1>1, <2>1
  <2> QED
    BY <1>1, <1>2, <2>2
<1>3. ASSUME NEW acts \in Adds, AddToStorage(acts) PROVE FALSE
  <2>1. PICK t : microtasks' = Append(microtasks, t)
    BY <1>3 DEF AddToStorage, StartAdd
  <2>2. Len(Append(microtasks, t)) = Len(microtasks) + 1
    BY <1>1
  <2> QED
    BY <1>1, <2>1, <2>2
<1>4. microtasks' # microtasks
  BY <1>1
<1>5. Resume
  BY <1>2, <1>3, <1>4 DEF Next, vars, InsertActivities, RemoveActivity, RemoveFromStorage,
     GetSlice, Hydrate, Trim, Delete, Flush
<1>6. ASSUME Tail(Oldest.todo) # <<>> PROVE FALSE
  <2>1. microtasks # <<>> /\ \E u : microtasks' = Append(Tail(microtasks), u)
    BY <1>5, <1>6 DEF Resume, Oldest
  <2>2. PICK u : microtasks' = Append(Tail(microtasks), u)
    BY <2>1
  <2>3. Tail(microtasks) \in Seq(Adding) /\ Len(Tail(microtasks)) = Len(microtasks) - 1
    BY <1>1, <2>1
  <2>4. Len(microtasks') = Len(microtasks)
    BY <1>1, <2>2, <2>3
  <2> QED
    BY <1>1, <2>4
<1> QED
  BY <1>5, <1>6

\* Between two ids an add awaits, and any other call may run: when none was a read, a trim
\* or a deletion, the feed holds every id of the add at its end, also when the key was new
\* to it and to others.
THEOREM AddsAreStored == Spec => AddsStored
<1>1. Init => StoredInv
  BY DEF Init, StoredInv, OnceInv, TypeOK, Carried, Apart, Fresh, OnceEach, Timeline, History,
     Adding, Sound
<1>2. StoredInv /\ [Next]_vars => StoredInv'
  BY StoredInvKept
<1>3. StoredInv /\ [Next]_vars =>
        [Len(microtasks') < Len(microtasks) /\ Head(microtasks).alone
           => Head(microtasks).acts \subseteq Elements(Timeline')]_vars
  <2> SUFFICES ASSUME StoredInv, [Next]_vars, Len(microtasks') < Len(microtasks), Oldest.alone
               PROVE  Oldest.acts \subseteq Elements(Timeline')
    BY DEF Oldest
  <2>1. Resume /\ Tail(Oldest.todo) = <<>>
    BY EndsByResume
  <2>2. Oldest.acts \subseteq Elements(Timeline') \cup Elements(Tail(Oldest.todo))
    BY <2>1, ResumeStores
  <2>3. Elements(Tail(Oldest.todo)) = {}
    BY <2>1 DEF Elements
  <2> QED
    BY <2>2, <2>3
<1> QED
  BY <1>1, <1>2, <1>3, PTL DEF Spec, AddsStored
=============================================================================
