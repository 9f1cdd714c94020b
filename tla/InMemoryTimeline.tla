--------------------------- MODULE InMemoryTimeline ---------------------------
(***************************************************************************)
(* One feed in the memory of a process: its timeline                       *)
(* (InMemoryTimelineStorage) and the activities that all feeds share       *)
(* (InMemoryActivityStorage).                                              *)
(*                                                                         *)
(* timelineStore refers to an array of ids.  An add looks the array up     *)
(* once, and between the test for an id and its insertion it awaits, so    *)
(* other calls run there: adds, which do the same, and trims and           *)
(* deletions, which are done in one go and may leave the add with an array *)
(* that is the feed's no more.  Node resumes awaiting adds first in, first *)
(* out.  A read takes a page out of the array in one go and looks its      *)
(* activities up later; what runs in between is left open.                 *)
(*                                                                         *)
(* A definition marked "slip" is the one after it with a plausible mistake *)
(* in it.  No action uses it; it shows that a property can fail.           *)
(***************************************************************************)
EXTENDS Naturals, Sequences, FiniteSets

CONSTANTS
  Activities,   \* the ids
  Adds,         \* the sequences of ids the application adds in one call, each
                \*   id once
  Inserts,      \* the sets of activities it stores in one call
  Slices,       \* the <<start, stop>> it reads
  MaxLength,    \* the length it trims to
  MaxCalls      \* bound: calls of the storage

ASSUME InMemoryAssumption ==
  /\ Adds \subseteq Seq(Activities) \ {<<>>}
  /\ \A acts \in Adds : \A i, j \in DOMAIN acts : acts[i] = acts[j] => i = j
  /\ Inserts \subseteq SUBSET Activities
  /\ Slices \subseteq Nat \X Nat
  /\ MaxLength \in Nat \ {0}
  /\ MaxCalls \in Nat

VARIABLES
  arrays,         \* every array there has been; a reference is an index
  timelineStore,  \* the feed's array, or 0 for none
  microtasks,     \* adds that await, in the order they go on
  activityStore,  \* the activities that can be looked up
  reads,          \* pages that have been read and wait for their activities
  calls,          \* calls made so far
  past            \* history, read by the properties only

vars == <<arrays, timelineStore, microtasks, activityStore, reads, calls, past>>

-----------------------------------------------------------------------------
\* An add: its array, the ids it has still to insert, and whether the feed held
\* the first of these when it looked.  History: all its ids, and whether it has
\* run without a read, a trim or a deletion.
Adding == [ref : DOMAIN arrays, todo : Seq(Activities), exist : BOOLEAN,
           acts : SUBSET Activities, alone : BOOLEAN]

\* A read: the ids of its page.
Reading == [ids : SUBSET Activities, nth : Nat]

\* overlapped: ids that two adds at once have carried; inserted and removed:
\* activities that have been put into the storage and taken out; added and taken: how
\* often each id has been added and read; nulls: the pages that could not be looked up.
History == [overlapped : SUBSET Activities, inserted : SUBSET Activities,
            removed : SUBSET Activities, added : [Activities -> Nat],
            taken : [Activities -> Nat], nulls : SUBSET SUBSET Activities]

TypeOK ==
  /\ arrays \in Seq(Seq(Activities))
  /\ timelineStore \in {0} \cup DOMAIN arrays
  /\ microtasks \in Seq(Adding)
  /\ activityStore \in SUBSET Activities
  /\ reads \in SUBSET Reading
  /\ calls \in Nat
  /\ past \in History

Init ==
  /\ arrays = <<>>
  /\ timelineStore = 0
  /\ microtasks = <<>>
  /\ activityStore = {}
  /\ reads = {}
  /\ calls = 0
  /\ past = [overlapped |-> {}, inserted |-> {}, removed |-> {},
             added |-> [a \in Activities |-> 0], taken |-> [a \in Activities |-> 0], nulls |-> {}]

-----------------------------------------------------------------------------
Elements(s) == {s[i] : i \in DOMAIN s}

\* getTimeline: the feed's array, empty when there is none.
Timeline == IF timelineStore = 0 THEN <<>> ELSE arrays[timelineStore]

\* The first n of s, or all there are.
Start(s, n) == SubSeq(s, 1, IF n < Len(s) THEN n ELSE Len(s))

\* Array.splice(i, 0, x): an index past the end is the end.
SpliceIn(s, i, x) ==
  Start(s, i) \o <<x>> \o SubSeq(s, i + 1, Len(s))

\* Slip: what is left begins with the last id of the page.
RestWithLast(s, start, count) ==
  Start(s, start) \o SubSeq(s, start + count, Len(s))

\* Array.splice(start, count): what it leaves.
SplicedRest(s, start, count) ==
  Start(s, start) \o SubSeq(s, start + count + 1, Len(s))

\* Where an id goes.  The middle is never halved (the // of the source begins a
\* comment), so the first probe is past the end, no id is above what is there, and
\* the search ends behind it.
reverse_bisect_left(s) == IF s = <<>> THEN 0 ELSE Len(s) + 1

Call == calls < MaxCalls /\ calls' = calls + 1

\* What the adds under way are after a read, a trim or a deletion.
Disturbed == [i \in DOMAIN microtasks |-> [microtasks[i] EXCEPT !.alone = FALSE]]

-----------------------------------------------------------------------------
(* The activity storage *)

\* Slip: when an activity is there already, nothing is stored.
InsertNew(S) ==
  /\ Call
  /\ activityStore' = activityStore \cup (IF S \cap activityStore = {} THEN S ELSE {})
  /\ past' = [past EXCEPT !.inserted = @ \cup S]
  /\ UNCHANGED <<arrays, timelineStore, microtasks, reads>>

\* insertActivities.
InsertActivities(S) ==
  /\ Call
  /\ activityStore' = activityStore \cup S
  /\ past' = [past EXCEPT !.inserted = @ \cup S]
  /\ UNCHANGED <<arrays, timelineStore, microtasks, reads>>

\* removeActivity.
RemoveActivity(a) ==
  /\ Call
  /\ activityStore' = activityStore \ {a}
  /\ past' = [past EXCEPT !.removed = @ \cup {a}]
  /\ UNCHANGED <<arrays, timelineStore, microtasks, reads>>

-----------------------------------------------------------------------------
(* The timeline *)

\* What the two slips and the action share: the call of an add that takes the
\* array at ref of heap.  The application stores an activity before it adds it.
StartAdd(acts, heap, ref) ==
  /\ Call
  /\ Elements(acts) \subseteq past.inserted
  /\ arrays' = heap
  /\ timelineStore' = ref
  /\ microtasks' = Append(microtasks,
       [ref |-> ref, todo |-> acts, exist |-> Head(acts) \in Elements(Timeline),
        acts |-> Elements(acts), alone |-> TRUE])
  /\ past' = [past EXCEPT
       !.overlapped = @ \cup
         {a \in Elements(acts) : \E i \in DOMAIN microtasks : a \in microtasks[i].acts},
       !.added = [a \in Activities |-> IF a \in Elements(acts) THEN @[a] + 1 ELSE @[a]]]
  /\ UNCHANGED <<activityStore, reads>>

\* Slip: a key without an array does not get one.
AddToStorageNowhere(acts) == StartAdd(acts, arrays, timelineStore)

\* Slip: an empty array is taken for none.
AddToStorageAnew(acts) ==
  IF Timeline = <<>> THEN StartAdd(acts, Append(arrays, <<>>), Len(arrays) + 1)
  ELSE StartAdd(acts, arrays, timelineStore)

\* addToStorage, to its first await.
AddToStorage(acts) ==
  IF timelineStore = 0 THEN StartAdd(acts, Append(arrays, <<>>), Len(arrays) + 1)
  ELSE StartAdd(acts, arrays, timelineStore)

\* Slip: inserts whether the feed held the id or not.
InsertAnyway(c) ==
  [arrays EXCEPT ![c.ref] = SpliceIn(@, reverse_bisect_left(@), Head(c.todo))]

\* The arrays once add c has dealt with its first id.
Insert(c) ==
  IF c.exist THEN arrays
  ELSE [arrays EXCEPT ![c.ref] = SpliceIn(@, reverse_bisect_left(@), Head(c.todo))]

\* The add that has waited longest goes on to its next await, or to its end.
Resume ==
  LET c == Head(microtasks)
      rest == Tail(c.todo)
  IN  /\ microtasks # <<>>
      /\ arrays' = Insert(c)
      /\ UNCHANGED <<timelineStore, activityStore, reads, calls, past>>
      /\ \/ rest = <<>> /\ microtasks' = Tail(microtasks)
         \/ /\ rest # <<>>
            /\ microtasks' = Append(Tail(microtasks),
                 [c EXCEPT !.todo = rest, !.exist = Head(rest) \in Elements(Timeline')])

\* removeFromStorage: what the filter returns is dropped, so nothing is removed.
RemoveFromStorage ==
  Call /\ UNCHANGED <<arrays, timelineStore, microtasks, activityStore, reads, past>>

\* The page that splice(start, stop) takes out of s: stop ids of it.
Page(s, start, stop) == SubSeq(s, start + 1, IF start + stop < Len(s) THEN start + stop ELSE Len(s))

\* getSliceFromStorage: splice takes what it returns out of the array.  An empty page
\* needs no activities.
GetSlice(start, stop) ==
  LET page == Page(Timeline, start, stop) IN
  /\ Call
  /\ \/ timelineStore = 0 /\ UNCHANGED arrays
     \/ /\ timelineStore # 0
        /\ arrays' = [arrays EXCEPT ![timelineStore] = SplicedRest(@, start, stop)]
  /\ microtasks' = Disturbed
  /\ reads' = IF page = <<>> THEN reads
              ELSE reads \cup {[ids |-> Elements(page), nth |-> calls]}
  /\ past' = [past EXCEPT !.taken =
       [a \in Activities |-> @[a] + Cardinality({i \in DOMAIN page : page[i] = a})]]
  /\ UNCHANGED <<timelineStore, activityStore>>

\* hydrateActivities of a page.  An id without an activity makes getItem return null.
Hydrate(r) ==
  /\ reads' = reads \ {r}
  /\ past' = IF r.ids \subseteq activityStore THEN past
             ELSE [past EXCEPT !.nulls = @ \cup {r.ids}]
  /\ UNCHANGED <<arrays, timelineStore, microtasks, activityStore, calls>>

\* trim: the key gets a new array of what the splice takes out, all ids from
\* MaxLength on; the old array keeps the others.  Without an array trim fails.
Trim ==
  /\ timelineStore # 0
  /\ Call
  /\ arrays' = Append([arrays EXCEPT ![timelineStore] = Start(@, MaxLength)],
                      SubSeq(Timeline, MaxLength + 1, Len(Timeline)))
  /\ timelineStore' = Len(arrays) + 1
  /\ microtasks' = Disturbed
  /\ UNCHANGED <<activityStore, reads, past>>

\* delete.
Delete ==
  /\ timelineStore # 0
  /\ Call
  /\ timelineStore' = 0
  /\ microtasks' = Disturbed
  /\ UNCHANGED <<arrays, activityStore, reads, past>>

\* flush: both storages are emptied.
Flush ==
  /\ Call
  /\ timelineStore' = 0
  /\ activityStore' = {}
  /\ microtasks' = Disturbed
  /\ past' = [past EXCEPT !.removed = @ \cup activityStore]
  /\ UNCHANGED <<arrays, reads>>

Next ==
  \/ \E S \in Inserts : InsertActivities(S)
  \/ \E a \in activityStore : RemoveActivity(a)
  \/ \E acts \in Adds : AddToStorage(acts)
  \/ Resume
  \/ RemoveFromStorage
  \/ \E s \in Slices : GetSlice(s[1], s[2])
  \/ \E r \in reads : Hydrate(r)
  \/ Trim
  \/ Delete
  \/ Flush

Spec == Init /\ [][Next]_vars

-----------------------------------------------------------------------------
(* Properties *)

\* An add that no read, trim or deletion has met leaves all its ids in the feed,
\* also when other adds have run between its steps, on a key that was new to all.
AddsStored ==
  [][Len(microtasks') < Len(microtasks) /\ Head(microtasks).alone
       => Head(microtasks).acts \subseteq Elements(Timeline')]_vars

\* Only adds of one id that run at once put it into the feed twice.
OnceEach ==
  \A a \in Activities \ past.overlapped : \A i, j \in DOMAIN Timeline :
    Timeline[i] = a /\ Timeline[j] = a => i = j

\* No id is read more often than it was added: a page goes to one reader, whatever
\* adds, trims, deletions and other reads run next to it, and those the feed holds
\* have not been read yet.
ReadOnce ==
  \A a \in Activities :
    past.taken[a] + Cardinality({i \in DOMAIN Timeline : Timeline[i] = a}) <= past.added[a]

\* A page comes back as null only because one of its activities has been removed from
\* the storage, before or while it was read.
NullExplained == \A S \in past.nulls : S \cap past.removed # {}
=============================================================================
