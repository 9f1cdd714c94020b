------------------------ MODULE AggregatedFeedProofs ------------------------
(***************************************************************************)
(* What holds of AggregatedFeed for any activities, groups, limits and     *)
(* number of calls.  Who writes a group, and what leaves the feed, does    *)
(* not depend on what is in a group.  What the fold over the activities of *)
(* a group makes of them comes after that, and what the feed tells of a    *)
(* batch from it.                                                          *)
(***************************************************************************)
EXTENDS AggregatedFeed, Induction

\* A call, whatever the groups it is to write are.
CallOf(left) ==
  [id : Nat, how : {"merge", "blind"}, batch : SUBSET Activities, at : {"read", "write"},
   left : {left}]

\* The record of what has happened.
Record(p) ==
  p \in [written : {p.written}, overlaps : {p.overlaps}, blind : {p.blind},
         outranked : {p.outranked}, gone : {p.gone}, removed : {p.removed}, done : {p.done}]

Shaped ==
  /\ \A c \in calls : c \in CallOf(c.left)
  /\ Record(past)

Finite ==
  /\ IsFiniteSet(timeline)
  /\ \A c \in calls : IsFiniteSet(c.left)

\* Calls are numbered in the order they start, and every pair of those under way is
\* on record.
Numbered ==
  /\ made \in Nat
  /\ \A c \in calls : c.id < made
  /\ \A c, d \in calls : c # d => c.id # d.id /\ {c.id, d.id} \in past.overlaps
  /\ \A c \in calls : c.how = "blind" => c.id \in past.blind
  /\ \A w \in past.written : w.by \in Nat /\ w.by < made /\ w.member \in timeline

\* A merge looks at the newest MergeMaxLength: the others are on record.
Ranked ==
  \A e \in timeline : Cardinality(AsNew(e, timeline)) >= MergeMaxLength
                        => e \in past.outranked

OnePerGroup(S) == \A e, f \in S : e.group = f.group => e = f

\* What a call is about to write is the first of its group, or the other one has an
\* excuse, or was out of sight.
Pending ==
  \A c \in calls :
    /\ OnePerGroup(c.left)
    /\ c.at = "read" => \A w \in past.written : w.by # c.id
    /\ \A e \in c.left, w \in past.written :
         w.member.group = e.group /\ w.member # e =>
           w.by # c.id /\ (Excused(w.by, c.id) \/ w.member \in past.outranked)

Inv == Shaped /\ Finite /\ Numbered /\ Ranked /\ Pending /\ TwiceOnlyIfExcused
-----------------------------------------------------------------------------
(* The operators *)

\* The groups of a batch are finitely many, and no two of one group, of which
\* serializeActivities keeps some.
LEMMA BatchGroups ==
  ASSUME NEW B, B \subseteq Activities, NEW S, S \subseteq GroupActivities(B),
         NEW W \in Serialized(S)
  PROVE  IsFiniteSet(W) /\ OnePerGroup(W)
<1> DEFINE whole(g) == Member(g, Aggregated(InGroup(B, g)))
           f == [a \in B |-> whole(GroupOf[a])]
<1>1. IsFiniteSet(B)
  BY FS_Subset, FeedAssumption
<1>2. f \in Surjection(B, GroupActivities(B))
  BY DEF Surjection, GroupActivities
<1>3. IsFiniteSet(GroupActivities(B))
  <2> HIDE DEF f
  <2> QED
    BY <1>1, <1>2, FS_Surjection
<1>4. W \subseteq GroupActivities(B)
  BY DEF Serialized
<1>5. IsFiniteSet(W)
  BY <1>3, <1>4, FS_Subset
<1>6. \A g : whole(g).group = g
  BY DEF Member
<1>7. OnePerGroup(GroupActivities(B))
  <2> HIDE DEF whole
  <2>1. GroupActivities(B) = {whole(g) : g \in {GroupOf[a] : a \in B}}
    BY DEF GroupActivities, whole
  <2> QED
    BY <1>6, <2>1 DEF OnePerGroup
<1> QED
  BY <1>4, <1>5, <1>7 DEF OnePerGroup

\* A member that is not among the newest n has n others at least as new beside it.
LEMMA LeftOut ==
  ASSUME NEW S, IsFiniteSet(S), NEW n \in Nat, NEW P \in NewestOf(S, n)
  PROVE  /\ P \subseteq S
         /\ IsFiniteSet(P)
         /\ \A e \in S \ P : Cardinality(AsNew(e, S)) >= n
<1>1. P \subseteq S /\ IsFiniteSet(P)
  BY FS_Subset DEF NewestOf
<1>2. ASSUME NEW e \in S \ P PROVE Cardinality(AsNew(e, S)) >= n
  <2>1. P \subseteq AsNew(e, S)
    BY DEF NewestOf, AsNew
  <2>2. IsFiniteSet(AsNew(e, S))
    BY FS_Subset DEF AsNew
  <2>3. Cardinality(P) <= Cardinality(AsNew(e, S))
    BY <2>1, <2>2, FS_Subset
  <2>4. Cardinality(P) # Cardinality(S)
    BY <1>1, <1>2, FS_Subset
  <2>5. Cardinality(P) = n
    BY <2>4 DEF NewestOf
  <2>6. Cardinality(AsNew(e, S)) \in Nat
    BY <2>2, FS_CardinalityType
  <2> QED
    BY <2>3, <2>5, <2>6
<1> QED
  BY <1>1, <1>2

\* What Recorded changes, and what it leaves alone.
LEMMA RecordedFields ==
  ASSUME Shaped, NEW T
  PROVE  /\ Recorded(T).written = {w \in past.written : w.member \in T}
         /\ Recorded(T).outranked = past.outranked \cup
              {e \in T : Cardinality(AsNew(e, T)) >= MergeMaxLength}
         /\ Recorded(T).overlaps = past.overlaps
         /\ Recorded(T).blind = past.blind
         /\ Recorded(T).removed = past.removed
         /\ Record(Recorded(T))
  BY DEF Shaped, Recorded, Record

-----------------------------------------------------------------------------
(* A step keeps the invariant: one lemma per operation *)

LEMMA StepStartCall ==
  ASSUME Inv, NEW how \in {"merge", "blind"}, NEW B \in Batches, NEW at \in {"read", "write"}, NEW left,
         IsFiniteSet(left), OnePerGroup(left), how = "merge" => left = {},
         StartCall(how, B, at, left)
  PROVE  Inv'
<1> DEFINE new == [id |-> made, how |-> how, batch |-> B, at |-> at, left |-> left]
<1>1. /\ made' = made + 1 /\ timeline' = timeline /\ calls' = calls \cup {new}
      /\ past'.written = past.written /\ past'.outranked = past.outranked
      /\ past'.overlaps = past.overlaps \cup {{c.id, made} : c \in calls}
      /\ past'.blind = IF how = "blind" THEN past.blind \cup {made} ELSE past.blind
  BY DEF StartCall, Inv, Shaped, Record
<1>0. new \in CallOf(new.left) /\ new.left = left /\ new.id = made /\ new.how = how
  BY FeedAssumption DEF CallOf, Inv, Numbered
<1>2. Shaped'
  <2>1. Record(past')
    BY DEF StartCall, Inv, Shaped, Record
  <2> HIDE DEF new
  <2> QED
    BY <1>0, <1>1, <2>1 DEF Inv, Shaped
<1>3. Finite'
  BY <1>1, FeedAssumption DEF Inv, Finite
<1>4. Numbered'
  <2>1. made \in Nat /\ made + 1 \in Nat /\ made < made + 1
        /\ \A n \in Nat : n < made => n < made + 1 /\ n # made
    BY DEF Inv, Numbered
  <2>2. \A c, d \in calls' : c # d => c.id # d.id /\ {c.id, d.id} \in past'.overlaps
    <3>1. ASSUME NEW c \in calls, NEW d \in calls, c # d
          PROVE  c.id # d.id /\ {c.id, d.id} \in past'.overlaps
      BY <1>1, <3>1 DEF Inv, Numbered
    <3>2. ASSUME NEW c \in calls
          PROVE  /\ c.id # new.id
                 /\ {c.id, new.id} \in past'.overlaps /\ {new.id, c.id} \in past'.overlaps
      <4>1. {c.id, made} = {made, c.id}
        OBVIOUS
      <4> QED
        BY <1>1, <2>1, <4>1 DEF Inv, Numbered
    <3> HIDE DEF new
    <3> QED
      BY <1>1, <3>1, <3>2
  <2>3. \A c \in calls' : c.id < made'
    BY <1>0, <1>1, <2>1 DEF Inv, Numbered, Shaped, CallOf
  <2>4. \A c \in calls' : c.how = "blind" => c.id \in past'.blind
    BY <1>0, <1>1 DEF Inv, Numbered
  <2>5. \A w \in past'.written : w.by \in Nat /\ w.by < made' /\ w.member \in timeline'
    BY <1>1, <2>1 DEF Inv, Numbered
  <2> QED
    BY <1>1, <2>1, <2>2, <2>3, <2>4, <2>5 DEF Numbered
<1>5. Ranked'
  BY <1>1 DEF Inv, Ranked, AsNew
<1>6. \A c, d : Excused(c, d) => Excused(c, d)'
  BY <1>1 DEF Excused
<1>7. Pending'
  <2>1. ASSUME NEW e \in left, NEW w \in past.written
        PROVE  w.by # made /\ made \in past'.blind
    <3>1. how = "blind" /\ made \in past'.blind
      BY <1>1
    <3>2. w.by \in Nat /\ w.by < made /\ made \in Nat
      BY DEF Inv, Numbered
    <3> QED
      BY <3>1, <3>2
  <2>2. ASSUME NEW c \in calls, NEW e \in c.left, NEW w \in past.written,
               w.member.group = e.group, w.member # e
        PROVE  w.by # c.id /\ (Excused(w.by, c.id)' \/ w.member \in past'.outranked)
    BY <1>1, <1>6, <2>2 DEF Inv, Pending
  <2>3. \A c \in calls : /\ OnePerGroup(c.left)
                         /\ c.at = "read" => \A w \in past.written : w.by # c.id
    BY DEF Inv, Pending
  <2>5. \A w \in past.written : w.by # made
    BY DEF Inv, Numbered
  <2> HIDE DEF new
  <2>4. ASSUME NEW c \in calls' PROVE c \in calls \/ c = new
    BY <1>1
  <2> QED
    BY <1>0, <1>1, <2>1, <2>2, <2>3, <2>4, <2>5 DEF Pending, OnePerGroup, Excused
<1>8. TwiceOnlyIfExcused'
  BY <1>1, <1>6 DEF Inv, TwiceOnlyIfExcused
<1> QED
  BY <1>2, <1>3, <1>4, <1>5, <1>7, <1>8 DEF Inv

LEMMA StepAddMany ==
  ASSUME Inv, NEW B \in Batches, AddMany(B) \/ AddManyAggregated(B)
  PROVE  Inv'
<1>1. B \subseteq Activities
  BY FeedAssumption
<1>2. CASE AddMany(B)
  <2>1. IsFiniteSet({}) /\ OnePerGroup({})
    BY FS_EmptySet DEF OnePerGroup
  <2> QED
    BY <1>2, <2>1, StepStartCall DEF AddMany
<1>3. CASE AddManyAggregated(B)
  <2>1. PICK W \in Serialized(GroupActivities(B)) : StartCall("blind", B, "write", W)
    BY <1>3 DEF AddManyAggregated
  <2>2. IsFiniteSet(W) /\ OnePerGroup(W)
    BY <1>1, <2>1, BatchGroups
  <2> QED
    BY <2>1, <2>2, StepStartCall
<1> QED
  BY <1>2, <1>3


\* A step of no call under way that takes groups from the feed, or none.
LEMMA CutStep ==
  ASSUME Inv, calls' = calls, timeline' \subseteq timeline, Record(past'), Ranked',
         past'.written = {w \in past.written : w.member \in timeline'},
         past.outranked \subseteq past'.outranked, past'.overlaps = past.overlaps,
         past'.blind = past.blind, made' \in Nat, made <= made'
  PROVE  Inv'
<1>1. Shaped'
  BY DEF Inv, Shaped, Record
<1>2. Finite'
  BY FS_Subset DEF Inv, Finite
<1>3. Numbered'
  BY DEF Inv, Numbered, Shaped, CallOf
<1>4. Pending' /\ TwiceOnlyIfExcused'
  BY DEF Inv, Pending, TwiceOnlyIfExcused, Excused
<1> QED
  BY <1>1, <1>2, <1>3, <1>4 DEF Inv

LEMMA StepRemoveMany == ASSUME Inv, RemoveMany PROVE Inv'
<1>1. /\ timeline' = timeline /\ past' = past /\ calls' = calls
      /\ made \in Nat /\ made' = made + 1
  BY DEF RemoveMany, Inv, Numbered
<1>2. Record(past') /\ Ranked'
  BY <1>1 DEF Inv, Shaped, Record, Ranked, AsNew
<1>3. past'.written = {w \in past.written : w.member \in timeline'}
  BY <1>1 DEF Inv, Numbered
<1> QED
  BY <1>1, <1>2, <1>3, CutStep

LEMMA RecordedRanks ==
  ASSUME Shaped, NEW T, timeline' = T, past'.outranked = Recorded(T).outranked
  PROVE  Ranked' /\ past.outranked \subseteq past'.outranked
  BY RecordedFields DEF Ranked, AsNew

LEMMA StepRemoveManyAggregated ==
  ASSUME Inv, NEW e \in timeline, RemoveManyAggregated(e) PROVE Inv'
<1> DEFINE T == timeline \ {e}
<1>0. Shaped
  BY DEF Inv
<1>1. /\ timeline' = T /\ calls' = calls /\ made \in Nat /\ made' = made + 1
      /\ past' = [Recorded(T) EXCEPT !.removed = @ \cup {e}]
  BY DEF RemoveManyAggregated, Inv, Numbered
<1> HIDE DEF T
<1>2. /\ past'.written = {w \in past.written : w.member \in T}
      /\ past'.outranked = Recorded(T).outranked
      /\ past'.overlaps = past.overlaps /\ past'.blind = past.blind
      /\ Record(past')
  BY <1>0, <1>1, RecordedFields DEF Record
<1>3. timeline' \subseteq timeline
  BY <1>1 DEF T
<1>4. Ranked' /\ past.outranked \subseteq past'.outranked
  BY <1>0, <1>1, <1>2, RecordedRanks
<1> QED
  BY <1>1, <1>2, <1>3, <1>4, CutStep

LEMMA StepTrim == ASSUME Inv, Trim PROVE Inv'
<1>0. Shaped
  BY DEF Inv
<1>1. PICK T \in NewestOf(timeline, MaxLength) : timeline' = T /\ past' = Recorded(T)
  BY DEF Trim
<1>2. calls' = calls /\ made' = made /\ made \in Nat
  BY DEF Trim, Inv, Numbered
<1>3. /\ past'.written = {w \in past.written : w.member \in T}
      /\ past'.outranked = Recorded(T).outranked
      /\ past'.overlaps = past.overlaps /\ past'.blind = past.blind
      /\ Record(past')
  BY <1>0, <1>1, RecordedFields DEF Record
<1>4. timeline' \subseteq timeline
  BY <1>1 DEF NewestOf
<1>5. Ranked' /\ past.outranked \subseteq past'.outranked
  BY <1>0, <1>1, <1>3, RecordedRanks
<1> QED
  BY <1>1, <1>2, <1>3, <1>4, <1>5, CutStep

\* A call that goes on, with other groups to write, or returns.
LEMMA CallGoesOn ==
  ASSUME Shaped, Finite, Numbered, NEW c \in calls, NEW d, d \in CallOf(d.left),
         d.id = c.id, d.how = c.how, IsFiniteSet(d.left),
         calls' = (calls \ {c}) \cup {d} \/ calls' = calls \ {c}, made' = made,
         past'.overlaps = past.overlaps, past'.blind = past.blind
  PROVE  /\ \A b \in calls' : b \in CallOf(b.left)
         /\ \A b \in calls' : IsFiniteSet(b.left)
         /\ made' \in Nat
         /\ \A b \in calls' : b.id < made'
         /\ \A a, b \in calls' : a # b => a.id # b.id /\ {a.id, b.id} \in past'.overlaps
         /\ \A b \in calls' : b.how = "blind" => b.id \in past'.blind
<1>2. \A b \in calls' : (b \in calls /\ b # c) \/ b = d
  OBVIOUS
<1>3. ASSUME NEW a \in calls', NEW b \in calls', a # b
      PROVE  a.id # b.id /\ {a.id, b.id} \in past'.overlaps
  <2>1. CASE a \in calls /\ b \in calls
    BY <1>3, <2>1 DEF Numbered
  <2>2. CASE a = d
    BY <1>2, <1>3, <2>2 DEF Numbered
  <2>3. CASE b = d
    BY <1>2, <1>3, <2>3 DEF Numbered
  <2> QED
    BY <1>2, <2>1, <2>2, <2>3
<1> QED
  BY <1>2, <1>3 DEF Shaped, Finite, Numbered

LEMMA StepReadPage ==
  ASSUME Inv, NEW c \in calls, NEW page \in NewestOf(timeline, MergeMaxLength),
         ReadPage(c, page)
  PROVE  Inv'
<1>1. PICK W \in Serialized(Merge(c.batch, page)) :
        calls' = IF W = {} THEN calls \ {c}
                 ELSE (calls \ {c}) \cup {[c EXCEPT !.at = "write", !.left = W]}
  BY DEF ReadPage
<1>2. timeline' = timeline /\ past' = past /\ made' = made
  BY DEF ReadPage
<1> DEFINE d == [c EXCEPT !.at = "write", !.left = W]
<1>3. c \in CallOf(c.left)
  BY DEF Inv, Shaped
<1>4. d \in CallOf(d.left) /\ d.id = c.id /\ d.how = c.how /\ d.left = W /\ d.at = "write"
  BY <1>3 DEF CallOf
<1>5. Merge(c.batch, page) \subseteq GroupActivities(c.batch) /\ c.batch \subseteq Activities
  BY <1>3 DEF Merge, CallOf
<1>6. IsFiniteSet(W) /\ OnePerGroup(W)
  BY <1>5, BatchGroups
<1>7. W \subseteq Merge(c.batch, page)
  BY DEF Serialized
\* A group that W holds is not on the page: any member it has is further back.
<1>8. ASSUME NEW e \in W, NEW w \in past.written, w.member.group = e.group
      PROVE  w.member \in past.outranked
  <2>1. PICK a \in c.batch : e.group = GroupOf[a]
    BY <1>5, <1>7 DEF GroupActivities, Member
  <2>2. w.member \notin page
    BY <1>7, <1>8, <2>1 DEF Merge
  <2>3. w.member \in timeline
    BY DEF Inv, Numbered
  <2>4. MergeMaxLength \in Nat
    BY FeedAssumption
  <2>5. Cardinality(AsNew(w.member, timeline)) >= MergeMaxLength
    BY <2>2, <2>3, <2>4, LeftOut DEF Inv, Finite
  <2> QED
    BY <2>3, <2>5 DEF Inv, Ranked
<1>9. calls' = (calls \ {c}) \cup {d} \/ calls' = calls \ {c}
  BY <1>1
<1> HIDE DEF d
<1>10. Shaped' /\ Finite' /\ Numbered'
  BY <1>2, <1>4, <1>6, <1>9, CallGoesOn DEF Inv, Shaped, Finite, Numbered, Record
<1>11. Pending'
  <2>1. ASSUME NEW b \in calls' PROVE b \in calls \/ b = d
    BY <1>9
  <2>2. c.at = "read"
    BY DEF ReadPage
  <2>3. \A w \in past.written : w.by # c.id
    BY <2>2 DEF Inv, Pending
  <2> QED
    BY <1>2, <1>4, <1>6, <1>8, <2>1, <2>3 DEF Inv, Pending, OnePerGroup, Excused
<1>12. Ranked' /\ TwiceOnlyIfExcused'
  BY <1>2 DEF Inv, Ranked, AsNew, TwiceOnlyIfExcused, Excused
<1> QED
  BY <1>10, <1>11, <1>12 DEF Inv

LEMMA StepWrite ==
  ASSUME Inv, NEW c \in calls, NEW members \in SUBSET c.left, Write(c, members)
  PROVE  Inv'
<1> DEFINE T == timeline \cup members
           new == {[member |-> e, by |-> c.id, batch |-> c.batch] : e \in members}
           d == [c EXCEPT !.left = @ \ members]
<1>0. Shaped /\ c \in CallOf(c.left)
  BY DEF Inv, Shaped
<1>1. timeline' = T /\ made' = made
  BY DEF Write
<1>2. /\ past'.written = {w \in past.written : w.member \in T} \cup new
      /\ past'.outranked = Recorded(T).outranked
      /\ past'.overlaps = past.overlaps /\ past'.blind = past.blind
      /\ Record(past')
  <2>1. past' = [Recorded(T) EXCEPT
                   !.written = @ \cup new,
                   !.done = IF members = c.left THEN @ \cup {c.batch} ELSE @]
    BY DEF Write
  <2> HIDE DEF T, new
  <2> QED
    BY <1>0, <2>1, RecordedFields DEF Record
<1>3. past'.written = past.written \cup new
  BY <1>2 DEF Inv, Numbered
<1>4. calls' = (calls \ {c}) \cup {d} \/ calls' = calls \ {c}
  BY DEF Write
<1>5. d \in CallOf(d.left) /\ d.id = c.id /\ d.how = c.how /\ d.at = "write"
      /\ d.left = c.left \ members
  BY <1>0 DEF CallOf, Write
<1>6. \A w \in new : w.by = c.id /\ w.member \in members
  OBVIOUS
<1>7. IsFiniteSet(c.left) /\ IsFiniteSet(d.left) /\ IsFiniteSet(members)
  BY <1>5, FS_Subset DEF Inv, Finite
<1> HIDE DEF d, new
<1>8. Shaped' /\ Finite'
  BY <1>1, <1>2, <1>4, <1>5, <1>7, CallGoesOn, FS_Union DEF Inv, Shaped, Finite
<1>9. Numbered'
  <2>1. c.id \in Nat /\ c.id < made
    BY <1>0 DEF Inv, Numbered, CallOf
  <2>2. \A w \in past'.written : w.by \in Nat /\ w.by < made' /\ w.member \in timeline'
    BY <1>1, <1>3, <1>6, <2>1 DEF Inv, Numbered
  <2> QED
    BY <1>1, <1>2, <1>4, <1>5, <1>7, <2>2, CallGoesOn DEF Inv, Numbered
<1>10. Ranked' /\ past.outranked \subseteq past'.outranked
  BY <1>0, <1>1, <1>2, RecordedRanks
<1>11. \A i, j : Excused(i, j) => Excused(i, j)'
  BY <1>2 DEF Excused
<1>12. \A b \in calls \ {c} : b.id # c.id /\ Excused(b.id, c.id)' /\ Excused(c.id, b.id)'
  BY <1>2 DEF Inv, Numbered, Excused
<1>13. OnePerGroup(c.left)
  BY DEF Inv, Pending
<1>14. Pending'
  <2>1. ASSUME NEW b \in calls \ {c}, NEW e \in b.left, NEW w \in past'.written,
               w.member.group = e.group, w.member # e
        PROVE  w.by # b.id /\ (Excused(w.by, b.id)' \/ w.member \in past'.outranked)
    BY <1>3, <1>6, <1>10, <1>11, <1>12, <2>1 DEF Inv, Pending
  <2>2. ASSUME NEW e \in d.left, NEW w \in past'.written,
               w.member.group = e.group, w.member # e
        PROVE  w.by # d.id /\ (Excused(w.by, d.id)' \/ w.member \in past'.outranked)
    <3>1. w \in past.written
      BY <1>3, <1>5, <1>6, <1>13, <2>2 DEF OnePerGroup
    <3> QED
      BY <1>5, <1>10, <1>11, <2>2, <3>1 DEF Inv, Pending
  <2>3. OnePerGroup(d.left) /\ \A b \in calls : OnePerGroup(b.left)
    BY <1>5 DEF Inv, Pending, OnePerGroup
  <2>4. ASSUME NEW b \in calls \ {c}, b.at = "read", NEW w \in past'.written
        PROVE  w.by # b.id
    BY <1>3, <1>6, <1>12, <2>4 DEF Inv, Pending
  <2>5. ASSUME NEW b \in calls' PROVE b \in calls \ {c} \/ b = d
    BY <1>4
  <2> QED
    BY <1>5, <2>1, <2>2, <2>3, <2>4, <2>5 DEF Pending, OnePerGroup
<1>15. TwiceOnlyIfExcused'
  <2>1. ASSUME NEW v \in past.written, NEW w \in new,
               v.member.group = w.member.group, v.member # w.member
        PROVE  /\ Excused(v.by, w.by)' /\ Excused(w.by, v.by)'
               \/ v.member \in past'.outranked
    BY <1>6, <1>10, <1>11, <2>1 DEF Inv, Pending, Excused
  <2>2. ASSUME NEW v \in new, NEW w \in new, v.member.group = w.member.group
        PROVE  v.member = w.member
    BY <1>6, <1>13, <2>2 DEF OnePerGroup
  <2> QED
    BY <1>3, <1>10, <1>11, <2>1, <2>2 DEF Inv, TwiceOnlyIfExcused
<1> QED
  BY <1>8, <1>9, <1>10, <1>14, <1>15 DEF Inv

LEMMA StepInv == ASSUME Inv, [Next]_vars PROVE Inv'
<1>1. CASE UNCHANGED vars
  <2>1. /\ calls' = calls /\ timeline' = timeline /\ past' = past /\ made' = made
        /\ made \in Nat
    BY <1>1 DEF vars, Inv, Numbered
  <2>2. Record(past') /\ Ranked' /\ past'.written = {w \in past.written : w.member \in timeline'}
    BY <2>1 DEF Inv, Shaped, Record, Ranked, AsNew, Numbered
  <2> QED
    BY <2>1, <2>2, CutStep
<1>2. CASE Next
  BY <1>2, StepAddMany, StepReadPage, StepWrite, StepRemoveMany,
     StepRemoveManyAggregated, StepTrim DEF Next
<1> QED
  BY <1>1, <1>2

LEMMA InitInv == Init => Inv
<1> SUFFICES ASSUME Init PROVE Inv
  OBVIOUS
<1>1. timeline = {} /\ calls = {} /\ made = 0 /\ past.written = {} /\ Record(past)
  BY DEF Init, Record
<1> QED
  BY <1>1, FS_EmptySet DEF Inv, Shaped, Finite, Numbered, Ranked, Pending, TwiceOnlyIfExcused

\* A feed gets two members of one group only from calls that overlapped, from one
\* that did not read, or because the first was out of the sight of a merge: for any
\* number of writers, any limits, whatever is trimmed and removed meanwhile.
THEOREM DuplicatesAreExcused == Spec => []TwiceOnlyIfExcused
<1>1. Inv => TwiceOnlyIfExcused
  BY DEF Inv
<1> QED
  BY InitInv, StepInv, <1>1, PTL DEF Spec

-----------------------------------------------------------------------------
(* What leaves the feed *)

LEMMA StepKeepsGroups ==
  ASSUME Inv, [Next]_vars, NEW e \in timeline \ timeline'
  PROVE  e \in past'.removed \/ Cardinality(AsNew(e, timeline)) >= MaxLength
<1>0. Shaped /\ IsFiniteSet(timeline) /\ MaxLength \in Nat
  BY FeedAssumption DEF Inv, Finite
<1>1. CASE \E f \in timeline : RemoveManyAggregated(f)
  <2>1. PICK f \in timeline : RemoveManyAggregated(f)
    BY <1>1
  <2>2. f = e
    BY <2>1 DEF RemoveManyAggregated
  <2>3. past'.removed = Recorded(timeline \ {f}).removed \cup {f}
    BY <1>0, <2>1, RecordedFields DEF RemoveManyAggregated, Record
  <2> QED
    BY <2>2, <2>3
<1>2. CASE Trim
  <2>1. PICK T \in NewestOf(timeline, MaxLength) : timeline' = T
    BY <1>2 DEF Trim
  <2> QED
    BY <1>0, <2>1, LeftOut
<1>3. ASSUME NEW c \in calls, NEW members, Write(c, members) PROVE FALSE
  BY <1>3 DEF Write
<1>4. timeline' # timeline
  OBVIOUS
<1> QED
  BY <1>1, <1>2, <1>3, <1>4
     DEF Next, vars, AddMany, AddManyAggregated, StartCall, ReadPage, RemoveMany

\* No step takes a group from the feed unless the application removes it or
\* MaxLength others are at least as new.
THEOREM GroupsAreKept == Spec => GroupsKept
<1>1. Inv /\ [Next]_vars =>
        [\A e \in timeline \ timeline' :
           e \in past'.removed \/ Cardinality(AsNew(e, timeline)) >= MaxLength]_vars
  BY StepKeepsGroups
<1> QED
  BY InitInv, StepInv, <1>1, PTL DEF Spec, GroupsKept
-----------------------------------------------------------------------------
(* What the fold over the activities of a group makes of them *)

\* One step of the fold, with g for what it is of the smaller sets; and the function
\* the fold is defined by.
Body(g, S) ==
  IF S = {} THEN NewAggregated ELSE AppendActivity(Highest(S), g[S \ {Highest(S)}])
Folding(g, S) == g = [T \in SUBSET S |-> Body(g, T)]

\* Of finitely many activities one has the highest id.
LEMMA HighestOf ==
  ASSUME NEW S, IsFiniteSet(S), S \subseteq Activities, S # {}
  PROVE  Highest(S) \in S /\ \A b \in S : SerialOf[b] <= SerialOf[Highest(S)]
<1> DEFINE P == {T \in SUBSET S : T # {} => \E a \in T : \A b \in T : SerialOf[b] <= SerialOf[a]}
<1>1. \A a \in S : SerialOf[a] \in Nat
  BY FeedAssumption
<1>2. ASSUME NEW T \in SUBSET S, \A x \in T : T \ {x} \in P PROVE T \in P
  <2>1. SUFFICES ASSUME NEW x \in T PROVE \E a \in T : \A b \in T : SerialOf[b] <= SerialOf[a]
    OBVIOUS
  <2>2. CASE T \ {x} = {}
    BY <1>1, <2>2
  <2>3. CASE T \ {x} # {}
    <3>1. PICK a \in T \ {x} : \A b \in T \ {x} : SerialOf[b] <= SerialOf[a]
      BY <1>2, <2>3
    <3>2. CASE SerialOf[x] <= SerialOf[a]
      BY <3>1, <3>2
    <3>3. CASE ~ (SerialOf[x] <= SerialOf[a])
      BY <1>1, <3>1, <3>3
    <3> QED
      BY <3>2, <3>3
  <2> QED
    BY <2>2, <2>3
<1> HIDE DEF P
<1>3. SUBSET S \subseteq P
  BY <1>2, SubsetInduction
<1>4. \E a \in S : \A b \in S : SerialOf[b] <= SerialOf[a]
  BY <1>3 DEF P
<1> QED
  BY <1>4 DEF Highest

\* The fold is defined: on the sets of up to n activities, for every n.
LEMMA FoldingExists ==
  ASSUME NEW S, IsFiniteSet(S), S \subseteq Activities
  PROVE  \E g : Folding(g, S)
<1> DEFINE small(n) == {T \in SUBSET S : Cardinality(T) <= n}
           P == {n \in Nat : \E g : g = [T \in small(n) |-> Body(g, T)]}
<1>1. \A T \in SUBSET S : IsFiniteSet(T) /\ Cardinality(T) \in Nat /\ (Cardinality(T) = 0 => T = {})
  BY FS_Subset, FS_CardinalityType, FS_EmptySet
<1>2. ASSUME NEW n \in Nat, \A m \in 0 .. n - 1 : m \in P PROVE n \in P
  <2>1. CASE n = 0
    <3> DEFINE g == [T \in small(0) |-> NewAggregated]
    <3>1. \A T \in small(0) : T = {}
      BY <1>1
    <3>2. g = [T \in small(0) |-> Body(g, T)]
      BY <3>1 DEF Body
    <3> HIDE DEF g
    <3> QED
      BY <2>1, <3>2
  <2>2. CASE n # 0
    <3>1. n - 1 \in P
      <4> HIDE DEF P
      <4>1. n - 1 \in 0 .. n - 1
        BY <2>2
      <4> QED
        BY <1>2, <4>1
    <3>2. PICK h : h = [T \in small(n - 1) |-> Body(h, T)]
      BY <3>1
    <3> DEFINE g == [T \in small(n) |-> Body(h, T)]
    <3>3. ASSUME NEW T \in small(n) PROVE Body(g, T) = Body(h, T)
      <4>1. CASE T = {}
        BY <4>1 DEF Body
      <4>2. CASE T # {}
        <5> DEFINE U == T \ {Highest(T)}
        <5>1. U \in small(n - 1) /\ U \in small(n)
          <6>1. Highest(T) \in T /\ IsFiniteSet(T)
            BY <1>1, <4>2, HighestOf
          <6>2. Cardinality(U) = Cardinality(T) - 1
            BY <6>1, FS_RemoveElement
          <6> QED
            BY <1>1, <2>2, <6>2
        <5> HIDE DEF U
        <5>2. g[U] = Body(h, U) /\ h[U] = Body(h, U)
          <6> HIDE DEF small
          <6> QED
            BY <3>2, <5>1
        <5> QED
          BY <4>2, <5>2 DEF Body, U
      <4> QED
        BY <4>1, <4>2
    <3>4. g = [T \in small(n) |-> Body(g, T)]
      BY <3>3
    <3> HIDE DEF g
    <3> QED
      BY <3>4
  <2> QED
    BY <2>1, <2>2
<1>3. Cardinality(S) \in P
  <2> HIDE DEF P
  <2>1. Nat \subseteq P
    BY <1>2, NumberInduction
  <2> QED
    BY <1>1, <2>1
<1>4. small(Cardinality(S)) = SUBSET S
  BY FS_Subset
<1> QED
  BY <1>3, <1>4 DEF Folding

\* On a smaller set it is the same.
LEMMA FoldingUnique ==
  ASSUME NEW S, IsFiniteSet(S), S \subseteq Activities, NEW T \in SUBSET S,
         NEW g, NEW h, Folding(g, S), Folding(h, T)
  PROVE  g[T] = h[T]
<1> DEFINE P == {U \in SUBSET T : g[U] = h[U]}
<1>1. IsFiniteSet(T)
  BY FS_Subset
<1>2. ASSUME NEW U \in SUBSET T, \A x \in U : U \ {x} \in P PROVE U \in P
  <2>1. g[U] = Body(g, U) /\ h[U] = Body(h, U)
    BY DEF Folding
  <2>2. U # {} => Highest(U) \in U
    BY <1>1, FS_Subset, HighestOf
  <2> QED
    BY <1>2, <2>1, <2>2 DEF Body
<1> HIDE DEF P
<1>3. SUBSET T \subseteq P
  BY <1>1, <1>2, SubsetInduction
<1> QED
  BY <1>3 DEF P

\* The group of a set of activities: the highest is appended to that of the others.
LEMMA AggregatedStep ==
  ASSUME NEW S, IsFiniteSet(S), S \subseteq Activities
  PROVE  Aggregated(S) =
           IF S = {} THEN NewAggregated
           ELSE AppendActivity(Highest(S), Aggregated(S \ {Highest(S)}))
<1> DEFINE fold(T) == CHOOSE g : Folding(g, T)
           rest == S \ {Highest(S)}
<1>1. \A T \in SUBSET S : Aggregated(T) = fold(T)[T]
  BY DEF Aggregated, MapThenFoldSet, Folding, Body
<1>2. \A T \in SUBSET S : Folding(fold(T), T)
  BY FS_Subset, FoldingExists
<1> HIDE DEF fold
<1>3. Aggregated(S) = Body(fold(S), S)
  BY <1>1, <1>2 DEF Folding
<1>4. fold(S)[rest] = fold(rest)[rest]
  BY <1>2, FoldingUnique
<1> QED
  BY <1>1, <1>3, <1>4 DEF Body

\* What a group says of the activities it was made of.
Describes(agg, S) ==
  /\ agg \in [activities : Seq(Activities), created : Nat, updated : Nat, minimized : Nat]
  /\ Len(agg.activities) = IF Cardinality(S) < MaxAggregated THEN Cardinality(S) ELSE MaxAggregated
  /\ Ids(agg) \subseteq S
  /\ \A i, j \in DOMAIN agg.activities : agg.activities[i] = agg.activities[j] => i = j
  /\ agg.minimized = Cardinality(S \ Ids(agg))
  /\ S # {} => agg.created = TimeOf[agg.activities[1]]
  /\ agg.created <= agg.updated
  /\ S = {} => agg.created = 0 /\ agg.updated = 0
  /\ S # {} => agg.created # 0 /\ agg.updated \in {TimeOf[a] : a \in S}
  /\ \A a \in S : TimeOf[a] <= agg.updated

LEMMA AppendDescribes ==
  ASSUME NEW S, IsFiniteSet(S), S \subseteq Activities, NEW x \in S,
         NEW agg, Describes(agg, S \ {x})
  PROVE  Describes(AppendActivity(x, agg), S)
<1> DEFINE T == S \ {x}
           new == AppendActivity(x, agg)
           full == Len(agg.activities) = MaxAggregated
<1>1. /\ IsFiniteSet(T) /\ Cardinality(T) \in Nat /\ Cardinality(S) = Cardinality(T) + 1
      /\ MaxAggregated \in Nat \ {0} /\ TimeOf[x] \in Nat \ {0}
  <2>1. IsFiniteSet(T) /\ Cardinality(T) = Cardinality(S) - 1
    BY FS_RemoveElement
  <2>2. Cardinality(T) \in Nat /\ Cardinality(S) \in Nat
    BY <2>1, FS_CardinalityType
  <2> HIDE DEF T
  <2> QED
    BY <2>1, <2>2, FeedAssumption
<1>2. x \notin T /\ S = T \cup {x}
  OBVIOUS
<1>3. /\ agg \in [activities : Seq(Activities), created : Nat, updated : Nat, minimized : Nat]
      /\ full <=> Cardinality(T) >= MaxAggregated
  BY <1>1 DEF Describes
<1>4. /\ new.activities = IF full THEN agg.activities ELSE Append(agg.activities, x)
      /\ new.created = IF agg.created = 0 THEN TimeOf[x] ELSE agg.created
      /\ new.updated = IF agg.updated < TimeOf[x] THEN TimeOf[x] ELSE agg.updated
      /\ new.minimized = IF full THEN agg.minimized + 1 ELSE agg.minimized
      /\ new \in [activities : Seq(Activities), created : Nat, updated : Nat, minimized : Nat]
  BY <1>1, <1>3 DEF AppendActivity, Later
<1> HIDE DEF T, new, full
<1>6. Len(agg.activities) = IF full THEN MaxAggregated ELSE Cardinality(T)
  BY <1>1, <1>3 DEF Describes, T, full
<1>7. Len(new.activities) = IF Cardinality(S) < MaxAggregated THEN Cardinality(S) ELSE MaxAggregated
  BY <1>1, <1>3, <1>4, <1>6
<1>5. Ids(agg) \subseteq T
  BY DEF Describes, T
<1>8. ~ full => /\ DOMAIN new.activities = DOMAIN agg.activities \cup {Len(agg.activities) + 1}
                /\ new.activities[Len(agg.activities) + 1] = x
                /\ \A i \in DOMAIN agg.activities : new.activities[i] = agg.activities[i]
  BY <1>3, <1>4
<1>9. Ids(new) = IF full THEN Ids(agg) ELSE Ids(agg) \cup {x}
  BY <1>4, <1>8 DEF Ids
<1>10. new.minimized = Cardinality(S \ Ids(new))
  <2>1. agg.minimized = Cardinality(T \ Ids(agg)) /\ IsFiniteSet(T \ Ids(agg))
    BY <1>1, FS_Subset DEF Describes, T
  <2>2. CASE full
    <3>1. S \ Ids(new) = (T \ Ids(agg)) \cup {x} /\ x \notin T \ Ids(agg)
      BY <1>2, <1>5, <1>9, <2>2
    <3> QED
      BY <1>4, <2>1, <2>2, <3>1, FS_AddElement
  <2>3. CASE ~ full
    <3>1. S \ Ids(new) = T \ Ids(agg)
      BY <1>2, <1>9, <2>3
    <3> QED
      BY <1>4, <2>1, <2>3, <3>1
  <2> QED
    BY <2>2, <2>3
<1>11. ASSUME NEW i \in DOMAIN new.activities, NEW j \in DOMAIN new.activities,
              new.activities[i] = new.activities[j]
       PROVE  i = j
  <2>1. \A k, l \in DOMAIN agg.activities : agg.activities[k] = agg.activities[l] => k = l
    BY DEF Describes
  <2>2. \A k \in DOMAIN agg.activities : agg.activities[k] # x
    BY <1>2, <1>5 DEF Ids
  <2>3. CASE full
    BY <1>4, <1>11, <2>1, <2>3
  <2>4. CASE ~ full
    BY <1>8, <1>11, <2>1, <2>2, <2>4
  <2> QED
    BY <2>3, <2>4
<1>12. /\ T = {} => agg.created = 0 /\ agg.updated = 0
       /\ T # {} => agg.created # 0 /\ agg.updated \in {TimeOf[a] : a \in T}
       /\ \A a \in T : TimeOf[a] <= agg.updated
       /\ agg.created <= agg.updated
       /\ S = T \cup {x}
       /\ \A a \in S : TimeOf[a] \in Nat
  BY FeedAssumption DEF Describes, T
<1>13. /\ new.created <= new.updated /\ new.created # 0
       /\ \A a \in S : TimeOf[a] <= new.updated
  BY <1>1, <1>3, <1>4, <1>12
<1>14. new.updated \in {TimeOf[a] : a \in S}
  <2>1. CASE T = {}
    BY <1>1, <1>4, <1>12, <2>1
  <2>2. CASE T # {}
    BY <1>4, <1>12, <2>2
  <2> QED
    BY <2>1, <2>2
<1>15. new.created = TimeOf[new.activities[1]]
  <2>1. CASE T = {}
    <3>1. Len(agg.activities) = 0
      BY <1>1, <1>3, <1>6, <2>1, FS_EmptySet
    <3> QED
      BY <1>1, <1>3, <1>4, <1>6, <1>8, <1>12, <2>1, <3>1
  <2>2. CASE T # {}
    <3>1. agg.created = TimeOf[agg.activities[1]] /\ agg.created # 0
      BY <2>2 DEF Describes, T
    <3>2. 1 \in DOMAIN agg.activities
      <4>1. Cardinality(T) # 0
        BY <1>1, <2>2, FS_EmptySet
      <4> QED
        BY <1>1, <1>3, <1>6, <4>1
    <3>3. new.activities[1] = agg.activities[1]
      BY <1>4, <1>8, <3>2
    <3> QED
      BY <1>4, <3>1, <3>3
  <2> QED
    BY <2>1, <2>2
<1> QED
  <2>1. Ids(new) \subseteq S
    BY <1>2, <1>5, <1>9
  <2> QED
    BY <1>2, <1>4, <1>7, <1>10, <1>11, <1>13, <1>14, <1>15, <2>1 DEF Describes, new

\* What append makes of the activities of a group one by one is what a reader of the
\* group expects of all of them.
LEMMA AggregatedDescribes ==
  ASSUME NEW S, IsFiniteSet(S), S \subseteq Activities
  PROVE  Describes(Aggregated(S), S)
<1> DEFINE P == {T \in SUBSET S : Describes(Aggregated(T), T)}
<1>1. ASSUME NEW T \in SUBSET S, \A x \in T : T \ {x} \in P PROVE T \in P
  <2>1. IsFiniteSet(T) /\ T \subseteq Activities
    BY FS_Subset
  <2>2. CASE T = {}
    <3>1. Aggregated(T) = NewAggregated
      BY <2>1, <2>2, AggregatedStep
    <3>2. Cardinality(T) = 0 /\ T \ Ids(NewAggregated) = {} /\ Ids(NewAggregated) = {}
      BY <2>2, FS_EmptySet DEF NewAggregated, Ids
    <3>3. MaxAggregated \in Nat \ {0}
      BY FeedAssumption
    <3>4. Describes(NewAggregated, T)
      <4>1. NewAggregated.activities \in Seq(Activities) /\ Len(NewAggregated.activities) = 0
            /\ DOMAIN NewAggregated.activities = {}
        BY DEF NewAggregated
      <4> QED
        BY <2>2, <3>2, <3>3, <4>1 DEF Describes, NewAggregated
    <3> QED
      BY <3>1, <3>4
  <2>3. CASE T # {}
    <3>1. Highest(T) \in T
      BY <2>1, <2>3, HighestOf
    <3>2. Describes(Aggregated(T \ {Highest(T)}), T \ {Highest(T)})
      BY <1>1, <3>1
    <3>3. Aggregated(T) = AppendActivity(Highest(T), Aggregated(T \ {Highest(T)}))
      BY <2>1, <2>3, AggregatedStep
    <3>4. Describes(AppendActivity(Highest(T), Aggregated(T \ {Highest(T)})), T)
      BY <2>1, <3>1, <3>2, AppendDescribes
    <3> QED
      BY <3>3, <3>4
  <2> QED
    BY <2>2, <2>3
<1> HIDE DEF P
<1>2. SUBSET S \subseteq P
  BY <1>1, SubsetInduction
<1> QED
  BY <1>2 DEF P
-----------------------------------------------------------------------------
(* What the feed holds was made of a batch *)

\* The groups in the feed and those about to be written are what an aggregator has made
\* of a batch of the application.
Made ==
  /\ \A c \in calls : c.batch \in Batches /\ c.left \subseteq GroupActivities(c.batch)
  /\ \A c \in calls : c.left = {} <=> c.at = "read"
  /\ \A w \in past.written : w.batch \in Batches /\ w.member \in GroupActivities(w.batch)
  /\ \A e \in timeline : \E B \in Batches : e \in GroupActivities(B)
  /\ trims \in Nat

\* Activity a of batch B is in a member of T or counted by one, or its group has been
\* dropped for another with the same time.
Found(a, B, T) ==
  \/ \E e \in T : e.group = GroupOf[a] /\ (a \in Ids(e) \/ e.minimized > 0)
  \/ \E b \in B : /\ GroupOf[b] # GroupOf[a]
                  /\ NewestTime(InGroup(B, GroupOf[b])) = NewestTime(InGroup(B, GroupOf[a]))

\* What a call has still to write is all that the feed misses of its batch.
Coming ==
  \A c \in calls : c.at = "write" =>
    \A a \in c.batch : Found(a, c.batch, timeline \cup past.gone \cup c.left)

Done == \A B \in past.done : \A a \in B : Found(a, B, timeline \cup past.gone)

MadeInv == Inv /\ Made /\ Coming /\ Done

\* A member says of its group what Describes says of the fold.
LEMMA MemberDescribes ==
  ASSUME NEW B \in Batches, NEW e \in GroupActivities(B)
  PROVE  /\ e.group \in {GroupOf[a] : a \in B}
         /\ IsFiniteSet(InGroup(B, e.group)) /\ InGroup(B, e.group) # {}
         /\ InGroup(B, e.group) \subseteq Activities
         /\ Describes([activities |-> e.activities, created |-> e.created,
                       updated |-> e.updated, minimized |-> e.minimized], InGroup(B, e.group))
<1>1. PICK a \in B : e = Member(GroupOf[a], Aggregated(InGroup(B, GroupOf[a])))
  BY DEF GroupActivities
<1> DEFINE g == GroupOf[a]
           agg == Aggregated(InGroup(B, g))
<1>2. /\ e.group = g /\ e.activities = agg.activities /\ e.created = agg.created
      /\ e.updated = agg.updated /\ e.minimized = agg.minimized
  BY <1>1 DEF Member
<1>3. InGroup(B, g) \subseteq Activities /\ a \in InGroup(B, g) /\ IsFiniteSet(InGroup(B, g))
  BY FeedAssumption, FS_Subset DEF InGroup
<1>4. Describes(agg, InGroup(B, g))
  BY <1>3, AggregatedDescribes
<1> HIDE DEF g, agg
<1>5. agg = [activities |-> agg.activities, created |-> agg.created,
             updated |-> agg.updated, minimized |-> agg.minimized]
  BY <1>4 DEF Describes
<1>6. g \in {GroupOf[b] : b \in B}
  BY DEF g
<1> QED
  BY <1>2, <1>3, <1>4, <1>5, <1>6

\* The newest time of a group is its own, whichever order it was made in.
LEMMA UpdatedIsNewest ==
  ASSUME NEW B \in Batches, NEW e \in GroupActivities(B)
  PROVE  NewestTime(InGroup(B, e.group)) = {e.updated}
<1> DEFINE own == InGroup(B, e.group)
<1>1. e.updated \in {TimeOf[a] : a \in own} /\ \A a \in own : TimeOf[a] <= e.updated
  BY MemberDescribes DEF Describes
<1>2. \A a \in own : TimeOf[a] \in Nat
  BY MemberDescribes, FeedAssumption
<1> HIDE DEF own
<1>3. ASSUME NEW t \in {TimeOf[a] : a \in own}, \A a \in own : TimeOf[a] <= t PROVE t = e.updated
  BY <1>1, <1>2, <1>3
<1>4. NewestTime(own) = {e.updated}
  BY <1>1, <1>3 DEF NewestTime
<1> QED
  BY <1>4 DEF own

\* serializeActivities leaves something of a batch, and drops a group only for another
\* of the same time.
LEMMA SerializedFinds ==
  ASSUME NEW B \in Batches, NEW W \in Serialized(GroupActivities(B))
  PROVE  W # {} /\ W \subseteq GroupActivities(B) /\ \A a \in B : Found(a, B, W)
<1>1. B # {}
  BY FeedAssumption
<1>2. W \subseteq GroupActivities(B)
  BY DEF Serialized
<1>3. ASSUME NEW a \in B PROVE W # {} /\ Found(a, B, W)
  <2> DEFINE e == Member(GroupOf[a], Aggregated(InGroup(B, GroupOf[a])))
  <2>1. e \in GroupActivities(B) /\ e.group = GroupOf[a]
    BY DEF GroupActivities, Member
  <2> HIDE DEF e
  <2>2. PICK f \in W : f.updated = e.updated
    BY <2>1 DEF Serialized
  <2>3. f \in GroupActivities(B)
    BY <1>2
  <2>4. CASE f.group = GroupOf[a]
    <3> DEFINE own == InGroup(B, f.group)
    <3>1. a \in own
      BY <2>4 DEF InGroup
    <3>2. IsFiniteSet(own) /\ f.minimized = Cardinality(own \ Ids(f))
      <4> DEFINE agg == [activities |-> f.activities, created |-> f.created,
                         updated |-> f.updated, minimized |-> f.minimized]
      <4>1. IsFiniteSet(own) /\ Describes(agg, own)
        BY <2>3, MemberDescribes
      <4>2. agg.minimized = f.minimized /\ Ids(agg) = Ids(f)
        BY DEF Ids
      <4> HIDE DEF agg, own
      <4> QED
        BY <4>1, <4>2 DEF Describes
    <3> HIDE DEF own
    <3>3. a \in Ids(f) \/ f.minimized > 0
      <4>1. IsFiniteSet(own \ Ids(f))
        BY <3>2, FS_Subset
      <4>2. /\ Cardinality(own \ Ids(f)) \in Nat
            /\ Cardinality(own \ Ids(f)) = 0 => own \ Ids(f) = {}
        BY <4>1, FS_CardinalityType, FS_EmptySet
      <4> QED
        BY <3>1, <3>2, <4>2
    <3> QED
      BY <2>4, <3>2, <3>3 DEF Found
  <2>5. CASE f.group # GroupOf[a]
    <3>1. PICK b \in B : f.group = GroupOf[b]
      BY <2>3, MemberDescribes
    <3>2. NewestTime(InGroup(B, GroupOf[b])) = NewestTime(InGroup(B, GroupOf[a]))
      BY <2>1, <2>2, <2>3, <3>1, UpdatedIsNewest
    <3> QED
      BY <2>5, <3>1, <3>2 DEF Found
  <2> QED
    BY <2>4, <2>5
<1> QED
  BY <1>1, <1>2, <1>3

LEMMA FoundInMore ==
  ASSUME NEW a, NEW B, NEW T, NEW U, T \subseteq U, Found(a, B, T)
  PROVE  Found(a, B, U)
  BY DEF Found

\* What leaves the feed is remembered.
LEMMA RecordedLeaving ==
  ASSUME Shaped, NEW T
  PROVE  /\ Recorded(T).written = {w \in past.written : w.member \in T}
         /\ Recorded(T).gone = past.gone \cup (timeline \ T)
         /\ Recorded(T).done = past.done
         /\ Record(Recorded(T))
  BY DEF Shaped, Recorded, Record

LEMMA MadeByStart ==
  ASSUME MadeInv, NEW how, NEW B \in Batches, NEW at, NEW left, StartCall(how, B, at, left),
         left \subseteq GroupActivities(B), left = {} <=> at = "read",
         at = "write" => \A a \in B : Found(a, B, left)
  PROVE  Made' /\ Coming' /\ Done'
<1> DEFINE new == [id |-> made, how |-> how, batch |-> B, at |-> at, left |-> left]
<1>1. /\ timeline' = timeline /\ calls' = calls \cup {new} /\ trims' = trims
      /\ past'.written = past.written /\ past'.gone = past.gone /\ past'.done = past.done
  BY DEF StartCall, MadeInv, Inv, Shaped, Record
<1>2. new.batch = B /\ new.at = at /\ new.left = left
  OBVIOUS
<1> HIDE DEF new
<1>3. Made'
  BY <1>1, <1>2 DEF MadeInv, Made
<1>4. ASSUME at = "write", NEW a \in B
      PROVE  Found(a, B, timeline \cup past.gone \cup left)
  BY <1>4, FoundInMore
<1>5. Coming'
  BY <1>1, <1>2, <1>4 DEF MadeInv, Coming
<1> QED
  BY <1>1, <1>3, <1>5 DEF MadeInv, Done

\* A step that starts no call and writes nothing: what leaves the feed is remembered.
LEMMA MadeKept ==
  ASSUME MadeInv, calls' = calls, timeline' \subseteq timeline, trims' \in Nat,
         past'.written \subseteq past.written, past'.done = past.done,
         past'.gone = past.gone \cup (timeline \ timeline')
  PROVE  Made' /\ Coming' /\ Done'
<1>1. Made'
  BY DEF MadeInv, Made
<1>2. timeline' \cup past'.gone = timeline \cup past.gone
  OBVIOUS
<1>3. Coming' /\ Done'
  BY <1>2 DEF MadeInv, Coming, Done
<1> QED
  BY <1>1, <1>3

LEMMA MadeByReadPage ==
  ASSUME MadeInv, NEW c \in calls, NEW page \in NewestOf(timeline, MergeMaxLength),
         ReadPage(c, page)
  PROVE  Made' /\ Coming' /\ Done'
<1>1. PICK W \in Serialized(Merge(c.batch, page)) :
        calls' = IF W = {} THEN calls \ {c}
                 ELSE (calls \ {c}) \cup {[c EXCEPT !.at = "write", !.left = W]}
  BY DEF ReadPage
<1>2. timeline' = timeline /\ past' = past /\ trims' = trims
  BY DEF ReadPage
<1>3. c \in CallOf(c.left) /\ c.batch \in Batches
  BY DEF MadeInv, Inv, Shaped, Made
<1>4. CASE W = {}
  BY <1>1, <1>2, <1>4 DEF MadeInv, Made, Coming, Done
<1>5. CASE W # {}
  <2> DEFINE d == [c EXCEPT !.at = "write", !.left = W]
  <2>1. d.batch = c.batch /\ d.at = "write" /\ d.left = W
    BY <1>3 DEF CallOf
  <2>2. W \in Serialized(GroupActivities(c.batch))
    BY <1>5 DEF Merge, Serialized
  <2>3. W \subseteq GroupActivities(c.batch) /\ \A a \in c.batch : Found(a, c.batch, W)
    BY <1>3, <2>2, SerializedFinds
  <2>4. calls' = (calls \ {c}) \cup {d}
    BY <1>1, <1>5
  <2> HIDE DEF d
  <2>5. Made'
    BY <1>2, <1>3, <1>5, <2>1, <2>3, <2>4 DEF MadeInv, Made
  <2>6. \A a \in c.batch : Found(a, c.batch, timeline \cup past.gone \cup W)
    BY <2>3, FoundInMore
  <2>7. Coming'
    BY <1>2, <2>1, <2>4, <2>6 DEF MadeInv, Coming
  <2> QED
    BY <1>2, <2>5, <2>7 DEF MadeInv, Done
<1> QED
  BY <1>4, <1>5

LEMMA MadeByWrite ==
  ASSUME MadeInv, NEW c \in calls, NEW members \in SUBSET c.left, Write(c, members)
  PROVE  Made' /\ Coming' /\ Done'
<1> DEFINE T == timeline \cup members
           new == {[member |-> e, by |-> c.id, batch |-> c.batch] : e \in members}
           d == [c EXCEPT !.left = @ \ members]
<1>0. Shaped /\ c \in CallOf(c.left) /\ c.at = "write" /\ c.batch \in Batches
      /\ c.left \subseteq GroupActivities(c.batch)
  BY DEF MadeInv, Inv, Shaped, Write, Made
<1>1. timeline' = T
  BY DEF Write
<1>2. /\ past'.written = {w \in past.written : w.member \in T} \cup new
      /\ past'.gone = past.gone \cup (timeline \ T)
      /\ past'.done = IF members = c.left THEN past.done \cup {c.batch} ELSE past.done
  <2>1. past' = [Recorded(T) EXCEPT
                   !.written = @ \cup new,
                   !.done = IF members = c.left THEN @ \cup {c.batch} ELSE @]
    BY DEF Write
  <2> DEFINE p == Recorded(T)
             done == IF members = c.left THEN p.done \cup {c.batch} ELSE p.done
  <2>2. past' = [p EXCEPT !.written = p.written \cup new, !.done = done] /\ Record(p)
    BY <1>0, <2>1, RecordedLeaving
  <2>3. p.written = {w \in past.written : w.member \in T} /\ p.done = past.done
        /\ p.gone = past.gone \cup (timeline \ T)
    BY <1>0, RecordedLeaving
  <2>4. done = IF members = c.left THEN past.done \cup {c.batch} ELSE past.done
    BY <2>3
  <2> HIDE DEF T, new, p, done
  <2>5. past'.written = p.written \cup new /\ past'.done = done /\ past'.gone = p.gone
    BY <2>2 DEF Record
  <2> QED
    BY <2>3, <2>4, <2>5
<1>3. \/ members # c.left /\ calls' = (calls \ {c}) \cup {d}
      \/ members = c.left /\ calls' = calls \ {c}
  BY DEF Write
<1>4. d.batch = c.batch /\ d.at = c.at /\ d.left = c.left \ members
  BY <1>0 DEF CallOf
<1>5. \A w \in new : w.batch = c.batch /\ w.member \in members
  OBVIOUS
<1>6. trims' \in Nat
  BY DEF Write, StartTrim, MadeInv, Made
<1>7. timeline \cup past.gone \subseteq timeline' \cup past'.gone
  BY <1>1, <1>2
<1>8. timeline' = timeline \cup members
  BY <1>1
<1> HIDE DEF d, new, T
<1>9. Made'
  <2>1. \A b \in calls' : b \in calls \ {c} \/ (b = d /\ d.left # {})
    BY <1>3, <1>4
  <2>2. /\ \A b \in calls' : b.batch \in Batches /\ b.left \subseteq GroupActivities(b.batch)
        /\ \A b \in calls' : b.left = {} <=> b.at = "read"
    BY <1>0, <1>4, <2>1 DEF MadeInv, Made
  <2>3. \A w \in past'.written : w.batch \in Batches /\ w.member \in GroupActivities(w.batch)
    BY <1>0, <1>2, <1>5 DEF MadeInv, Made
  <2>4. \A e \in timeline' : \E B \in Batches : e \in GroupActivities(B)
    BY <1>0, <1>8 DEF MadeInv, Made
  <2> QED
    BY <1>6, <2>2, <2>3, <2>4 DEF Made
\* What the call has found, and what is left, is what it had.
<1>10. ASSUME NEW a \in c.batch
       PROVE  Found(a, c.batch, timeline' \cup past'.gone \cup (c.left \ members))
  <2>1. Found(a, c.batch, timeline \cup past.gone \cup c.left)
    BY <1>0 DEF MadeInv, Coming
  <2>2. timeline \cup past.gone \cup c.left
          \subseteq timeline' \cup past'.gone \cup (c.left \ members)
    BY <1>7, <1>8
  <2> QED
    BY <2>1, <2>2, FoundInMore
<1>11. Coming'
  <2>1. ASSUME NEW b \in calls, b.at = "write", NEW a \in b.batch
        PROVE  Found(a, b.batch, timeline' \cup past'.gone \cup b.left)
    <3>1. Found(a, b.batch, timeline \cup past.gone \cup b.left)
      BY <2>1 DEF MadeInv, Coming
    <3>2. timeline \cup past.gone \cup b.left \subseteq timeline' \cup past'.gone \cup b.left
      BY <1>7
    <3> QED
      BY <3>1, <3>2, FoundInMore
  <2> QED
    BY <1>3, <1>4, <1>10, <2>1 DEF Coming
<1>12. Done'
  <2>1. ASSUME NEW B \in past.done, NEW a \in B PROVE Found(a, B, timeline' \cup past'.gone)
    <3>1. Found(a, B, timeline \cup past.gone)
      BY DEF MadeInv, Done
    <3> QED
      BY <1>7, <3>1, FoundInMore
  <2>2. ASSUME members = c.left, NEW a \in c.batch
        PROVE  Found(a, c.batch, timeline' \cup past'.gone)
    <3>1. timeline' \cup past'.gone \cup (c.left \ members) = timeline' \cup past'.gone
      BY <2>2
    <3> QED
      BY <1>10, <3>1
  <2> QED
    BY <1>2, <2>1, <2>2 DEF Done
<1> QED
  BY <1>9, <1>11, <1>12

LEMMA StepMadeInv == ASSUME MadeInv, [Next]_vars PROVE MadeInv'
<1> SUFFICES Made' /\ Coming' /\ Done'
  BY StepInv DEF MadeInv
<1>0. Shaped /\ trims \in Nat /\ \A n \in Nat : n + 1 \in Nat /\ (n > 0 => n - 1 \in Nat)
  BY DEF MadeInv, Inv, Made
<1>1. ASSUME NEW B \in Batches, AddMany(B) PROVE Made' /\ Coming' /\ Done'
  BY <1>1, MadeByStart DEF AddMany
<1>2. ASSUME NEW B \in Batches, AddManyAggregated(B) PROVE Made' /\ Coming' /\ Done'
  <2>1. PICK W \in Serialized(GroupActivities(B)) : StartCall("blind", B, "write", W)
    BY <1>2 DEF AddManyAggregated
  <2>2. W # {} /\ W \subseteq GroupActivities(B) /\ \A a \in B : Found(a, B, W)
    BY SerializedFinds
  <2> QED
    BY <2>1, <2>2, MadeByStart
<1>3. CASE RemoveMany
  BY <1>0, <1>3, MadeKept DEF RemoveMany
<1>4. ASSUME NEW e \in timeline, RemoveManyAggregated(e) PROVE Made' /\ Coming' /\ Done'
  <2> DEFINE T == timeline \ {e}
  <2>1. /\ timeline' = T /\ calls' = calls /\ trims' = trims
        /\ past' = [Recorded(T) EXCEPT !.removed = @ \cup {e}]
    BY <1>4 DEF RemoveManyAggregated
  <2>2. timeline' \subseteq timeline
    BY <2>1
  <2> HIDE DEF T
  <2>3. /\ past'.written = {w \in past.written : w.member \in T}
        /\ past'.done = past.done /\ past'.gone = past.gone \cup (timeline \ T)
    BY <1>0, <2>1, RecordedLeaving DEF Record
  <2> QED
    BY <1>0, <2>1, <2>2, <2>3, MadeKept
<1>5. CASE Trim
  <2>1. PICK T \in NewestOf(timeline, MaxLength) : timeline' = T /\ past' = Recorded(T)
    BY <1>5 DEF Trim
  <2>2. calls' = calls /\ trims' \in Nat /\ timeline' \subseteq timeline
    BY <1>0, <1>5, <2>1 DEF Trim, NewestOf
  <2>3. /\ past'.written = {w \in past.written : w.member \in T}
        /\ past'.done = past.done /\ past'.gone = past.gone \cup (timeline \ T)
    BY <1>0, <2>1, RecordedLeaving
  <2> QED
    BY <2>1, <2>2, <2>3, MadeKept
<1>6. CASE UNCHANGED vars
  BY <1>0, <1>6, MadeKept DEF vars
<1> QED
  BY <1>1, <1>2, <1>3, <1>4, <1>5, <1>6, MadeByReadPage, MadeByWrite DEF Next

LEMMA InitMadeInv == Init => MadeInv
<1> SUFFICES ASSUME Init PROVE MadeInv
  OBVIOUS
<1>1. timeline = {} /\ calls = {} /\ trims = 0 /\ past.written = {} /\ past.done = {}
  BY DEF Init
<1> QED
  BY <1>1, InitInv DEF MadeInv, Made, Coming, Done

\* The groups that are in the feed, and the calls that are under way, are well formed.
THEOREM TypeCorrect == Spec => []TypeOK
<1>1. ASSUME MadeInv PROVE TypeOK
  <2>1. ASSUME NEW e \in timeline
        PROVE  /\ e.group \in {GroupOf[a] : a \in Activities}
               /\ e.activities \in Seq(Activities)
               /\ Len(e.activities) \in 1 .. MaxAggregated
               /\ e.created \in Nat \ {0} /\ e.updated \in Nat /\ e.created <= e.updated
               /\ e.minimized \in Nat
    <3>1. PICK B \in Batches : e \in GroupActivities(B)
      BY <1>1 DEF MadeInv, Made
    <3> DEFINE own == InGroup(B, e.group)
               agg == [activities |-> e.activities, created |-> e.created,
                       updated |-> e.updated, minimized |-> e.minimized]
    <3>2. /\ e.group \in {GroupOf[a] : a \in B} /\ B \subseteq Activities
          /\ IsFiniteSet(own) /\ own # {} /\ Describes(agg, own)
      BY <3>1, MemberDescribes, FeedAssumption
    <3>3. /\ agg.activities = e.activities /\ agg.created = e.created
          /\ agg.updated = e.updated /\ agg.minimized = e.minimized
      OBVIOUS
    <3>4. Cardinality(own) \in Nat /\ Cardinality(own) # 0 /\ MaxAggregated \in Nat \ {0}
      BY <3>2, FS_CardinalityType, FS_EmptySet, FeedAssumption
    <3> HIDE DEF own, agg
    <3> QED
      BY <3>2, <3>3, <3>4 DEF Describes
  <2>2. \A c \in calls : [id |-> c.id, how |-> c.how, batch |-> c.batch, at |-> c.at] \in Call
    BY <1>1 DEF MadeInv, Inv, Shaped, CallOf, Call
  <2> QED
    BY <1>1, <2>1, <2>2 DEF MadeInv, Made, Inv, Numbered, TypeOK
<1>2. MadeInv => TypeOK
  BY <1>1
<1> QED
  BY InitMadeInv, StepMadeInv, <1>2, PTL DEF Spec

\* What an addMany that has returned has added is shown or counted by a member of its
\* group, until a removal or a trim; or it lost to a group with the same last time.
THEOREM BatchesAreShown == Spec => []BatchShown
<1>1. MadeInv => BatchShown
  BY DEF MadeInv, Done, Found, BatchShown
<1> QED
  BY InitMadeInv, StepMadeInv, <1>1, PTL DEF Spec

\* A member accounts for every activity its batch has of its group, shown or counted,
\* none twice, and dates them, however many there are and whatever the limit.
THEOREM CountsAreRight == Spec => []CountsRight
<1>1. ASSUME MadeInv, NEW w \in past.written
      PROVE  LET own == InGroup(w.batch, w.member.group)
                 shown == w.member.activities
             IN /\ Ids(w.member) \subseteq own
                /\ \A i, j \in DOMAIN shown : shown[i] = shown[j] => i = j
                /\ Len(shown) = IF Cardinality(own) < MaxAggregated
                                THEN Cardinality(own) ELSE MaxAggregated
                /\ w.member.minimized = Cardinality(own \ Ids(w.member))
                /\ {w.member.updated} = NewestTime(own)
                /\ w.member.created = TimeOf[shown[1]]
  <2> DEFINE e == w.member
             own == InGroup(w.batch, e.group)
             agg == [activities |-> e.activities, created |-> e.created,
                     updated |-> e.updated, minimized |-> e.minimized]
  <2>1. w.batch \in Batches /\ e \in GroupActivities(w.batch)
    BY <1>1 DEF MadeInv, Made
  <2>2. Describes(agg, own) /\ own # {} /\ NewestTime(own) = {e.updated}
    BY <2>1, MemberDescribes, UpdatedIsNewest
  <2>3. /\ agg.activities = e.activities /\ agg.created = e.created
        /\ agg.minimized = e.minimized /\ Ids(agg) = Ids(e)
    BY DEF Ids
  <2> HIDE DEF agg, own
  <2> QED
    BY <2>2, <2>3 DEF Describes, own
<1>2. MadeInv => CountsRight
  BY <1>1 DEF CountsRight
<1> QED
  BY InitMadeInv, StepMadeInv, <1>2, PTL DEF Spec
=============================================================================
