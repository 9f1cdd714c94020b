--------------------------- MODULE AggregatedFeed ---------------------------
(***************************************************************************)
(* One aggregated feed over Redis: a sorted set whose members are groups   *)
(* of activities.                                                          *)
(*                                                                         *)
(* addMany reads the newest groups, merges the new activities into them    *)
(* and writes the result, each an awaited request: the calls of several    *)
(* processes interleave between the read and the write.  What the merge    *)
(* makes of a group that is on the page it has read is an object that      *)
(* cannot append (a copy by way of JSON), so the call fails there and has  *)
(* written nothing; a group never changes once it is in the set.           *)
(*                                                                         *)
(* The activities are in the activity storage before they are added, and   *)
(* stay there.  A call that dies with its process is one that takes no     *)
(* further step.                                                           *)
(*                                                                         *)
(* A definition marked "slip" is the one after it with a plausible mistake *)
(* in it.  No action uses it; it shows that a property can fail.           *)
(***************************************************************************)
EXTENDS Naturals, Sequences, FiniteSets, Folds

CONSTANTS
  Activities,      \* the activities
  GroupOf,         \* what getGroup of the aggregator says: verb and day
  TimeOf,          \* time of an activity in milliseconds; several may share one
  SerialOf,        \* the order of the serializationIds
  Batches,         \* what the application adds and removes in one call
  MaxAggregated,   \* maxAggregatedActivitiesLength: activities kept in a group
  MergeMaxLength,  \* how many groups a merge looks at
  MaxLength,       \* maxLength: to how many groups the feed is trimmed
  ZAddSize,        \* how many members one zAdd carries
  TrimDraws,       \* outcomes of Math.random() <= trimChance
  MaxCalls         \* bound: calls made

ASSUME FeedAssumption ==
  /\ IsFiniteSet(Activities)
  /\ TimeOf \in [Activities -> Nat \ {0}]
  /\ SerialOf \in [Activities -> Nat]
  /\ \A a, b \in Activities : SerialOf[a] = SerialOf[b] => a = b
  /\ DOMAIN GroupOf = Activities
  /\ Batches \subseteq (SUBSET Activities) \ {{}}
  /\ {MaxAggregated, MergeMaxLength, MaxLength, ZAddSize} \subseteq Nat \ {0}
  /\ TrimDraws \subseteq BOOLEAN
  /\ MaxCalls \in Nat

VARIABLES
  timeline,  \* the sorted set: groups, by the time of their last activity
  calls,     \* calls under way
  trims,     \* how many trims are in flight: nobody awaits them
  made,      \* calls made so far; numbers them
  past       \* history, read by the properties only

vars == <<timeline, calls, trims, made, past>>

-----------------------------------------------------------------------------
(* Aggregated activities *)

\* A group before its first activity.
NewAggregated == [activities |-> <<>>, created |-> 0, updated |-> 0, minimized |-> 0]

Later(s, t) == IF s < t THEN t ELSE s

\* Slips: the group grows by one too many; nothing is updated for an activity that
\* finds the group full.
AppendBeyond(a, agg) ==
  LET full == Len(agg.activities) > MaxAggregated IN
  [activities |-> IF full THEN agg.activities ELSE Append(agg.activities, a),
   created    |-> IF agg.created = 0 THEN TimeOf[a] ELSE agg.created,
   updated    |-> Later(agg.updated, TimeOf[a]),
   minimized  |-> IF full THEN agg.minimized + 1 ELSE agg.minimized]
AppendUnlessFull(a, agg) ==
  IF Len(agg.activities) = MaxAggregated
  THEN [agg EXCEPT !.minimized = @ + 1]
  ELSE [agg EXCEPT !.activities = Append(@, a),
                   !.created = IF @ = 0 THEN TimeOf[a] ELSE @,
                   !.updated = Later(@, TimeOf[a])]

\* append.  Beyond the limit pop(0) takes off the last element, whatever its
\* argument: the activity just appended.
AppendActivity(a, agg) ==
  LET full == Len(agg.activities) = MaxAggregated IN
  [activities |-> IF full THEN agg.activities ELSE Append(agg.activities, a),
   created    |-> IF agg.created = 0 THEN TimeOf[a] ELSE agg.created,
   updated    |-> Later(agg.updated, TimeOf[a]),
   minimized  |-> IF full THEN agg.minimized + 1 ELSE agg.minimized]

Highest(S) == CHOOSE a \in S : \A b \in S : SerialOf[b] <= SerialOf[a]

InGroup(B, g) == {a \in B : GroupOf[a] = g}

\* The activities of one group, appended one by one in the order of their ids, the
\* lowest first: the comment in groupActivities says descending, its sort is not.
Aggregated(S) ==
  MapThenFoldSet(AppendActivity, NewAggregated, LAMBDA a : a, Highest, S)

\* A member of the sorted set: group;;dates;;ids;;minimized.
Member(g, agg) ==
  [group |-> g, activities |-> agg.activities, created |-> agg.created,
   updated |-> agg.updated, minimized |-> agg.minimized]

GroupActivities(B) ==
  {Member(g, Aggregated(InGroup(B, g))) : g \in {GroupOf[a] : a \in B}}

\* serializeActivities keys the members by serializationId, which for a group is
\* its updated_at: of the groups of one call with the same, the last one stays.
\* In which order the sort by rank leaves these is not defined.
Serialized(S) ==
  {W \in SUBSET S :
     /\ \A e \in S : \E f \in W : f.updated = e.updated
     /\ \A e, f \in W : e.updated = f.updated => e = f}

\* The groups of S at least as new as e.
AsNew(e, S) == {f \in S \ {e} : f.updated >= e.updated}

\* What zRemRangeByRank leaves and zRange returns: the n members with the highest
\* scores.  Redis orders equal scores by the text of the members: any order here.
\* Slip: the other end.
OldestOf(S, n) ==
  {P \in SUBSET S :
     /\ Cardinality(P) = IF Cardinality(S) <= n THEN Cardinality(S) ELSE n
     /\ \A e \in P, f \in S \ P : f.updated >= e.updated}
NewestOf(S, n) ==
  {P \in SUBSET S :
     /\ Cardinality(P) = IF Cardinality(S) <= n THEN Cardinality(S) ELSE n
     /\ \A e \in P, f \in S \ P : f.updated <= e.updated}

Ids(e) == {e.activities[i] : i \in DOMAIN e.activities}

\* ShardedHashCache.getMany looks up the ids of all groups of a page and pairs
\* them with what it has found under different ids: an id that occurs twice
\* leaves the last one without a value, loads fails, and getItem returns null.
Readable(page) == \A e, f \in page : e # f => Ids(e) \cap Ids(f) = {}

-----------------------------------------------------------------------------
(* State *)

Call ==
  [id : Nat, how : {"merge", "blind"}, batch : SUBSET Activities,
   at : {"read", "write"}]

\* written: the groups in the feed, with the call that wrote them and its batch;
\* overlaps: pairs of calls that were under way at the same time; blind: calls
\* that wrote without reading; outranked: groups that had MergeMaxLength others
\* at least as new beside them; gone: groups that have left the feed; removed:
\* those the application has removed; done: calls that have written their batch.
TypeOK ==
  /\ \A e \in timeline :
       /\ e.group \in {GroupOf[a] : a \in Activities}
       /\ e.activities \in Seq(Activities)
       /\ Len(e.activities) \in 1 .. MaxAggregated
       /\ e.created \in Nat \ {0} /\ e.updated \in Nat /\ e.created <= e.updated
       /\ e.minimized \in Nat
  /\ \A c \in calls : [id |-> c.id, how |-> c.how, batch |-> c.batch, at |-> c.at] \in Call
  /\ \A c \in calls : c.left = {} <=> c.at = "read"
  /\ trims \in Nat
  /\ made \in Nat

Init ==
  /\ timeline = {}
  /\ calls = {}
  /\ trims = 0
  /\ made = 0
  /\ past = [written |-> {}, overlaps |-> {}, blind |-> {}, outranked |-> {},
             gone |-> {}, removed |-> {}, done |-> {}]

-----------------------------------------------------------------------------
(* Operations *)

StartCall(how, B, at, left) ==
  /\ made < MaxCalls
  /\ made' = made + 1
  /\ calls' = calls \cup {[id |-> made, how |-> how, batch |-> B, at |-> at, left |-> left]}
  /\ past' = [past EXCEPT !.overlaps = @ \cup {{c.id, made} : c \in calls},
                          !.blind = IF how = "blind" THEN @ \cup {made} ELSE @]
  /\ UNCHANGED <<timeline, trims>>

\* addMany, to the request for the page.
AddMany(B) == StartCall("merge", B, "read", {})

\* addManyAggregated of the groups an aggregator has made of a batch.
AddManyAggregated(B) ==
  \E W \in Serialized(GroupActivities(B)) : StartCall("blind", B, "write", W)

\* Slip: a group that has been read is added again.
MergeAnyway(B, page) == GroupActivities(B)

\* merge, and what _updateFromDiff makes of it: the new groups.  For a group that
\* is on the page it throws, as it does without a page.
Merge(B, page) ==
  IF Readable(page) /\ \A e \in page : \A a \in B : GroupOf[a] # e.group
  THEN GroupActivities(B) ELSE {}

\* getItem(0, mergeMaxLength), and the merge.
ReadPage(c, page) ==
  /\ c.at = "read"
  /\ page \in NewestOf(timeline, MergeMaxLength)
  /\ \E W \in Serialized(Merge(c.batch, page)) :
       calls' = IF W = {} THEN calls \ {c}
                ELSE (calls \ {c}) \cup {[c EXCEPT !.at = "write", !.left = W]}
  /\ UNCHANGED <<timeline, trims, made, past>>

\* The history after a step that leaves the sorted set as T.
Recorded(T) ==
  [past EXCEPT !.written = {w \in @ : w.member \in T},
               !.outranked = @ \cup {e \in T : Cardinality(AsNew(e, T)) >= MergeMaxLength},
               !.gone = @ \cup (timeline \ T)]

StartTrim == \E trim \in TrimDraws : trims' = IF trim THEN trims + 1 ELSE trims

\* Slip: the call returns after its first zAdd.
WriteFirst(c, members) ==
  LET T == timeline \cup members IN
  /\ c.at = "write"
  /\ members \subseteq c.left
  /\ Cardinality(members) = IF Cardinality(c.left) <= ZAddSize
                            THEN Cardinality(c.left) ELSE ZAddSize
  /\ timeline' = T
  /\ past' = [Recorded(T) EXCEPT
                !.written = @ \cup {[member |-> e, by |-> c.id, batch |-> c.batch] : e \in members},
                !.done = @ \cup {c.batch}]
  /\ calls' = calls \ {c}
  /\ StartTrim
  /\ UNCHANGED made

\* One zAdd; after the last one addMany may trim.
Write(c, members) ==
  LET T == timeline \cup members IN
  /\ c.at = "write"
  /\ members \subseteq c.left
  /\ Cardinality(members) = IF Cardinality(c.left) <= ZAddSize
                            THEN Cardinality(c.left) ELSE ZAddSize
  /\ timeline' = T
  /\ past' = [Recorded(T) EXCEPT
                !.written = @ \cup {[member |-> e, by |-> c.id, batch |-> c.batch] : e \in members},
                !.done = IF members = c.left THEN @ \cup {c.batch} ELSE @]
  /\ IF members = c.left
     THEN calls' = calls \ {c} /\ IF c.how = "merge" THEN StartTrim ELSE UNCHANGED trims
     ELSE /\ calls' = (calls \ {c}) \cup {[c EXCEPT !.left = @ \ members]}
          /\ UNCHANGED trims
  /\ UNCHANGED made

\* removeMany: it starts a trim it does not await, reads the feed, and throws as
\* hydrateDict has no group of that name (its key is activities.group, and
\* activities is an array).  Nothing is removed.
RemoveMany ==
  /\ made < MaxCalls
  /\ made' = made + 1
  /\ trims' = trims + 1
  /\ UNCHANGED <<timeline, calls, past>>

\* removeManyAggregated of a group the application has read.
RemoveManyAggregated(e) ==
  LET T == timeline \ {e} IN
  /\ made < MaxCalls
  /\ made' = made + 1
  /\ timeline' = T
  /\ past' = [Recorded(T) EXCEPT !.removed = @ \cup {e}]
  /\ UNCHANGED <<calls, trims>>

Trim ==
  /\ trims > 0
  /\ trims' = trims - 1
  /\ \E T \in NewestOf(timeline, MaxLength) :
       timeline' = T /\ past' = Recorded(T)
  /\ UNCHANGED <<calls, made>>

Next ==
  \/ \E B \in Batches : AddMany(B) \/ AddManyAggregated(B)
  \/ \E c \in calls : \E page \in NewestOf(timeline, MergeMaxLength) : ReadPage(c, page)
  \/ \E c \in calls : \E members \in SUBSET c.left : Write(c, members)
  \/ RemoveMany
  \/ \E e \in timeline : RemoveManyAggregated(e)
  \/ Trim

Spec == Init /\ [][Next]_vars

-----------------------------------------------------------------------------
(* Properties *)

\* Two calls may both have added a group: they overlapped, or one of them has
\* added without reading.
Excused(c, d) == {c, d} \in past.overlaps \/ c \in past.blind \/ d \in past.blind

\* A feed holds two members of one group only if the calls that wrote them
\* overlapped, one of them did not read, or one of the members was pushed out of
\* the newest mergeMaxLength.  Everything on which later merges depend rests on
\* it: an activity in two members makes the page null, and addMany throws on it.
TwiceOnlyIfExcused ==
  \A v, w \in past.written :
    /\ v.member.group = w.member.group
    /\ v.member # w.member
    => \/ Excused(v.by, w.by)
       \/ {v.member, w.member} \cap past.outranked # {}

\* A step takes a group from the feed only because the application removes it, or
\* because MaxLength others are at least as new: a trim that was started long ago
\* cuts what is old when it arrives.
GroupsKept ==
  [][\A e \in timeline \ timeline' :
       e \in past'.removed \/ Cardinality(AsNew(e, timeline)) >= MaxLength]_vars

\* The time of the newest activity of a group.
NewestTime(S) == {TimeOf[a] : a \in S} \cap
                 {t \in {TimeOf[a] : a \in S} : \A a \in S : TimeOf[a] <= t}

\* What an addMany that has returned has added is, or was until a removal or a
\* trim, in a member of its group that shows it or has counted it; unless two
\* groups of the batch end in the same millisecond, of which one is dropped.
BatchShown ==
  \A B \in past.done : \A a \in B :
    \/ \E e \in timeline \cup past.gone :
         e.group = GroupOf[a] /\ (a \in Ids(e) \/ e.minimized > 0)
    \/ \E b \in B : /\ GroupOf[b] # GroupOf[a]
                    /\ NewestTime(InGroup(B, GroupOf[b])) = NewestTime(InGroup(B, GroupOf[a]))

\* A member accounts for every activity of its batch that is in its group: it shows
\* as many as fit, none of them twice, counts each of the others once, and carries
\* the time of the first one shown and the newest time of all, the ones left out
\* included.  Its serializationId is that newest time.
CountsRight ==
  \A w \in past.written :
    LET own == InGroup(w.batch, w.member.group)
        shown == w.member.activities
    IN /\ Ids(w.member) \subseteq own
       /\ \A i, j \in DOMAIN shown : shown[i] = shown[j] => i = j
       /\ Len(shown) = IF Cardinality(own) < MaxAggregated
                       THEN Cardinality(own) ELSE MaxAggregated
       /\ w.member.minimized = Cardinality(own \ Ids(w.member))
       /\ {w.member.updated} = NewestTime(own)
       /\ w.member.created = TimeOf[shown[1]]
=============================================================================
