------------------------- MODULE FeedDeliveryProofs -------------------------
(***************************************************************************)
(* FeedTasks implements FeedDelivery: its steps, seen through what was     *)
(* asked for, the store and the timelines only, are steps of FeedDelivery  *)
(* or leave all of it alone.                                               *)
(***************************************************************************)
EXTENDS FeedTasksProofs

\* FeedDelivery allows a removal of what was added and an unfollow of who was
\* followed; FeedTasks guards these by what is live and by the followers.
LiveArePosted == past.live \subseteq past.posted

LEMMA StepLiveArePosted ==
  ASSUME TypeOK, LiveArePosted, [Next]_vars PROVE LiveArePosted'
<1>0. past \in Past
  BY DEF TypeOK
<1> USE DEF LiveArePosted
<1>1. ASSUME NEW u \in Users, NEW a \in Activities, AddUserActivity(u, a)
      PROVE  LiveArePosted'
  BY <1>0, <1>1 DEF AddUserActivity, Past
<1>2. ASSUME NEW u \in Users, NEW a \in Activities, RemoveUserActivity(u, a)
      PROVE  LiveArePosted'
  BY <1>0, <1>2 DEF RemoveUserActivity, Past
<1>3. ASSUME NEW f \in Follows, FollowManyUsers(f[1], f[2]) PROVE LiveArePosted'
  BY <1>0, <1>3 DEF FollowManyUsers, Past
<1>4. ASSUME NEW f \in Follows, UnfollowManyUsers(f[1], f[2]) PROVE LiveArePosted'
  BY <1>0, <1>4 DEF UnfollowManyUsers, Past
<1>5. ASSUME past' = past PROVE LiveArePosted'
  BY <1>5
<1> QED
  BY <1>1, <1>2, <1>3, <1>4, <1>5, NextCases
     DEF InsertActivity, UpdateUserFeed, GetUserFollowerIds, FinishPosting,
         EnqueueFanout, EnqueueSubscription, StartFanout, StartFollow, StartUnfollow,
         CrashHost, FanoutTo, TrimTimeline, ReadTarget, FinishReading, CopyBatch,
         TrimBeforeUnfollow, ReadOwnFeed, RemoveOne, CrashCaller, vars

\* The reasons of FeedDelivery are those of FeedTasks.
LEMMA SameReasons ==
  /\ \A v \in Users : \A a \in store : Solicited(v, a) => Delivery!MayShow(v, a)
  /\ \A v \in Users : \A a : Withdrawn(v, a) => Delivery!MayHide(v, a)
  /\ \A v \in Users : \A a : Unfollowed(v, a) => Delivery!MayHide(v, a)
  /\ \A S : Newest(S, MaxLength) = Delivery!Newest(S)
<1>1. \A v \in Users : \A a \in store : Solicited(v, a) => Delivery!MayShow(v, a)
  BY DEF Solicited, Delivery!MayShow, About, Delivery!About
<1>2. \A v \in Users : \A a : Withdrawn(v, a) => Delivery!MayHide(v, a)
  BY DEF Withdrawn, Delivery!MayHide
<1>3. \A v \in Users : \A a : Unfollowed(v, a) => Delivery!MayHide(v, a)
  BY DEF Unfollowed, Delivery!MayHide, About, Delivery!About
<1>4. \A S : Newest(S, MaxLength) = Delivery!Newest(S)
  <2>1. \A S : Cardinality(S) = Delivery!Cardinality(S)
    BY DEF Cardinality, Delivery!Cardinality
  <2> QED
    BY <2>1 DEF Newest, Delivery!Newest
<1> QED
  BY <1>1, <1>2, <1>3, <1>4

LEMMA InitDelivers == Init => Delivery!Init
  BY DEF Init, Delivery!Init, Delivery!asked

-----------------------------------------------------------------------------
(* One lemma for each kind of step *)

AskedNothing == past' = past

LEMMA ShowStep ==
  ASSUME NEW v \in Users, NEW S \in SUBSET Activities, S \subseteq store,
         \A a \in S : Solicited(v, a),
         timeline' = [timeline EXCEPT ![v] = @ \cup S], store' = store, AskedNothing
  PROVE  Delivery!Next
<1>1. Delivery!Show(v, S)
  BY SameReasons DEF Delivery!Show, Delivery!asked, AskedNothing
<1> QED
  BY <1>1 DEF Delivery!Next

LEMMA HideStep ==
  ASSUME NEW v \in Users, NEW a \in Activities, Delivery!MayHide(v, a),
         timeline' = [timeline EXCEPT ![v] = @ \ {a}], store' = store, AskedNothing
  PROVE  Delivery!Next
<1>1. Delivery!Hide(v, a)
  BY DEF Delivery!Hide, Delivery!asked, AskedNothing
<1> QED
  BY <1>1 DEF Delivery!Next

LEMMA ShortenStep ==
  ASSUME NEW v \in Users, timeline' = [timeline EXCEPT ![v] = Newest(@, MaxLength)],
         store' = store, AskedNothing
  PROVE  Delivery!Next
<1>1. Delivery!Shorten(v)
  BY SameReasons DEF Delivery!Shorten, Delivery!asked, AskedNothing
<1> QED
  BY <1>1 DEF Delivery!Next

LEMMA AskStep ==
  ASSUME TypeOK, LiveArePosted, Accounted,
         \/ \E u \in Users, a \in Activities : AddUserActivity(u, a) \/ RemoveUserActivity(u, a)
         \/ \E f \in Follows : FollowManyUsers(f[1], f[2]) \/ UnfollowManyUsers(f[1], f[2])
  PROVE  Delivery!Next
<1>0. past \in Past
  BY DEF TypeOK
<1>1. ASSUME NEW u \in Users, NEW a \in Activities, AddUserActivity(u, a)
      PROVE  Delivery!Next
  <2>1. Delivery!Add(u, a)
    BY <1>0, <1>1 DEF AddUserActivity, PostAs, Past, Delivery!Add, Delivery!Asks
  <2> QED
    BY <2>1 DEF Delivery!Next
<1>2. ASSUME NEW u \in Users, NEW a \in Activities, RemoveUserActivity(u, a)
      PROVE  Delivery!Next
  <2>1. Delivery!Remove(u, a)
    BY <1>0, <1>2 DEF RemoveUserActivity, PostAs, Past, LiveArePosted,
                      Delivery!Remove, Delivery!Asks
  <2> QED
    BY <2>1 DEF Delivery!Next
<1>3. ASSUME NEW f \in Follows, FollowManyUsers(f[1], f[2]) PROVE Delivery!Next
  <2>1. f[1] \in Users /\ f[2] \in SUBSET Users
    BY ConstantsAssumption
  <2>2. Delivery!Follow(f[1], f[2])
    BY <1>0, <1>3 DEF FollowManyUsers, Subscribe, Past, Delivery!Follow, Delivery!Asks
  <2> QED
    BY <2>1, <2>2 DEF Delivery!Next
<1>4. ASSUME NEW f \in Follows, UnfollowManyUsers(f[1], f[2]) PROVE Delivery!Next
  <2>1. f[1] \in Users /\ f[2] \in SUBSET Users
    BY ConstantsAssumption
  <2>2. {f[1]} \X f[2] \subseteq past.followed
    BY <1>4, <2>1 DEF UnfollowManyUsers, Accounted, TimelinesAccounted
  <2>3. Delivery!Unfollow(f[1], f[2])
    BY <1>0, <1>4, <2>2 DEF UnfollowManyUsers, Subscribe, Past, Delivery!Unfollow,
                            Delivery!Asks
  <2> QED
    BY <2>1, <2>3 DEF Delivery!Next
<1> QED
  BY <1>1, <1>2, <1>3, <1>4

LEMMA StoreStep ==
  ASSUME TypeOK, Accounted, NEW p \in posting, p.op = "add", InsertActivity(p)
  PROVE  Delivery!Next
<1>1. p.user \in Users /\ p.act \in Activities
  BY DEF TypeOK, Posting
<1>2. <<p.user, p.act>> \in past.posted
  BY DEF Accounted, PostingsAccounted
<1>3. Delivery!Store(p.user, p.act)
  BY <1>2 DEF InsertActivity, Delivery!Store, Delivery!asked
<1> QED
  BY <1>1, <1>3 DEF Delivery!Next

\* Only a call that adds stores anything.
InsertsAdd == \A p \in posting : p.at = "insert" => p.op = "add"

LEMMA StepInsertsAdd == ASSUME TypeOK, InsertsAdd, [Next]_vars PROVE InsertsAdd'
<1> USE DEF InsertsAdd
<1>1. ASSUME NEW u \in Users, NEW a \in Activities,
             AddUserActivity(u, a) \/ RemoveUserActivity(u, a)
      PROVE  InsertsAdd'
  BY <1>1 DEF AddUserActivity, RemoveUserActivity, PostAs
<1>2. ASSUME NEW p \in posting, NEW q \in Posting, q.at # "insert",
             posting' = Replace(posting, p, q)
      PROVE  InsertsAdd'
  BY <1>2 DEF Replace
<1>3. ASSUME posting' \subseteq posting PROVE InsertsAdd'
  BY <1>3
<1>4. ASSUME NEW p \in posting, InsertActivity(p) \/ UpdateUserFeed(p) \/ GetUserFollowerIds(p)
      PROVE  InsertsAdd'
  <2> p \in Posting
    BY DEF TypeOK
  <2>1. FollowerGroups(p.user) \in [Groups -> SUBSET Users]
    BY DEF TypeOK, Posting, FollowerGroups
  <2>2. /\ [p EXCEPT !.at = "timeline"] \in Posting
        /\ [p EXCEPT !.at = "lookup"] \in Posting
        /\ [p EXCEPT !.at = "enqueue", !.to = FollowerGroups(p.user)] \in Posting
    BY <2>1 DEF Posting
  <2>3. /\ [p EXCEPT !.at = "timeline"].at # "insert"
        /\ [p EXCEPT !.at = "lookup"].at # "insert"
        /\ [p EXCEPT !.at = "enqueue", !.to = FollowerGroups(p.user)].at # "insert"
    BY DEF Posting
  <2> QED
    BY <1>2, <1>4, <2>2, <2>3 DEF InsertActivity, UpdateUserFeed, GetUserFollowerIds
<1>5. ASSUME NEW p \in posting, NEW g \in Groups, EnqueueFanout(p, g) PROVE InsertsAdd'
  <2> p \in Posting
    BY DEF TypeOK
  <2>1. [p EXCEPT !.to[g] = {}] \in Posting /\ [p EXCEPT !.to[g] = {}].at # "insert"
    BY <1>5 DEF Posting, EnqueueFanout
  <2> QED
    BY <1>2, <1>5, <2>1 DEF EnqueueFanout
<1> QED
  BY <1>1, <1>3, <1>4, <1>5, NextCases
     DEF FinishPosting, FollowManyUsers, UnfollowManyUsers, Subscribe,
         EnqueueSubscription, StartFanout, StartFollow, StartUnfollow,
         CrashHost, FanoutTo, TrimTimeline, ReadTarget, FinishReading, CopyBatch,
         TrimBeforeUnfollow, ReadOwnFeed, RemoveOne, CrashCaller, vars

-----------------------------------------------------------------------------
(* Every step *)

LEMMA ApplyStep ==
  ASSUME NEW v \in Users, NEW a \in Activities, NEW op \in {"add", "remove"},
         op = "add" => a \in store, Justified(op, v, a),
         timeline' = [timeline EXCEPT ![v] = Apply(op, @, a)], store' = store, AskedNothing
  PROVE  Delivery!Next
<1>1. CASE op = "add"
  <2>1. timeline' = [timeline EXCEPT ![v] = @ \cup {a}]
    BY <1>1 DEF Apply
  <2>2. {a} \in SUBSET Activities /\ {a} \subseteq store /\ \A b \in {a} : Solicited(v, b)
    BY <1>1 DEF Justified
  <2> HIDE DEF Apply
  <2> QED
    BY <2>1, <2>2, ShowStep
<1>2. CASE op = "remove"
  <2>1. timeline' = [timeline EXCEPT ![v] = @ \ {a}]
    BY <1>2 DEF Apply
  <2> QED
    BY <1>2, <2>1, HideStep, SameReasons DEF Justified
<1> QED
  BY <1>1, <1>2

LEMMA StepDelivers ==
  ASSUME TypeOK, Backed, Accounted, LiveArePosted, InsertsAdd, [Next]_vars
  PROVE  [Delivery!Next]_(Delivery!vars)
<1> DEFINE Done == [Delivery!Next]_(Delivery!vars)
<1>1. ASSUME \/ \E u \in Users, a \in Activities : AddUserActivity(u, a) \/ RemoveUserActivity(u, a)
             \/ \E f \in Follows : FollowManyUsers(f[1], f[2]) \/ UnfollowManyUsers(f[1], f[2])
      PROVE  Done
  BY <1>1, AskStep
<1>2. ASSUME NEW p \in posting, InsertActivity(p) PROVE Done
  BY <1>2, StoreStep DEF InsertsAdd, InsertActivity
<1>3. ASSUME NEW p \in posting, UpdateUserFeed(p) PROVE Done
  <2>1. p.user \in Users /\ p.act \in Activities /\ p.op \in {"add", "remove"}
    BY DEF TypeOK, Posting
  <2>2. p.op = "add" => p.act \in store
    BY <1>3 DEF Backed, UpdateUserFeed
  <2>3. Justified(p.op, p.user, p.act)
    BY <2>1 DEF Accounted, PostingsAccounted, Justified, Solicited, Withdrawn
  <2> QED
    BY <1>3, <2>1, <2>2, <2>3, ApplyStep DEF UpdateUserFeed, AskedNothing
<1>4. ASSUME NEW f \in fanouts, NEW v \in f.todo, FanoutTo(f, v) PROVE Done
  <2>1. v \in Users /\ f.act \in Activities /\ f.op \in {"add", "remove"}
    BY DEF TypeOK, Fanout
  <2>2. (f.op = "add" => f.act \in store) /\ Justified(f.op, v, f.act)
    BY DEF Backed, Accounted, FanoutsAccounted
  <2> QED
    BY <1>4, <2>1, <2>2, ApplyStep DEF FanoutTo, AskedNothing
<1>5. ASSUME NEW t \in trims, TrimTimeline(t) PROVE Done
  <2>1. t.user \in Users
    BY DEF TypeOK, Trim
  <2> QED
    BY <1>5, <2>1, ShortenStep DEF TrimTimeline, AskedNothing
<1>6. ASSUME NEW j \in followJobs, NEW batch \in SUBSET j.found, CopyBatch(j, batch)
      PROVE  Done
  <2>1. j.user \in Users /\ j.found \subseteq Activities
    BY DEF TypeOK, FollowJob
  <2>2. batch \subseteq store /\ \A a \in batch : Solicited(j.user, a)
    BY DEF Backed, Accounted, CopiesAccounted
  <2> QED
    BY <1>6, <2>1, <2>2, ShowStep DEF CopyBatch, AskedNothing
<1>7. ASSUME NEW j \in unfollowJobs, TrimBeforeUnfollow(j) PROVE Done
  <2>1. j.user \in Users
    BY DEF TypeOK, UnfollowJob
  <2> QED
    BY <1>7, <2>1, ShortenStep DEF TrimBeforeUnfollow, AskedNothing
<1>8. ASSUME NEW j \in unfollowJobs, NEW a \in j.left, RemoveOne(j, a) PROVE Done
  <2>1. j.user \in Users /\ a \in Activities
    BY DEF TypeOK, UnfollowJob
  <2>2. Unfollowed(j.user, a)
    BY DEF Accounted, RemovalsAccounted
  <2> QED
    BY <1>8, <2>1, <2>2, HideStep, SameReasons DEF RemoveOne, AskedNothing
<1>9. ASSUME past' = past, store' = store, timeline' = timeline PROVE Done
  BY <1>9 DEF Delivery!vars, Delivery!asked
<1> HIDE DEF Done
<1>10. ASSUME UNCHANGED vars PROVE Done
  BY <1>9, <1>10 DEF vars
<1>11. ASSUME Next PROVE Done
  BY <1>1, <1>2, <1>3, <1>4, <1>5, <1>6, <1>7, <1>8, <1>9, <1>11, NextCases
     DEF GetUserFollowerIds, FinishPosting, EnqueueFanout, EnqueueSubscription,
         StartFanout, StartFollow, StartUnfollow, CrashHost, ReadTarget, FinishReading,
         ReadOwnFeed, CrashCaller
<1> QED
  BY <1>10, <1>11 DEF Done

\* FeedTasks implements FeedDelivery: whatever calls, jobs, fanouts, copies, trims and
\* crashes interleave, each step shows stored activities the user has asked for,
\* hides one for a reason, cuts a feed to the newest MaxLength, or changes no feed.
THEOREM FeedTasksDelivers == Spec => Delivers
<1> DEFINE Inv == TypeOK /\ Backed /\ Accounted /\ LiveArePosted /\ InsertsAdd
<1>1. Init => Inv
  <2>1. Init => LiveArePosted /\ InsertsAdd
    BY DEF Init, LiveArePosted, InsertsAdd
  <2> QED
    BY <2>1, InitTypeOK, InitBacked, InitAccounted
<1>2. Inv /\ [Next]_vars => Inv'
  BY StepTypeOK, StepBacked, StepAccounted, StepLiveArePosted, StepInsertsAdd
<1>3. Init => Delivery!Init
  BY InitDelivers
<1>4. Inv /\ [Next]_vars => [Delivery!Next]_(Delivery!vars)
  BY StepDelivers
<1> QED
  BY <1>1, <1>2, <1>3, <1>4, PTL DEF Spec, Delivers, Delivery!Spec
=============================================================================
