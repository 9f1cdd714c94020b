--------------------------- MODULE FeedTasksProofs ---------------------------
(***************************************************************************)
(* What holds of FeedTasks for any users, activities, hosts, chunk sizes   *)
(* and number of calls and crashes.                                        *)
(***************************************************************************)
EXTENDS FeedTasks, FiniteSetTheorems, TLAPS

\* The four kinds of step Next is made of, one disjunct per action.
LEMMA NextCases ==
  ASSUME Next
  PROVE  \/ \E u \in Users, a \in Activities :
              AddUserActivity(u, a) \/ RemoveUserActivity(u, a)
         \/ \E p \in posting :
              \/ InsertActivity(p) \/ UpdateUserFeed(p) \/ GetUserFollowerIds(p)
              \/ FinishPosting(p) \/ \E g \in Groups : EnqueueFanout(p, g)
         \/ \E f \in Follows : FollowManyUsers(f[1], f[2]) \/ UnfollowManyUsers(f[1], f[2])
         \/ \E s \in subscribing : EnqueueSubscription(s)
         \/ \E h \in Hosts : \/ \E g \in Groups : StartFanout(h, g)
                             \/ StartFollow(h) \/ StartUnfollow(h) \/ CrashHost(h)
         \/ \E f \in fanouts : \E v \in f.todo : FanoutTo(f, v)
         \/ \E t \in trims : TrimTimeline(t)
         \/ \E j \in followJobs : \/ \E t \in j.left : ReadTarget(j, t)
                                  \/ FinishReading(j)
                                  \/ \E batch \in SUBSET j.found : CopyBatch(j, batch)
         \/ \E j \in unfollowJobs : \/ TrimBeforeUnfollow(j) \/ ReadOwnFeed(j)
                                    \/ \E a \in j.left : RemoveOne(j, a)
         \/ CrashCaller
  BY DEF Next, Application, System, Crash, Caller, FanoutWorker, FollowWorker,
         UnfollowWorker, Trimming

-----------------------------------------------------------------------------
(* Type correctness *)

LEMMA NewestIsPart == ASSUME NEW S, NEW n PROVE Newest(S, n) \subseteq S
  BY DEF Newest

LEMMA InitTypeOK == Init => TypeOK
  BY DEF Init, TypeOK, Past

LEMMA ReplacePart ==
  ASSUME NEW T, NEW S \in SUBSET T, NEW old, NEW new \in T
  PROVE  Replace(S, old, new) \in SUBSET T
  BY DEF Replace

LEMMA StartTrimType ==
  ASSUME NEW id \in Nat, NEW h \in Hosts, NEW u \in Users,
         trims \in SUBSET Trim, StartTrim(id, h, u)
  PROVE  trims' \in SUBSET Trim
  BY DEF StartTrim, Trim

LEMMA StepTypeOK == ASSUME TypeOK, [Next]_vars PROVE TypeOK'
<1>1. ASSUME NEW u \in Users, NEW a \in Activities, AddUserActivity(u, a)
      PROVE  TypeOK'
  <2>1. [id |-> calls, op |-> "add", user |-> u, act |-> a, at |-> "insert",
         to |-> NobodyToServe] \in Posting
    BY DEF TypeOK, Posting, NobodyToServe
  <2>2. past' \in Past
    <3>1. <<u, a>> \in Users \X Activities
      OBVIOUS
    <3> QED
      BY <1>1, <3>1 DEF TypeOK, AddUserActivity, Past
  <2> QED
    BY <1>1, <2>1, <2>2 DEF TypeOK, AddUserActivity, PostAs
<1>2. ASSUME NEW u \in Users, NEW a \in Activities, RemoveUserActivity(u, a)
      PROVE  TypeOK'
  <2>1. [id |-> calls, op |-> "remove", user |-> u, act |-> a, at |-> "timeline",
         to |-> NobodyToServe] \in Posting
    BY DEF TypeOK, Posting, NobodyToServe
  <2>2. past' \in Past
    <3>1. <<u, a>> \in Users \X Activities
      OBVIOUS
    <3> QED
      BY <1>2, <3>1 DEF TypeOK, RemoveUserActivity, Past
  <2> QED
    BY <1>2, <2>1, <2>2 DEF TypeOK, RemoveUserActivity, PostAs
<1>3. ASSUME NEW p \in posting, InsertActivity(p) PROVE TypeOK'
  <2> p \in Posting
    BY DEF TypeOK
  <2>1. p.act \in Activities /\ [p EXCEPT !.at = "timeline"] \in Posting
    BY DEF Posting
  <2> QED
    BY <1>3, <2>1, ReplacePart DEF TypeOK, InsertActivity
<1>4. ASSUME NEW p \in posting, UpdateUserFeed(p) PROVE TypeOK'
  <2> p \in Posting
    BY DEF TypeOK
  <2>1. [p EXCEPT !.at = "lookup"] \in Posting /\ p.act \in Activities
    BY DEF Posting
  <2>2. timeline' \in [Users -> SUBSET Activities]
    BY <1>4, <2>1 DEF TypeOK, UpdateUserFeed, Apply
  <2>3. posting' \in SUBSET Posting
    BY <1>4, <2>1, ReplacePart DEF TypeOK, UpdateUserFeed
  <2> QED
    BY <1>4, <2>2, <2>3 DEF TypeOK, UpdateUserFeed
<1>5. ASSUME NEW p \in posting, GetUserFollowerIds(p) PROVE TypeOK'
  <2> p \in Posting
    BY DEF TypeOK
  <2>1. FollowerGroups(p.user) \in [Groups -> SUBSET Users]
    BY DEF TypeOK, Posting, FollowerGroups
  <2>2. [p EXCEPT !.at = "enqueue", !.to = FollowerGroups(p.user)] \in Posting
    BY <2>1 DEF Posting
  <2> QED
    BY <1>5, <2>2, ReplacePart DEF TypeOK, GetUserFollowerIds
<1>6. ASSUME NEW p \in posting, FinishPosting(p) PROVE TypeOK'
  BY <1>6 DEF TypeOK, FinishPosting
<1>7. ASSUME NEW p \in posting, NEW g \in Groups, EnqueueFanout(p, g) PROVE TypeOK'
  <2> p \in Posting
    BY DEF TypeOK
  <2>1. [id |-> p.id, op |-> p.op, act |-> p.act, ids |-> p.to[g]] \in FanoutJob
    BY DEF Posting, FanoutJob
  <2>2. [p EXCEPT !.to[g] = {}] \in Posting
    BY DEF Posting
  <2>3. fanoutQueue' \in [Groups -> Seq(FanoutJob)]
    BY <1>7, <2>1 DEF TypeOK, EnqueueFanout
  <2> QED
    BY <1>7, <2>2, <2>3, ReplacePart DEF TypeOK, EnqueueFanout
<1>8. ASSUME NEW f \in Follows, FollowManyUsers(f[1], f[2]) PROVE TypeOK'
  <2>1. f[1] \in Users /\ f[2] \in SUBSET Users
    BY ConstantsAssumption
  <2>2. [id |-> calls, op |-> "follow", user |-> f[1], targets |-> f[2]] \in Subscription
    BY <2>1 DEF TypeOK, Subscription
  <2>3. past' \in Past
    BY <1>8, <2>1 DEF TypeOK, FollowManyUsers, Past
  <2>4. followers' \in [Users -> SUBSET Users]
    BY <1>8, <2>1 DEF TypeOK, FollowManyUsers
  <2> QED
    BY <1>8, <2>2, <2>3, <2>4 DEF TypeOK, FollowManyUsers, Subscribe
<1>9. ASSUME NEW f \in Follows, UnfollowManyUsers(f[1], f[2]) PROVE TypeOK'
  <2>1. f[1] \in Users /\ f[2] \in SUBSET Users
    BY ConstantsAssumption
  <2>2. [id |-> calls, op |-> "unfollow", user |-> f[1], targets |-> f[2]] \in Subscription
    BY <2>1 DEF TypeOK, Subscription
  <2>3. past' \in Past
    BY <1>9, <2>1 DEF TypeOK, UnfollowManyUsers, Past
  <2>4. followers' \in [Users -> SUBSET Users]
    BY <1>9, <2>1 DEF TypeOK, UnfollowManyUsers
  <2> QED
    BY <1>9, <2>2, <2>3, <2>4 DEF TypeOK, UnfollowManyUsers, Subscribe
<1>10. ASSUME NEW s \in subscribing, EnqueueSubscription(s) PROVE TypeOK'
  <2> s \in Subscription
    BY DEF TypeOK
  <2>1. /\ s.op \in {"follow", "unfollow"}
        /\ [id |-> s.id, user |-> s.user, targets |-> s.targets] \in SubJob
    BY DEF Subscription, SubJob
  <2> QED
    BY <1>10, <2>1 DEF TypeOK, EnqueueSubscription
<1>11. ASSUME NEW h \in Hosts, NEW g \in Groups, StartFanout(h, g) PROVE TypeOK'
  <2> DEFINE j == Head(fanoutQueue[g])
  <2>1. j \in FanoutJob /\ fanoutQueue' \in [Groups -> Seq(FanoutJob)]
    BY <1>11 DEF TypeOK, StartFanout, Served
  <2>2. PICK C \in FirstChunk(j.ids) :
          fanouts' = fanouts \cup {[id |-> j.id, no |-> started, host |-> h,
                                    op |-> j.op, act |-> j.act, todo |-> C,
                                    fresh |-> TRUE]}
    BY <1>11 DEF StartFanout
  <2>3. C \in SUBSET Users
    BY <2>1, <2>2 DEF FirstChunk, FanoutJob
  <2>4. [id |-> j.id, no |-> started, host |-> h, op |-> j.op, act |-> j.act,
         todo |-> C, fresh |-> TRUE] \in Fanout
    BY <2>1, <2>3 DEF TypeOK, FanoutJob, Fanout
  <2>5. fanouts' \in SUBSET Fanout
    BY <2>2, <2>4 DEF TypeOK
  <2> QED
    BY <1>11, <2>1, <2>5 DEF TypeOK, StartFanout
<1>12. ASSUME NEW h \in Hosts, StartFollow(h) PROVE TypeOK'
  <2> DEFINE j == NextSubJob("follow")
  <2>1. j \in SubJob /\ subQueue' \in [{"follow", "unfollow"} -> Seq(SubJob)]
    BY <1>12 DEF TypeOK, StartFollow, NextSubJob
  <2>2. [id |-> j.id, host |-> h, user |-> j.user, left |-> j.targets,
         at |-> "read", found |-> {}] \in FollowJob
    BY <2>1 DEF SubJob, FollowJob
  <2> QED
    BY <1>12, <2>1, <2>2 DEF TypeOK, StartFollow
<1>13. ASSUME NEW h \in Hosts, StartUnfollow(h) PROVE TypeOK'
  <2> DEFINE j == NextSubJob("unfollow")
  <2>1. j \in SubJob /\ subQueue' \in [{"follow", "unfollow"} -> Seq(SubJob)]
    BY <1>13 DEF TypeOK, StartUnfollow, NextSubJob
  <2>2. [id |-> j.id, host |-> h, user |-> j.user, targets |-> j.targets,
         at |-> "trim", left |-> {}] \in UnfollowJob
    BY <2>1 DEF SubJob, UnfollowJob
  <2> QED
    BY <1>13, <2>1, <2>2 DEF TypeOK, StartUnfollow
<1>14. ASSUME NEW h \in Hosts, CrashHost(h) PROVE TypeOK'
  BY <1>14 DEF TypeOK, CrashHost
<1>15. ASSUME NEW f \in fanouts, NEW v \in f.todo, FanoutTo(f, v) PROVE TypeOK'
  <2> f \in Fanout
    BY DEF TypeOK
  <2>1. /\ f.id \in Nat /\ f.host \in Hosts /\ f.act \in Activities /\ v \in Users
        /\ [f EXCEPT !.todo = @ \ {v}, !.fresh = FALSE] \in Fanout
    BY DEF Fanout
  <2>2. trims' \in SUBSET Trim
    BY <1>15, <2>1, StartTrimType DEF TypeOK, FanoutTo
  <2>3. fanouts' \in SUBSET Fanout
    BY <1>15, <2>1, ReplacePart DEF TypeOK, FanoutTo
  <2>4. timeline' \in [Users -> SUBSET Activities]
    BY <1>15, <2>1 DEF TypeOK, FanoutTo, Apply
  <2> QED
    BY <1>15, <2>2, <2>3, <2>4 DEF TypeOK, FanoutTo
<1>16. ASSUME NEW t \in trims, TrimTimeline(t) PROVE TypeOK'
  BY <1>16, NewestIsPart DEF TypeOK, TrimTimeline, Trim
<1>17. ASSUME NEW j \in followJobs, NEW t \in j.left, ReadTarget(j, t) PROVE TypeOK'
  <2> DEFINE page == Newest(timeline[t], FollowLimit)
  <2> j \in FollowJob
    BY DEF TypeOK
  <2>1. t \in Users /\ j \in FollowJob
    BY DEF FollowJob
  <2>2. CopiedFrom(t, page) \in SUBSET Activities
    BY <2>1, NewestIsPart DEF TypeOK, CopiedFrom
  <2>3. [j EXCEPT !.left = @ \ {t}, !.found = @ \cup CopiedFrom(t, page)] \in FollowJob
    BY <2>1, <2>2 DEF FollowJob
  <2>4. followJobs' \in SUBSET FollowJob
    BY <1>17, <2>3, ReplacePart DEF TypeOK, ReadTarget
  <2> QED
    BY <1>17, <2>4 DEF TypeOK, ReadTarget
<1>18. ASSUME NEW j \in followJobs, FinishReading(j) PROVE TypeOK'
  <2>1. j \in FollowJob
    BY DEF TypeOK
  <2>2. [j EXCEPT !.at = "write"] \in FollowJob
    BY <2>1 DEF FollowJob
  <2> QED
    BY <1>18, <2>2, ReplacePart DEF TypeOK, FinishReading
<1>19. ASSUME NEW j \in followJobs, NEW batch \in SUBSET j.found, CopyBatch(j, batch)
       PROVE  TypeOK'
  <2> j \in FollowJob
    BY DEF TypeOK
  <2>1. /\ j.id \in Nat /\ j.host \in Hosts /\ j.user \in Users
        /\ j.found \in SUBSET Activities
        /\ [j EXCEPT !.found = @ \ batch] \in FollowJob
    BY DEF FollowJob
  <2>2. trims' \in SUBSET Trim
    BY <1>19, <2>1, StartTrimType DEF TypeOK, CopyBatch
  <2>3. followJobs' \in SUBSET FollowJob
    BY <1>19, <2>1, ReplacePart DEF TypeOK, CopyBatch
  <2> QED
    BY <1>19, <2>1, <2>2, <2>3 DEF TypeOK, CopyBatch
<1>20. ASSUME NEW j \in unfollowJobs, TrimBeforeUnfollow(j) PROVE TypeOK'
  <2>1. j \in UnfollowJob
    BY DEF TypeOK
  <2>2. j.user \in Users /\ [j EXCEPT !.at = "read"] \in UnfollowJob
    BY <2>1 DEF UnfollowJob
  <2> QED
    BY <1>20, <2>2, NewestIsPart, ReplacePart DEF TypeOK, TrimBeforeUnfollow
<1>21. ASSUME NEW j \in unfollowJobs, ReadOwnFeed(j) PROVE TypeOK'
  <2> DEFINE page == Newest(timeline[j.user], MaxLength)
             hits == RemovedFrom(j.targets, page)
  <2> j \in UnfollowJob
    BY DEF TypeOK
  <2>1. hits \in SUBSET Activities
    <3>1. j.user \in Users
      BY DEF UnfollowJob
    <3>2. page \in SUBSET Activities
      BY <3>1, NewestIsPart DEF TypeOK
    <3> QED
      BY <3>2 DEF RemovedFrom
  <2> HIDE DEF hits
  <2>2. [j EXCEPT !.at = "remove", !.left = hits] \in UnfollowJob
    BY <2>1 DEF UnfollowJob
  <2>3. unfollowJobs' \in SUBSET UnfollowJob
    BY <1>21, <2>2, ReplacePart DEF TypeOK, ReadOwnFeed, hits
  <2> QED
    BY <1>21, <2>3 DEF TypeOK, ReadOwnFeed
<1>22. ASSUME NEW j \in unfollowJobs, NEW a \in j.left, RemoveOne(j, a) PROVE TypeOK'
  <2> j \in UnfollowJob
    BY DEF TypeOK
  <2>1. /\ j.id \in Nat /\ j.host \in Hosts /\ j.user \in Users
        /\ [j EXCEPT !.left = @ \ {a}] \in UnfollowJob
    BY DEF UnfollowJob
  <2>2. trims' \in SUBSET Trim
    BY <1>22, <2>1, StartTrimType DEF TypeOK, RemoveOne
  <2>3. unfollowJobs' \in SUBSET UnfollowJob
    BY <1>22, <2>1, ReplacePart DEF TypeOK, RemoveOne
  <2> QED
    BY <1>22, <2>1, <2>2, <2>3 DEF TypeOK, RemoveOne
<1>23. CASE CrashCaller
  BY <1>23 DEF TypeOK, CrashCaller
<1>24. CASE UNCHANGED vars
  BY <1>24 DEF TypeOK, vars
<1> QED
  BY <1>1, <1>2, <1>3, <1>4, <1>5, <1>6, <1>7, <1>8, <1>9, <1>10, <1>11, <1>12,
     <1>13, <1>14, <1>15, <1>16, <1>17, <1>18, <1>19, <1>20, <1>21, <1>22, <1>23,
     <1>24, NextCases

\* Every variable keeps its type.
THEOREM TypeCorrect == Spec => []TypeOK
<1>1. TypeOK /\ [Next]_vars => TypeOK'
  BY StepTypeOK
<1> QED
  BY InitTypeOK, <1>1, PTL DEF Spec
-----------------------------------------------------------------------------
(* What a queue holds *)

Waiting(q) == {q[i] : i \in DOMAIN q}

LEMMA WaitingAppend ==
  ASSUME NEW S, NEW q \in Seq(S), NEW e \in S
  PROVE  Waiting(Append(q, e)) = Waiting(q) \cup {e}
<1>1. /\ DOMAIN Append(q, e) = DOMAIN q \cup {Len(q) + 1}
      /\ \A i \in DOMAIN q : Append(q, e)[i] = q[i]
      /\ Append(q, e)[Len(q) + 1] = e
  OBVIOUS
<1> QED
  BY <1>1 DEF Waiting

LEMMA WaitingHead ==
  ASSUME NEW S, NEW q \in Seq(S), q # <<>>
  PROVE  Head(q) \in Waiting(q) /\ Waiting(Tail(q)) \subseteq Waiting(q)
<1>1. 1 \in DOMAIN q /\ Head(q) = q[1]
  OBVIOUS
<1>2. \A i \in DOMAIN Tail(q) : i + 1 \in DOMAIN q /\ Tail(q)[i] = q[i + 1]
  OBVIOUS
<1> QED
  BY <1>1, <1>2 DEF Waiting

-----------------------------------------------------------------------------
(* Timelines refer to stored activities only *)

\* Hydratable is not inductive: a reference reaches a timeline from a call, a job,
\* a fanout or a copy, and none of these may carry one that is not stored.
Backed ==
  /\ Hydratable
  /\ \A p \in posting : p.op = "add" /\ p.at # "insert" => p.act \in store
  /\ \A g \in Groups : \A j \in Waiting(fanoutQueue[g]) : j.op = "add" => j.act \in store
  /\ \A f \in fanouts : f.op = "add" => f.act \in store
  /\ \A j \in followJobs : j.found \subseteq store

LEMMA InitBacked == Init => Backed
  BY DEF Init, Backed, Hydratable, Waiting

LEMMA StepBacked == ASSUME TypeOK, Backed, [Next]_vars PROVE Backed'
<1> USE DEF Backed, Hydratable
<1>1. ASSUME NEW u \in Users, NEW a \in Activities, AddUserActivity(u, a)
      PROVE  Backed'
  BY <1>1 DEF AddUserActivity, PostAs
<1>2. ASSUME NEW u \in Users, NEW a \in Activities, RemoveUserActivity(u, a)
      PROVE  Backed'
  BY <1>2 DEF RemoveUserActivity, PostAs
<1>3. ASSUME NEW p \in posting, InsertActivity(p) PROVE Backed'
  <2>1. /\ [p EXCEPT !.at = "timeline"].act = p.act
        /\ store' = store \cup {p.act}
    BY <1>3 DEF TypeOK, Posting, InsertActivity
  <2> QED
    BY <1>3, <2>1 DEF InsertActivity, Replace
<1>4. ASSUME NEW p \in posting, UpdateUserFeed(p) PROVE Backed'
  <2>1. /\ p \in Posting /\ p.at = "timeline"
        /\ [p EXCEPT !.at = "lookup"].act = p.act
        /\ [p EXCEPT !.at = "lookup"].op = p.op
    BY <1>4 DEF TypeOK, Posting, UpdateUserFeed
  <2>2. Hydratable'
    BY <1>4, <2>1 DEF TypeOK, UpdateUserFeed, Apply
  <2>3. \A q \in posting' : q.op = "add" /\ q.at # "insert" => q.act \in store
    BY <1>4, <2>1 DEF UpdateUserFeed, Replace
  <2> QED
    BY <1>4, <2>2, <2>3 DEF UpdateUserFeed
<1>5. ASSUME NEW p \in posting, GetUserFollowerIds(p) PROVE Backed'
  <2> DEFINE q == [p EXCEPT !.at = "enqueue", !.to = FollowerGroups(p.user)]
  <2>1. p.at = "lookup" /\ q.act = p.act /\ q.op = p.op
    BY <1>5 DEF TypeOK, Posting, GetUserFollowerIds
  <2> QED
    BY <1>5, <2>1 DEF GetUserFollowerIds, Replace
<1>6. ASSUME NEW p \in posting, FinishPosting(p) PROVE Backed'
  BY <1>6 DEF FinishPosting
<1>7. ASSUME NEW p \in posting, NEW g \in Groups, EnqueueFanout(p, g) PROVE Backed'
  <2> DEFINE j == [id |-> p.id, op |-> p.op, act |-> p.act, ids |-> p.to[g]]
             q == [p EXCEPT !.to[g] = {}]
  <2>1. p \in Posting /\ p.at = "enqueue"
    BY <1>7 DEF TypeOK, EnqueueFanout
  <2>2. j \in FanoutJob /\ q.act = p.act /\ q.op = p.op
    BY <2>1 DEF Posting, FanoutJob
  <2>3. Waiting(fanoutQueue'[g]) = Waiting(fanoutQueue[g]) \cup {j}
    BY <1>7, <2>2, WaitingAppend DEF TypeOK, EnqueueFanout
  <2>4. \A h \in Groups \ {g} : fanoutQueue'[h] = fanoutQueue[h]
    BY <1>7 DEF TypeOK, EnqueueFanout
  <2>5. posting' = Replace(posting, p, q)
    BY <1>7 DEF EnqueueFanout
  <2>6. \A r \in posting' : r.op = "add" /\ r.at # "insert" => r.act \in store
    BY <2>1, <2>2, <2>5 DEF Replace
  <2>7. \A h \in Groups : \A i \in Waiting(fanoutQueue'[h]) : i.op = "add" => i.act \in store
    BY <2>1, <2>3, <2>4
  <2> QED
    BY <1>7, <2>6, <2>7 DEF EnqueueFanout
<1>8. ASSUME NEW f \in Follows, FollowManyUsers(f[1], f[2]) PROVE Backed'
  BY <1>8 DEF FollowManyUsers, Subscribe
<1>9. ASSUME NEW f \in Follows, UnfollowManyUsers(f[1], f[2]) PROVE Backed'
  BY <1>9 DEF UnfollowManyUsers, Subscribe
<1>10. ASSUME NEW s \in subscribing, EnqueueSubscription(s) PROVE Backed'
  BY <1>10 DEF EnqueueSubscription
<1>11. ASSUME NEW h \in Hosts, NEW g \in Groups, StartFanout(h, g) PROVE Backed'
  <2> DEFINE j == Head(fanoutQueue[g])
  <2>1. j \in Waiting(fanoutQueue[g]) /\ Waiting(fanoutQueue'[g]) \subseteq Waiting(fanoutQueue[g])
    BY <1>11, WaitingHead DEF TypeOK, StartFanout, Served
  <2>2. \A i \in Groups \ {g} : fanoutQueue'[i] = fanoutQueue[i]
    BY <1>11 DEF TypeOK, StartFanout
  <2>3. \A f \in fanouts' \ fanouts : f.op = j.op /\ f.act = j.act
    BY <1>11 DEF StartFanout
  <2>4. \A f \in fanouts' : f.op = "add" => f.act \in store
    BY <2>1, <2>3
  <2>5. \A i \in Groups : \A k \in Waiting(fanoutQueue'[i]) : k.op = "add" => k.act \in store
    BY <2>1, <2>2
  <2> QED
    BY <1>11, <2>4, <2>5 DEF StartFanout
<1>12. ASSUME NEW h \in Hosts, StartFollow(h) PROVE Backed'
  BY <1>12 DEF StartFollow
<1>13. ASSUME NEW h \in Hosts, StartUnfollow(h) PROVE Backed'
  BY <1>13 DEF StartUnfollow
<1>14. ASSUME NEW h \in Hosts, CrashHost(h) PROVE Backed'
  BY <1>14 DEF CrashHost
<1>15. ASSUME NEW f \in fanouts, NEW v \in f.todo, FanoutTo(f, v) PROVE Backed'
  <2>1. Hydratable'
    BY <1>15 DEF TypeOK, FanoutTo, Apply
  <2>2. f \in Fanout
    BY DEF TypeOK
  <2>3. \A i \in fanouts' \ fanouts : i.op = f.op /\ i.act = f.act
    BY <1>15, <2>2 DEF FanoutTo, Fanout, Replace
  <2> QED
    BY <1>15, <2>1, <2>3 DEF FanoutTo
<1>16. ASSUME NEW t \in trims, TrimTimeline(t) PROVE Backed'
  BY <1>16, NewestIsPart DEF TypeOK, TrimTimeline
<1>17. ASSUME NEW j \in followJobs, NEW t \in j.left, ReadTarget(j, t) PROVE Backed'
  <2> DEFINE page == Newest(timeline[t], FollowLimit)
             new == [j EXCEPT !.left = @ \ {t}, !.found = @ \cup CopiedFrom(t, page)]
  <2>1. j \in FollowJob /\ t \in Users
    BY DEF TypeOK, FollowJob
  <2>2. CopiedFrom(t, page) \subseteq store
    BY <2>1, NewestIsPart DEF CopiedFrom
  <2>3. new.found = j.found \cup CopiedFrom(t, page)
    BY <2>1 DEF FollowJob
  <2>4. followJobs' \subseteq followJobs \cup {new}
    BY <1>17 DEF ReadTarget, Replace
  <2> QED
    BY <1>17, <2>2, <2>3, <2>4 DEF ReadTarget
<1>18. ASSUME NEW j \in followJobs, FinishReading(j) PROVE Backed'
  <2>1. j \in FollowJob
    BY DEF TypeOK
  <2>2. [j EXCEPT !.at = "write"].found = j.found
    BY <2>1 DEF FollowJob
  <2> QED
    BY <1>18, <2>2 DEF FinishReading, Replace
<1>19. ASSUME NEW j \in followJobs, NEW batch \in SUBSET j.found, CopyBatch(j, batch)
       PROVE  Backed'
  <2>1. j \in FollowJob
    BY DEF TypeOK
  <2>2. [j EXCEPT !.found = @ \ batch].found = j.found \ batch
    BY <2>1 DEF FollowJob
  <2>3. followJobs' \subseteq followJobs \cup {[j EXCEPT !.found = @ \ batch]}
    BY <1>19 DEF CopyBatch, Replace
  <2>4. Hydratable'
    BY <1>19, <2>1 DEF TypeOK, CopyBatch, FollowJob
  <2> QED
    BY <1>19, <2>2, <2>3, <2>4 DEF CopyBatch
<1>20. ASSUME NEW j \in unfollowJobs, TrimBeforeUnfollow(j) PROVE Backed'
  BY <1>20, NewestIsPart DEF TypeOK, TrimBeforeUnfollow
<1>21. ASSUME NEW j \in unfollowJobs, ReadOwnFeed(j) PROVE Backed'
  BY <1>21 DEF ReadOwnFeed
<1>22. ASSUME NEW j \in unfollowJobs, NEW a \in j.left, RemoveOne(j, a) PROVE Backed'
  BY <1>22 DEF TypeOK, RemoveOne
<1>23. CASE CrashCaller
  BY <1>23 DEF CrashCaller
<1>24. CASE UNCHANGED vars
  BY <1>24 DEF vars
<1> QED
  BY <1>1, <1>2, <1>3, <1>4, <1>5, <1>6, <1>7, <1>8, <1>9, <1>10, <1>11, <1>12,
     <1>13, <1>14, <1>15, <1>16, <1>17, <1>18, <1>19, <1>20, <1>21, <1>22, <1>23,
     <1>24, NextCases

\* No timeline ever refers to an activity the storage does not hold: the activity
\* is inserted, and its insertion awaited, before any feed gets its id.
THEOREM NothingDangles == Spec => []Hydratable
<1>1. Init => TypeOK /\ Backed
  BY InitTypeOK, InitBacked
<1>2. TypeOK /\ Backed /\ [Next]_vars => TypeOK' /\ Backed'
  BY StepTypeOK, StepBacked
<1>3. Backed => Hydratable
  BY DEF Backed
<1> QED
  BY <1>1, <1>2, <1>3, PTL DEF Spec
-----------------------------------------------------------------------------
(* Whatever is under way is something the application has asked for *)

Justified(op, v, a) == IF op = "add" THEN Solicited(v, a) ELSE Withdrawn(v, a)

Asked(op) == IF op = "follow" THEN past.followed ELSE past.unfollowed

\* What NothingUnsolicited and NothingLost rest on: every call, job, fanout and
\* copy is accounted for by what the application has asked for so far, and that
\* record only grows.
TimelinesAccounted ==
  /\ NothingUnsolicited
  /\ \A t \in Users : \A v \in followers[t] : <<v, t>> \in past.followed

PostingsAccounted ==
  \A p \in posting :
    /\ <<p.user, p.act>> \in IF p.op = "add" THEN past.posted ELSE past.withdrawn
    /\ \A g \in Groups : \A v \in p.to[g] : <<v, p.user>> \in past.followed

FanoutsAccounted ==
  /\ \A g \in Groups : \A j \in Waiting(fanoutQueue[g]) :
       \A v \in j.ids : Justified(j.op, v, j.act)
  /\ \A f \in fanouts : \A v \in f.todo : Justified(f.op, v, f.act)

SubscriptionsAccounted ==
  /\ \A s \in subscribing : \A t \in s.targets : <<s.user, t>> \in Asked(s.op)
  /\ \A q \in {"follow", "unfollow"} : \A j \in Waiting(subQueue[q]) :
       \A t \in j.targets : <<j.user, t>> \in Asked(q)

CopiesAccounted ==
  \A j \in followJobs :
    /\ \A t \in j.left : <<j.user, t>> \in past.followed
    /\ \A a \in j.found : Solicited(j.user, a)

RemovalsAccounted ==
  \A j \in unfollowJobs :
    /\ \A t \in j.targets : <<j.user, t>> \in past.unfollowed
    /\ \A a \in j.left : Unfollowed(j.user, a)

Accounted ==
  /\ TimelinesAccounted
  /\ PostingsAccounted
  /\ FanoutsAccounted
  /\ SubscriptionsAccounted
  /\ CopiesAccounted
  /\ RemovalsAccounted

LEMMA InitAccounted == Init => Accounted
  BY DEF Init, Accounted, TimelinesAccounted, NothingUnsolicited, PostingsAccounted,
         FanoutsAccounted, SubscriptionsAccounted, CopiesAccounted, RemovalsAccounted,
         Waiting

LEMMA RecordGrows ==
  ASSUME TypeOK, [Next]_vars
  PROVE  /\ past.posted \subseteq past'.posted
         /\ past.withdrawn \subseteq past'.withdrawn
         /\ past.followed \subseteq past'.followed
         /\ past.unfollowed \subseteq past'.unfollowed
<1> DEFINE Grown == /\ past.posted \subseteq past'.posted
                    /\ past.withdrawn \subseteq past'.withdrawn
                    /\ past.followed \subseteq past'.followed
                    /\ past.unfollowed \subseteq past'.unfollowed
<1>0. past \in Past
  BY DEF TypeOK
<1>1. ASSUME NEW u \in Users, NEW a \in Activities, AddUserActivity(u, a)
      PROVE  Grown
  BY <1>0, <1>1 DEF AddUserActivity, Past
<1>2. ASSUME NEW u \in Users, NEW a \in Activities, RemoveUserActivity(u, a)
      PROVE  Grown
  BY <1>0, <1>2 DEF RemoveUserActivity, Past
<1>3. ASSUME NEW f \in Follows, FollowManyUsers(f[1], f[2]) PROVE Grown
  BY <1>0, <1>3 DEF FollowManyUsers, Past
<1>4. ASSUME NEW f \in Follows, UnfollowManyUsers(f[1], f[2]) PROVE Grown
  BY <1>0, <1>4 DEF UnfollowManyUsers, Past
<1>5. ASSUME past' = past PROVE Grown
  BY <1>5
<1> QED
  BY <1>1, <1>2, <1>3, <1>4, <1>5, NextCases
     DEF InsertActivity, UpdateUserFeed, GetUserFollowerIds, FinishPosting,
         EnqueueFanout, EnqueueSubscription, StartFanout, StartFollow, StartUnfollow,
         CrashHost, FanoutTo, TrimTimeline, ReadTarget, FinishReading, CopyBatch,
         TrimBeforeUnfollow, ReadOwnFeed, RemoveOne, CrashCaller, vars

LEMMA ReasonsLast ==
  ASSUME TypeOK, [Next]_vars
  PROVE  /\ \A v, a : Solicited(v, a) => Solicited(v, a)'
         /\ \A v, a : Withdrawn(v, a) => Withdrawn(v, a)'
         /\ \A v, a : Unfollowed(v, a) => Unfollowed(v, a)'
         /\ \A op, v, a : Justified(op, v, a) => Justified(op, v, a)'
         /\ \A op : Asked(op) \subseteq Asked(op)'
  BY RecordGrows DEF Solicited, Withdrawn, Unfollowed, Justified, Asked

\* A part of the state that only shrinks stays accounted for.
LEMMA RestAccounted ==
  ASSUME TypeOK, Accounted, [Next]_vars
  PROVE  /\ UNCHANGED followers /\ (\A u \in Users : timeline'[u] \subseteq timeline[u])
               => TimelinesAccounted'
         /\ posting' \subseteq posting => PostingsAccounted'
         /\ UNCHANGED fanoutQueue /\ fanouts' \subseteq fanouts => FanoutsAccounted'
         /\ UNCHANGED subQueue /\ subscribing' \subseteq subscribing
               => SubscriptionsAccounted'
         /\ followJobs' \subseteq followJobs => CopiesAccounted'
         /\ unfollowJobs' \subseteq unfollowJobs => RemovalsAccounted'
<1> USE DEF Accounted
<1>1. UNCHANGED followers /\ (\A u \in Users : timeline'[u] \subseteq timeline[u])
         => TimelinesAccounted'
  BY ReasonsLast, RecordGrows DEF TimelinesAccounted, NothingUnsolicited
<1>2. posting' \subseteq posting => PostingsAccounted'
  BY RecordGrows DEF PostingsAccounted
<1>3. UNCHANGED fanoutQueue /\ fanouts' \subseteq fanouts => FanoutsAccounted'
  BY ReasonsLast DEF FanoutsAccounted
<1>4. UNCHANGED subQueue /\ subscribing' \subseteq subscribing => SubscriptionsAccounted'
  BY ReasonsLast DEF SubscriptionsAccounted
<1>5. followJobs' \subseteq followJobs => CopiesAccounted'
  BY ReasonsLast, RecordGrows DEF CopiesAccounted
<1>6. unfollowJobs' \subseteq unfollowJobs => RemovalsAccounted'
  BY ReasonsLast, RecordGrows DEF RemovalsAccounted
<1> QED
  BY <1>1, <1>2, <1>3, <1>4, <1>5, <1>6

LEMMA StepAccounted == ASSUME TypeOK, Accounted, [Next]_vars PROVE Accounted'
<1>0. /\ TimelinesAccounted /\ PostingsAccounted /\ FanoutsAccounted
      /\ SubscriptionsAccounted /\ CopiesAccounted /\ RemovalsAccounted
  BY DEF Accounted
<1>1. ASSUME NEW u \in Users, NEW a \in Activities, AddUserActivity(u, a)
      PROVE  Accounted'
  <2> DEFINE p == [id |-> calls, op |-> "add", user |-> u, act |-> a, at |-> "insert",
                   to |-> NobodyToServe]
  <2>1. posting' = posting \cup {p}
    BY <1>1 DEF AddUserActivity, PostAs
  <2>2. <<u, a>> \in past'.posted
    BY <1>1 DEF TypeOK, AddUserActivity, Past
  <2>3. /\ p.user = u /\ p.act = a /\ p.op = "add"
        /\ \A g \in Groups : p.to[g] = {}
    BY DEF NobodyToServe
  <2> HIDE DEF p
  <2>4. PostingsAccounted'
    BY <1>0, <2>1, <2>2, <2>3, RecordGrows DEF PostingsAccounted
  <2> QED
    BY <1>1, <2>4, RestAccounted DEF Accounted, AddUserActivity, PostAs
<1>2. ASSUME NEW u \in Users, NEW a \in Activities, RemoveUserActivity(u, a)
      PROVE  Accounted'
  <2> DEFINE p == [id |-> calls, op |-> "remove", user |-> u, act |-> a,
                   at |-> "timeline", to |-> NobodyToServe]
  <2>1. posting' = posting \cup {p}
    BY <1>2 DEF RemoveUserActivity, PostAs
  <2>2. <<u, a>> \in past'.withdrawn
    BY <1>2 DEF TypeOK, RemoveUserActivity, Past
  <2>3. /\ p.user = u /\ p.act = a /\ p.op = "remove"
        /\ \A g \in Groups : p.to[g] = {}
    BY DEF NobodyToServe
  <2> HIDE DEF p
  <2>4. PostingsAccounted'
    BY <1>0, <2>1, <2>2, <2>3, RecordGrows DEF PostingsAccounted
  <2> QED
    BY <1>2, <2>4, RestAccounted DEF Accounted, RemoveUserActivity, PostAs
<1>3. ASSUME NEW p \in posting, InsertActivity(p) PROVE Accounted'
  <2> DEFINE q == [p EXCEPT !.at = "timeline"]
  <2>1. q.user = p.user /\ q.act = p.act /\ q.op = p.op /\ q.to = p.to
    BY DEF TypeOK, Posting
  <2>2. posting' \subseteq posting \cup {q} /\ past' = past
    BY <1>3 DEF InsertActivity, Replace
  <2>3. PostingsAccounted'
    BY <1>0, <2>1, <2>2 DEF PostingsAccounted
  <2> QED
    BY <1>3, <2>3, RestAccounted DEF Accounted, InsertActivity
<1>4. ASSUME NEW p \in posting, UpdateUserFeed(p) PROVE Accounted'
  <2> DEFINE q == [p EXCEPT !.at = "lookup"]
  <2>1. /\ q.user = p.user /\ q.act = p.act /\ q.op = p.op /\ q.to = p.to
        /\ p.user \in Users /\ p.act \in Activities
    BY DEF TypeOK, Posting
  <2>2. posting' \subseteq posting \cup {q} /\ past' = past
    BY <1>4 DEF UpdateUserFeed, Replace
  <2>3. PostingsAccounted'
    BY <1>0, <2>1, <2>2 DEF PostingsAccounted
  <2>4. p.op = "add" => Solicited(p.user, p.act)
    BY <1>0 DEF PostingsAccounted, Solicited
  <2>5. \A v \in Users : \A a \in timeline'[v] :
           a \in timeline[v] \/ (v = p.user /\ a = p.act /\ p.op = "add")
    <3>1. timeline'[p.user] = Apply(p.op, timeline[p.user], p.act)
      BY <1>4, <2>1 DEF TypeOK, UpdateUserFeed
    <3>2. \A v \in Users \ {p.user} : timeline'[v] = timeline[v]
      BY <1>4 DEF TypeOK, UpdateUserFeed
    <3> QED
      BY <3>1, <3>2 DEF Apply
  <2>6. NothingUnsolicited'
    BY <1>0, <2>4, <2>5, ReasonsLast DEF NothingUnsolicited, TimelinesAccounted
  <2>7. TimelinesAccounted'
    BY <1>0, <1>4, <2>6 DEF TimelinesAccounted, UpdateUserFeed
  <2> QED
    BY <1>4, <2>3, <2>7, RestAccounted DEF Accounted, UpdateUserFeed
<1>5. ASSUME NEW p \in posting, GetUserFollowerIds(p) PROVE Accounted'
  <2> DEFINE q == [p EXCEPT !.at = "enqueue", !.to = FollowerGroups(p.user)]
  <2>1. /\ q.user = p.user /\ q.act = p.act /\ q.op = p.op
        /\ q.to = FollowerGroups(p.user) /\ p.user \in Users
    BY DEF TypeOK, Posting
  <2>2. posting' \subseteq posting \cup {q} /\ past' = past
    BY <1>5 DEF GetUserFollowerIds, Replace
  <2>3. \A g \in Groups : \A v \in q.to[g] : <<v, q.user>> \in past.followed
    BY <1>0, <2>1 DEF TimelinesAccounted, FollowerGroups
  <2>4. PostingsAccounted'
    BY <1>0, <2>1, <2>2, <2>3 DEF PostingsAccounted
  <2> QED
    BY <1>5, <2>4, RestAccounted DEF Accounted, GetUserFollowerIds
<1>6. ASSUME NEW p \in posting, FinishPosting(p) PROVE Accounted'
  BY <1>6, RestAccounted DEF Accounted, FinishPosting
<1>7. ASSUME NEW p \in posting, NEW g \in Groups, EnqueueFanout(p, g) PROVE Accounted'
  <2> DEFINE j == [id |-> p.id, op |-> p.op, act |-> p.act, ids |-> p.to[g]]
             q == [p EXCEPT !.to[g] = {}]
  <2>1. p \in Posting
    BY DEF TypeOK
  <2>2. /\ q.user = p.user /\ q.act = p.act /\ q.op = p.op
        /\ \A h \in Groups : q.to[h] \subseteq p.to[h]
        /\ j \in FanoutJob /\ p.user \in Users /\ p.to[g] \subseteq Users
        /\ p.op \in {"add", "remove"}
    BY <2>1 DEF Posting, FanoutJob
  <2>3. posting' \subseteq posting \cup {q} /\ past' = past
    BY <1>7 DEF EnqueueFanout, Replace
  <2>4. PostingsAccounted'
    BY <1>0, <2>2, <2>3 DEF PostingsAccounted
  <2>5. Waiting(fanoutQueue'[g]) = Waiting(fanoutQueue[g]) \cup {j}
    BY <1>7, <2>2, WaitingAppend DEF TypeOK, EnqueueFanout
  <2>6. \A h \in Groups \ {g} : fanoutQueue'[h] = fanoutQueue[h]
    BY <1>7 DEF TypeOK, EnqueueFanout
  <2>7. \A v \in p.to[g] : Justified(p.op, v, p.act)
    <3>1. \A v \in p.to[g] : <<v, p.user>> \in past.followed
      BY <1>0 DEF PostingsAccounted
    <3>2. <<p.user, p.act>> \in IF p.op = "add" THEN past.posted ELSE past.withdrawn
      BY <1>0 DEF PostingsAccounted
    <3> QED
      BY <2>2, <3>1, <3>2 DEF Justified, Solicited, Withdrawn
  <2>8. \A h \in Groups : \A k \in Waiting(fanoutQueue'[h]) :
           \A v \in k.ids : Justified(k.op, v, k.act)
    BY <1>0, <2>5, <2>6, <2>7 DEF FanoutsAccounted
  <2>9. FanoutsAccounted'
    BY <1>0, <1>7, <2>8, ReasonsLast DEF FanoutsAccounted, EnqueueFanout
  <2> QED
    BY <1>7, <2>4, <2>9, RestAccounted DEF Accounted, EnqueueFanout
<1>8. ASSUME NEW f \in Follows, FollowManyUsers(f[1], f[2]) PROVE Accounted'
  <2>1. \A t \in f[2] : <<f[1], t>> \in past'.followed
    BY <1>8 DEF TypeOK, FollowManyUsers, Past
  <2>2. PICK s : /\ subscribing' = subscribing \cup {s}
                 /\ s.op = "follow" /\ s.user = f[1] /\ s.targets = f[2]
    <3> DEFINE new == [id |-> calls, op |-> "follow", user |-> f[1], targets |-> f[2]]
    <3>1. subscribing' = subscribing \cup {new}
      BY <1>8 DEF FollowManyUsers, Subscribe
    <3>2. new.op = "follow" /\ new.user = f[1] /\ new.targets = f[2]
      OBVIOUS
    <3> HIDE DEF new
    <3> QED
      BY <3>1, <3>2
  <2>3. \A r \in subscribing' : \A t \in r.targets : <<r.user, t>> \in Asked(r.op)'
    <3>1. Asked(s.op)' = past'.followed
      BY <2>2 DEF Asked
    <3> QED
      BY <1>0, <2>1, <2>2, <3>1, ReasonsLast DEF SubscriptionsAccounted
  <2>4. SubscriptionsAccounted'
    BY <1>0, <1>8, <2>3, ReasonsLast
       DEF SubscriptionsAccounted, FollowManyUsers, Subscribe
  <2>5. \A t \in Users : \A v \in followers'[t] : <<v, t>> \in past'.followed
    BY <1>0, <1>8, <2>1, RecordGrows DEF TimelinesAccounted, FollowManyUsers
  <2>6. TimelinesAccounted'
    BY <1>0, <1>8, <2>5, ReasonsLast
       DEF TimelinesAccounted, NothingUnsolicited, FollowManyUsers, Subscribe
  <2> QED
    BY <1>8, <2>4, <2>6, RestAccounted DEF Accounted, FollowManyUsers, Subscribe
<1>9. ASSUME NEW f \in Follows, UnfollowManyUsers(f[1], f[2]) PROVE Accounted'
  <2>1. \A t \in f[2] : <<f[1], t>> \in past'.unfollowed
    BY <1>9 DEF TypeOK, UnfollowManyUsers, Past
  <2>2. PICK s : /\ subscribing' = subscribing \cup {s}
                 /\ s.op = "unfollow" /\ s.user = f[1] /\ s.targets = f[2]
    <3> DEFINE new == [id |-> calls, op |-> "unfollow", user |-> f[1], targets |-> f[2]]
    <3>1. subscribing' = subscribing \cup {new}
      BY <1>9 DEF UnfollowManyUsers, Subscribe
    <3>2. new.op = "unfollow" /\ new.user = f[1] /\ new.targets = f[2]
      OBVIOUS
    <3> HIDE DEF new
    <3> QED
      BY <3>1, <3>2
  <2>3. \A r \in subscribing' : \A t \in r.targets : <<r.user, t>> \in Asked(r.op)'
    <3>1. Asked(s.op)' = past'.unfollowed
      BY <2>2 DEF Asked
    <3> QED
      BY <1>0, <2>1, <2>2, <3>1, ReasonsLast DEF SubscriptionsAccounted
  <2>4. SubscriptionsAccounted'
    BY <1>0, <1>9, <2>3, ReasonsLast
       DEF SubscriptionsAccounted, UnfollowManyUsers, Subscribe
  <2>5. \A t \in Users : \A v \in followers'[t] : <<v, t>> \in past'.followed
    BY <1>0, <1>9, RecordGrows DEF TimelinesAccounted, UnfollowManyUsers
  <2>6. TimelinesAccounted'
    BY <1>0, <1>9, <2>5, ReasonsLast
       DEF TimelinesAccounted, NothingUnsolicited, UnfollowManyUsers, Subscribe
  <2> QED
    BY <1>9, <2>4, <2>6, RestAccounted DEF Accounted, UnfollowManyUsers, Subscribe
<1>10. ASSUME NEW s \in subscribing, EnqueueSubscription(s) PROVE Accounted'
  <2> DEFINE j == [id |-> s.id, user |-> s.user, targets |-> s.targets]
  <2>1. j \in SubJob /\ s.op \in {"follow", "unfollow"}
    BY DEF TypeOK, Subscription, SubJob
  <2>2. Waiting(subQueue'[s.op]) = Waiting(subQueue[s.op]) \cup {j}
    BY <1>10, <2>1, WaitingAppend DEF TypeOK, EnqueueSubscription
  <2>3. \A q \in {"follow", "unfollow"} \ {s.op} : subQueue'[q] = subQueue[q]
    BY <1>10 DEF TypeOK, EnqueueSubscription
  <2>4. \A q \in {"follow", "unfollow"} : \A k \in Waiting(subQueue'[q]) :
           \A t \in k.targets : <<k.user, t>> \in Asked(q)
    <3>1. j.user = s.user /\ j.targets = s.targets
      OBVIOUS
    <3> HIDE DEF j
    <3> QED
      BY <1>0, <2>1, <2>2, <2>3, <3>1 DEF SubscriptionsAccounted
  <2>5. subscribing' \subseteq subscribing
    BY <1>10 DEF EnqueueSubscription
  <2>6. SubscriptionsAccounted'
    BY <1>0, <2>4, <2>5, ReasonsLast DEF SubscriptionsAccounted
  <2> QED
    BY <1>10, <2>6, RestAccounted DEF Accounted, EnqueueSubscription
<1>11. ASSUME NEW h \in Hosts, NEW g \in Groups, StartFanout(h, g) PROVE Accounted'
  <2> DEFINE j == Head(fanoutQueue[g])
  <2>1. j \in Waiting(fanoutQueue[g]) /\ Waiting(fanoutQueue'[g]) \subseteq Waiting(fanoutQueue[g])
    BY <1>11, WaitingHead DEF TypeOK, StartFanout, Served
  <2>2. \A i \in Groups \ {g} : fanoutQueue'[i] = fanoutQueue[i]
    BY <1>11 DEF TypeOK, StartFanout
  <2>3. \A f \in fanouts' \ fanouts : f.op = j.op /\ f.act = j.act /\ f.todo \subseteq j.ids
    BY <1>11 DEF StartFanout, FirstChunk
  <2>4. \A f \in fanouts' : \A v \in f.todo : Justified(f.op, v, f.act)
    BY <1>0, <2>1, <2>3 DEF FanoutsAccounted
  <2>5. \A i \in Groups : \A k \in Waiting(fanoutQueue'[i]) :
           \A v \in k.ids : Justified(k.op, v, k.act)
    BY <1>0, <2>1, <2>2 DEF FanoutsAccounted
  <2>6. FanoutsAccounted'
    BY <2>4, <2>5, ReasonsLast DEF FanoutsAccounted
  <2> QED
    BY <1>11, <2>6, RestAccounted DEF Accounted, StartFanout
<1>12. ASSUME NEW h \in Hosts, StartFollow(h) PROVE Accounted'
  <2> DEFINE j == NextSubJob("follow")
             new == [id |-> j.id, host |-> h, user |-> j.user, left |-> j.targets,
                     at |-> "read", found |-> {}]
  <2>1. /\ j \in Waiting(subQueue["follow"])
        /\ Waiting(subQueue'["follow"]) \subseteq Waiting(subQueue["follow"])
        /\ subQueue'["unfollow"] = subQueue["unfollow"]
    BY <1>12, WaitingHead DEF TypeOK, StartFollow, NextSubJob
  <2>2. followJobs' = followJobs \cup {new}
    BY <1>12 DEF StartFollow
  <2>3. CopiesAccounted'
    BY <1>0, <2>1, <2>2, ReasonsLast, RecordGrows
       DEF CopiesAccounted, SubscriptionsAccounted, Asked
  <2>4. SubscriptionsAccounted'
    BY <1>0, <1>12, <2>1, ReasonsLast DEF SubscriptionsAccounted, StartFollow
  <2> QED
    BY <1>12, <2>3, <2>4, RestAccounted DEF Accounted, StartFollow
<1>13. ASSUME NEW h \in Hosts, StartUnfollow(h) PROVE Accounted'
  <2> DEFINE j == NextSubJob("unfollow")
             new == [id |-> j.id, host |-> h, user |-> j.user, targets |-> j.targets,
                     at |-> "trim", left |-> {}]
  <2>1. /\ j \in Waiting(subQueue["unfollow"])
        /\ Waiting(subQueue'["unfollow"]) \subseteq Waiting(subQueue["unfollow"])
        /\ subQueue'["follow"] = subQueue["follow"]
    BY <1>13, WaitingHead DEF TypeOK, StartUnfollow, NextSubJob
  <2>2. unfollowJobs' = unfollowJobs \cup {new}
    BY <1>13 DEF StartUnfollow
  <2>3. RemovalsAccounted'
    BY <1>0, <2>1, <2>2, ReasonsLast, RecordGrows
       DEF RemovalsAccounted, SubscriptionsAccounted, Asked
  <2>4. SubscriptionsAccounted'
    BY <1>0, <1>13, <2>1, ReasonsLast DEF SubscriptionsAccounted, StartUnfollow
  <2> QED
    BY <1>13, <2>3, <2>4, RestAccounted DEF Accounted, StartUnfollow
<1>14. ASSUME NEW h \in Hosts, CrashHost(h) PROVE Accounted'
  BY <1>14, RestAccounted DEF Accounted, CrashHost
<1>15. ASSUME NEW f \in fanouts, NEW v \in f.todo, FanoutTo(f, v) PROVE Accounted'
  <2>1. f \in Fanout
    BY DEF TypeOK
  <2>2. \A i \in fanouts' \ fanouts : i.op = f.op /\ i.act = f.act /\ i.todo \subseteq f.todo
    <3> DEFINE new == [f EXCEPT !.todo = @ \ {v}, !.fresh = FALSE]
    <3>1. fanouts' \subseteq fanouts \cup {new}
      BY <1>15 DEF FanoutTo, Replace
    <3>2. new.op = f.op /\ new.act = f.act /\ new.todo \subseteq f.todo
      BY <2>1 DEF Fanout
    <3> QED
      BY <3>1, <3>2
  <2>3. FanoutsAccounted'
    BY <1>0, <1>15, <2>2, ReasonsLast DEF FanoutsAccounted, FanoutTo
  <2>4. f.op = "add" => Solicited(v, f.act)
    BY <1>0 DEF FanoutsAccounted, Justified
  <2>5. \A u \in Users : \A a \in timeline'[u] :
           a \in timeline[u] \/ (u = v /\ a = f.act /\ f.op = "add")
    <3>1. timeline'[v] = Apply(f.op, timeline[v], f.act)
      BY <1>15, <2>1 DEF TypeOK, FanoutTo, Fanout
    <3>2. \A u \in Users \ {v} : timeline'[u] = timeline[u]
      BY <1>15 DEF TypeOK, FanoutTo
    <3> QED
      BY <3>1, <3>2 DEF Apply
  <2>6. NothingUnsolicited'
    BY <1>0, <2>4, <2>5, ReasonsLast DEF NothingUnsolicited, TimelinesAccounted
  <2>7. TimelinesAccounted'
    BY <1>0, <1>15, <2>6 DEF TimelinesAccounted, FanoutTo
  <2> QED
    BY <1>15, <2>3, <2>7, RestAccounted DEF Accounted, FanoutTo
<1>16. ASSUME NEW t \in trims, TrimTimeline(t) PROVE Accounted'
  <2>1. \A u \in Users : timeline'[u] \subseteq timeline[u]
    BY <1>16, NewestIsPart DEF TypeOK, TrimTimeline
  <2> QED
    BY <1>16, <2>1, RestAccounted DEF Accounted, TrimTimeline
<1>17. ASSUME NEW j \in followJobs, NEW t \in j.left, ReadTarget(j, t) PROVE Accounted'
  <2> DEFINE page == Newest(timeline[t], FollowLimit)
             new == [j EXCEPT !.left = @ \ {t}, !.found = @ \cup CopiedFrom(t, page)]
  <2>1. j \in FollowJob /\ t \in Users
    BY DEF TypeOK, FollowJob
  <2>2. /\ new.user = j.user /\ new.left = j.left \ {t}
        /\ new.found = j.found \cup CopiedFrom(t, page)
    BY <2>1 DEF FollowJob
  <2>3. \A a \in CopiedFrom(t, page) : Solicited(j.user, a)
    BY <1>0, <2>1 DEF CopiesAccounted, CopiedFrom, Solicited
  <2>4. followJobs' \subseteq followJobs \cup {new}
    BY <1>17 DEF ReadTarget, Replace
  <2>5. CopiesAccounted'
    BY <1>0, <2>2, <2>3, <2>4, ReasonsLast, RecordGrows DEF CopiesAccounted
  <2> QED
    BY <1>17, <2>5, RestAccounted DEF Accounted, ReadTarget
<1>18. ASSUME NEW j \in followJobs, FinishReading(j) PROVE Accounted'
  <2> DEFINE new == [j EXCEPT !.at = "write"]
  <2>1. j \in FollowJob
    BY DEF TypeOK
  <2>2. new.user = j.user /\ new.left = j.left /\ new.found = j.found
    BY <2>1 DEF FollowJob
  <2>3. followJobs' \subseteq followJobs \cup {new}
    BY <1>18 DEF FinishReading, Replace
  <2>4. CopiesAccounted'
    BY <1>0, <2>2, <2>3, ReasonsLast, RecordGrows DEF CopiesAccounted
  <2> QED
    BY <1>18, <2>4, RestAccounted DEF Accounted, FinishReading
<1>19. ASSUME NEW j \in followJobs, NEW batch \in SUBSET j.found, CopyBatch(j, batch)
       PROVE  Accounted'
  <2> DEFINE new == [j EXCEPT !.found = @ \ batch]
  <2>1. j \in FollowJob
    BY DEF TypeOK
  <2>2. new.user = j.user /\ new.left = j.left /\ new.found \subseteq j.found
    BY <2>1 DEF FollowJob
  <2>3. followJobs' \subseteq followJobs \cup {new}
    BY <1>19 DEF CopyBatch, Replace
  <2>4. CopiesAccounted'
    BY <1>0, <2>2, <2>3, ReasonsLast, RecordGrows DEF CopiesAccounted
  <2>5. \A v \in Users : \A a \in timeline'[v] :
           a \in timeline[v] \/ (v = j.user /\ a \in j.found)
    <3>1. timeline'[j.user] = timeline[j.user] \cup batch
      BY <1>19, <2>1 DEF TypeOK, CopyBatch, FollowJob
    <3>2. \A v \in Users \ {j.user} : timeline'[v] = timeline[v]
      BY <1>19 DEF TypeOK, CopyBatch
    <3> QED
      BY <3>1, <3>2
  <2>6. NothingUnsolicited'
    BY <1>0, <2>5, ReasonsLast DEF NothingUnsolicited, TimelinesAccounted, CopiesAccounted
  <2>7. TimelinesAccounted'
    BY <1>0, <1>19, <2>6 DEF TimelinesAccounted, CopyBatch
  <2> QED
    BY <1>19, <2>4, <2>7, RestAccounted DEF Accounted, CopyBatch
<1>20. ASSUME NEW j \in unfollowJobs, TrimBeforeUnfollow(j) PROVE Accounted'
  <2> DEFINE new == [j EXCEPT !.at = "read"]
  <2>1. j \in UnfollowJob
    BY DEF TypeOK
  <2>2. new.user = j.user /\ new.targets = j.targets /\ new.left = j.left
    BY <2>1 DEF UnfollowJob
  <2>3. unfollowJobs' \subseteq unfollowJobs \cup {new}
    BY <1>20 DEF TrimBeforeUnfollow, Replace
  <2>4. RemovalsAccounted'
    BY <1>0, <2>2, <2>3, ReasonsLast, RecordGrows DEF RemovalsAccounted
  <2>5. \A u \in Users : timeline'[u] \subseteq timeline[u]
    BY <1>20, NewestIsPart DEF TypeOK, TrimBeforeUnfollow
  <2> QED
    BY <1>20, <2>4, <2>5, RestAccounted DEF Accounted, TrimBeforeUnfollow
<1>21. ASSUME NEW j \in unfollowJobs, ReadOwnFeed(j) PROVE Accounted'
  <2> DEFINE page == Newest(timeline[j.user], MaxLength)
             hits == RemovedFrom(j.targets, page)
             new == [j EXCEPT !.at = "remove", !.left = hits]
  <2>1. j \in UnfollowJob
    BY DEF TypeOK
  <2>2. new.user = j.user /\ new.targets = j.targets /\ new.left = hits
    BY <2>1 DEF UnfollowJob
  <2>3. unfollowJobs' \subseteq unfollowJobs \cup {new}
    BY <1>21 DEF ReadOwnFeed, Replace
  <2>4. \A a \in hits : Unfollowed(j.user, a)
    BY <1>0, <2>1 DEF RemovedFrom, RemovalsAccounted, Unfollowed, UnfollowJob
  <2>5. RemovalsAccounted'
    BY <1>0, <2>2, <2>3, <2>4, ReasonsLast, RecordGrows DEF RemovalsAccounted
  <2> QED
    BY <1>21, <2>5, RestAccounted DEF Accounted, ReadOwnFeed
<1>22. ASSUME NEW j \in unfollowJobs, NEW a \in j.left, RemoveOne(j, a) PROVE Accounted'
  <2> DEFINE new == [j EXCEPT !.left = @ \ {a}]
  <2>1. j \in UnfollowJob
    BY DEF TypeOK
  <2>2. new.user = j.user /\ new.targets = j.targets /\ new.left \subseteq j.left
    BY <2>1 DEF UnfollowJob
  <2>3. unfollowJobs' \subseteq unfollowJobs \cup {new}
    BY <1>22 DEF RemoveOne, Replace
  <2>4. RemovalsAccounted'
    BY <1>0, <2>2, <2>3, ReasonsLast, RecordGrows DEF RemovalsAccounted
  <2>5. \A u \in Users : timeline'[u] \subseteq timeline[u]
    BY <1>22 DEF TypeOK, RemoveOne
  <2> QED
    BY <1>22, <2>4, <2>5, RestAccounted DEF Accounted, RemoveOne
<1>23. CASE CrashCaller
  BY <1>23, RestAccounted DEF Accounted, CrashCaller
<1>24. CASE UNCHANGED vars
  BY <1>24, RestAccounted DEF Accounted, vars
<1> QED
  BY <1>1, <1>2, <1>3, <1>4, <1>5, <1>6, <1>7, <1>8, <1>9, <1>10, <1>11, <1>12,
     <1>13, <1>14, <1>15, <1>16, <1>17, <1>18, <1>19, <1>20, <1>21, <1>22, <1>23,
     <1>24, NextCases

\* No timeline ever shows its user what he did not ask for, the copies the follow
\* worker makes of other users' feeds included.
THEOREM NothingUnasked == Spec => []NothingUnsolicited
<1>1. Init => TypeOK /\ Accounted
  BY InitTypeOK, InitAccounted
<1>2. TypeOK /\ Accounted /\ [Next]_vars => TypeOK' /\ Accounted'
  BY StepTypeOK, StepAccounted
<1>3. Accounted => NothingUnsolicited
  BY DEF Accounted, TimelinesAccounted
<1> QED
  BY <1>1, <1>2, <1>3, PTL DEF Spec

-----------------------------------------------------------------------------
(* Whatever disappears is accounted for *)

StoreIsFinite == IsFiniteSet(store)

LEMMA StepStoreIsFinite == ASSUME StoreIsFinite, [Next]_vars PROVE StoreIsFinite'
<1>1. ASSUME NEW p \in posting, InsertActivity(p) PROVE StoreIsFinite'
  BY <1>1, FS_AddElement DEF InsertActivity, StoreIsFinite
<1>2. ASSUME store' = store PROVE StoreIsFinite'
  BY <1>2 DEF StoreIsFinite
<1> QED
  BY <1>1, <1>2, NextCases
     DEF AddUserActivity, RemoveUserActivity, PostAs, UpdateUserFeed,
         GetUserFollowerIds, FinishPosting, EnqueueFanout, FollowManyUsers,
         UnfollowManyUsers, Subscribe, EnqueueSubscription, StartFanout, StartFollow,
         StartUnfollow, CrashHost, FanoutTo, TrimTimeline, ReadTarget, FinishReading,
         CopyBatch, TrimBeforeUnfollow, ReadOwnFeed, RemoveOne, CrashCaller, vars

Outranked(v, a) == Cardinality({b \in timeline[v] : TimeOf[b] > TimeOf[a]}) >= MaxLength

\* A timeline is finite, being part of the store: what a trim takes off it has
\* MaxLength newer activities above it.
LEMMA TrimmedIsOutranked ==
  ASSUME Hydratable, StoreIsFinite, NEW v \in Users,
         NEW a \in timeline[v] \ Newest(timeline[v], MaxLength)
  PROVE  Outranked(v, a)
<1> DEFINE above == {b \in timeline[v] : TimeOf[b] > TimeOf[a]}
<1>1. above \subseteq store
  BY DEF Hydratable
<1>2. Cardinality(above) \in Nat
  BY <1>1, FS_Subset, FS_CardinalityType DEF StoreIsFinite
<1>3. ~ (Cardinality(above) < MaxLength)
  BY DEF Newest
<1>4. MaxLength \in Nat
  BY ConstantsAssumption
<1> HIDE DEF above
<1>5. Cardinality(above) >= MaxLength
  BY <1>2, <1>3, <1>4
<1> QED
  BY <1>5 DEF Outranked, above

LEMMA StepLosesNothing ==
  ASSUME TypeOK, Backed, Accounted, StoreIsFinite, [Next]_vars,
         NEW v \in Users, NEW a \in timeline[v] \ timeline'[v]
  PROVE  Withdrawn(v, a) \/ Unfollowed(v, a) \/ Outranked(v, a)
<1> DEFINE Explained == Withdrawn(v, a) \/ Unfollowed(v, a) \/ Outranked(v, a)
<1>1. ASSUME NEW p \in posting, UpdateUserFeed(p) PROVE Explained
  <2>1. p \in Posting
    BY DEF TypeOK
  <2>2. p.user = v /\ p.act = a /\ p.op # "add"
    <3>1. timeline'[p.user] = Apply(p.op, timeline[p.user], p.act)
      BY <1>1, <2>1 DEF TypeOK, UpdateUserFeed, Posting
    <3>2. \A u \in Users \ {p.user} : timeline'[u] = timeline[u]
      BY <1>1 DEF TypeOK, UpdateUserFeed
    <3> QED
      BY <3>1, <3>2 DEF Apply
  <2>3. <<v, a>> \in past.withdrawn
    BY <2>2 DEF Accounted, PostingsAccounted
  <2> QED
    BY <2>3 DEF Withdrawn
<1>2. ASSUME NEW f \in fanouts, NEW u \in f.todo, FanoutTo(f, u) PROVE Explained
  <2>1. f \in Fanout
    BY DEF TypeOK
  <2>2. u = v /\ f.act = a /\ f.op # "add"
    <3>1. timeline'[u] = Apply(f.op, timeline[u], f.act)
      BY <1>2, <2>1 DEF TypeOK, FanoutTo, Fanout
    <3>2. \A w \in Users \ {u} : timeline'[w] = timeline[w]
      BY <1>2 DEF TypeOK, FanoutTo
    <3> QED
      BY <3>1, <3>2 DEF Apply
  <2> QED
    BY <2>2 DEF Accounted, FanoutsAccounted, Justified
<1>3. ASSUME NEW t \in trims, TrimTimeline(t) PROVE Explained
  <2>1. timeline'[v] = timeline[v] \/ timeline'[v] = Newest(timeline[v], MaxLength)
    BY <1>3 DEF TypeOK, TrimTimeline
  <2> QED
    BY <2>1, TrimmedIsOutranked DEF Backed
<1>4. ASSUME NEW j \in unfollowJobs, TrimBeforeUnfollow(j) PROVE Explained
  <2>1. timeline'[v] = timeline[v] \/ timeline'[v] = Newest(timeline[v], MaxLength)
    BY <1>4 DEF TypeOK, TrimBeforeUnfollow
  <2> QED
    BY <2>1, TrimmedIsOutranked DEF Backed
<1>5. ASSUME NEW j \in unfollowJobs, NEW b \in j.left, RemoveOne(j, b) PROVE Explained
  <2>1. j.user = v /\ b = a
    BY <1>5 DEF TypeOK, RemoveOne
  <2> QED
    BY <2>1 DEF Accounted, RemovalsAccounted
<1>6. ASSUME NEW j \in followJobs, NEW batch \in SUBSET j.found, CopyBatch(j, batch)
      PROVE  FALSE
  BY <1>6 DEF TypeOK, CopyBatch
<1>7. timeline' # timeline
  OBVIOUS
<1> QED
  BY <1>1, <1>2, <1>3, <1>4, <1>5, <1>6, <1>7, NextCases
     DEF AddUserActivity, RemoveUserActivity, PostAs, InsertActivity,
         GetUserFollowerIds, FinishPosting, EnqueueFanout, FollowManyUsers,
         UnfollowManyUsers, Subscribe, EnqueueSubscription, StartFanout, StartFollow,
         StartUnfollow, CrashHost, ReadTarget, FinishReading, ReadOwnFeed, CrashCaller,
         vars

\* No step, of whichever call, worker, trim or crash, takes an activity from a
\* timeline without one of the three reasons for it.
THEOREM LossesAreExplained == Spec => NothingLost
<1> DEFINE Inv == TypeOK /\ Backed /\ Accounted /\ StoreIsFinite
<1>1. Init => Inv
  BY InitTypeOK, InitBacked, InitAccounted, FS_EmptySet DEF Init, StoreIsFinite
<1>2. Inv /\ [Next]_vars => Inv'
  BY StepTypeOK, StepBacked, StepAccounted, StepStoreIsFinite
<1>3. Inv /\ [Next]_vars =>
        [\A v \in Users : \A a \in timeline[v] \ timeline'[v] :
           \/ Withdrawn(v, a)
           \/ Unfollowed(v, a)
           \/ Cardinality({b \in timeline[v] : TimeOf[b] > TimeOf[a]}) >= MaxLength]_vars
  BY StepLosesNothing DEF Outranked
<1> QED
  BY <1>1, <1>2, <1>3, PTL DEF Spec, NothingLost
==============================================================================
