------------------------------ MODULE FeedTasks ------------------------------
(***************************************************************************)
(* The feed manager and its background tasks, over Redis.                  *)
(*                                                                         *)
(* A manager call (addUserActivity, removeUserActivity, followManyUsers,   *)
(* unfollowManyUsers) is a sequence of awaited requests to Redis, so the   *)
(* calls of one or several application processes interleave request by     *)
(* request.  A call leaves jobs in three BullMQ queues; the workers of     *)
(* every host take jobs from them, and what a job does to the timelines is *)
(* again a sequence of requests.  The fanout worker does not await the     *)
(* fanout it starts, so any number of fanouts are in flight on one host.   *)
(*                                                                         *)
(* The personal feed of a user (UserBaseFeed) and the feed he reads        *)
(* (RedisFeed) are one sorted set: the key of a feed is computed by the    *)
(* constructor of BaseFeed, before the keyFormat of a subclass is          *)
(* assigned.  timeline[u] is that set.                                     *)
(*                                                                         *)
(* A definition marked "slip" is the one after it with a plausible mistake *)
(* in it.  No action uses it; it shows that a property can fail.           *)
(***************************************************************************)
EXTENDS Naturals, Sequences, FiniteSets

CONSTANTS
  Users,         \* the users, each with a timeline
  Activities,    \* the activities (a serializationId, a uuid v1, each)
  Others,        \* ids an actor or a target may have that are no user's
  Null,          \* the target of an activity without one
  Actor,         \* actor of an activity, its "prefix:" split off
  Target,        \* target of an activity, its "prefix:" split off, or Null
  TimeOf,        \* the score of an activity in a sorted set (v1time of its id)
  Legible,       \* the activities ActivitySerializer.loads can read back
  Hosts,         \* the processes that run the three workers
  Groups,        \* the priority groups of getUserFollowerIds
  GroupOf,       \* the group in which the application lists a follower
  Priority,      \* priorityMapping; BullMQ serves the smallest number first
  Posts,         \* the <<user, activity>> the application adds and removes
  Follows,       \* the <<user, targets>> it makes follow and unfollow
  MaxLength,     \* maxLength of a RedisFeed
  FollowLimit,   \* follow_activity_limit
  ChunkSize,     \* fanoutChunkSize
  ZAddSize,      \* how many members one zAdd carries
  TrimDraws,     \* outcomes of Math.random() <= trimChance
  MaxCalls,      \* bound: manager calls made
  MaxCrashes     \* bound: processes that crash

ASSUME ConstantsAssumption ==
  /\ Null \notin Users \cup Others
  /\ Actor \in [Activities -> Users \cup Others]
  /\ Target \in [Activities -> Users \cup Others \cup {Null}]
  /\ TimeOf \in [Activities -> Nat]
  /\ \A a, b \in Activities : TimeOf[a] = TimeOf[b] => a = b
  /\ Legible \subseteq Activities
  /\ GroupOf \in [Users -> Groups]
  /\ Priority \in [Groups -> Nat]
  /\ Posts \subseteq Users \X Activities
  /\ Follows \subseteq Users \X SUBSET Users
  /\ {MaxLength, FollowLimit, ChunkSize, ZAddSize} \subseteq Nat \ {0}
  /\ TrimDraws \subseteq BOOLEAN
  /\ {MaxCalls, MaxCrashes} \subseteq Nat

VARIABLES
  followers,     \* the application's data behind getUserFollowerIds
  store,         \* the activity storage: ids of the activities it holds
  timeline,      \* the sorted set of every user
  posting,       \* addUserActivity and removeUserActivity calls under way
  subscribing,   \* followManyUsers and unfollowManyUsers calls under way
  fanoutQueue,   \* the fanout queue, by priority group
  subQueue,      \* followManyQueue and unfollowManyQueue
  fanouts,       \* fanouts in flight: nobody awaits them
  started,       \* fanouts started so far; numbers them
  followJobs,    \* jobs of the follow workers, at most one per host
  unfollowJobs,  \* jobs of the unfollow workers, at most one per host
  trims,         \* trims in flight: nobody awaits them
  calls,         \* manager calls made so far; numbers them
  crashes,       \* processes crashed so far
  past           \* history: what the application has asked for so far

vars == <<followers, store, timeline, posting, subscribing, fanoutQueue,
          subQueue, fanouts, started, followJobs, unfollowJobs, trims, calls,
          crashes, past>>

-----------------------------------------------------------------------------
(* Data *)

Posting ==
  [id : Nat, op : {"add", "remove"}, user : Users, act : Activities,
   at : {"insert", "timeline", "lookup", "enqueue"},
   to : [Groups -> SUBSET Users]]

Subscription ==
  [id : Nat, op : {"follow", "unfollow"}, user : Users, targets : SUBSET Users]

FanoutJob ==
  [id : Nat, op : {"add", "remove"}, act : Activities, ids : SUBSET Users]

SubJob == [id : Nat, user : Users, targets : SUBSET Users]

Fanout ==
  [id : Nat, no : Nat, host : Hosts, op : {"add", "remove"}, act : Activities,
   todo : SUBSET Users, fresh : BOOLEAN]

FollowJob ==
  [id : Nat, host : Hosts, user : Users, left : SUBSET Users,
   at : {"read", "write"}, found : SUBSET Activities]

UnfollowJob ==
  [id : Nat, host : Hosts, user : Users, targets : SUBSET Users,
   at : {"trim", "read", "remove"}, left : SUBSET Activities]

Trim == [id : Nat, host : Hosts, user : Users]

\* What the application has asked for: posted and withdrawn pairs of a user
\* and an activity (live: posted and not withdrawn since), followed and
\* unfollowed pairs of a user and a target.
Past ==
  [posted : SUBSET (Users \X Activities), withdrawn : SUBSET (Users \X Activities),
   live : SUBSET (Users \X Activities),
   followed : SUBSET (Users \X Users), unfollowed : SUBSET (Users \X Users)]

TypeOK ==
  /\ followers \in [Users -> SUBSET Users]
  /\ store \in SUBSET Activities
  /\ timeline \in [Users -> SUBSET Activities]
  /\ posting \in SUBSET Posting
  /\ subscribing \in SUBSET Subscription
  /\ fanoutQueue \in [Groups -> Seq(FanoutJob)]
  /\ subQueue \in [{"follow", "unfollow"} -> Seq(SubJob)]
  /\ fanouts \in SUBSET Fanout
  /\ started \in Nat
  /\ followJobs \in SUBSET FollowJob
  /\ unfollowJobs \in SUBSET UnfollowJob
  /\ trims \in SUBSET Trim
  /\ calls \in Nat
  /\ crashes \in Nat
  /\ past \in Past

Init ==
  /\ followers = [u \in Users |-> {}]
  /\ store = {}
  /\ timeline = [u \in Users |-> {}]
  /\ posting = {}
  /\ subscribing = {}
  /\ fanoutQueue = [g \in Groups |-> <<>>]
  /\ subQueue = [q \in {"follow", "unfollow"} |-> <<>>]
  /\ fanouts = {}
  /\ started = 0
  /\ followJobs = {}
  /\ unfollowJobs = {}
  /\ trims = {}
  /\ calls = 0
  /\ crashes = 0
  /\ past = [posted |-> {}, withdrawn |-> {}, live |-> {},
             followed |-> {}, unfollowed |-> {}]

Smaller(m, n) == IF m <= n THEN m ELSE n

Replace(S, old, new) == (S \ {old}) \cup {new}

\* What TimelineCache.trim(n) leaves and getResults(0, n) returns: the n members
\* with the highest scores.
\* Slip: the other end of the ranks.
NewestByWrongEnd(S, n) ==
  {a \in S : Cardinality({b \in S : TimeOf[b] < TimeOf[a]}) < n}
Newest(S, n) ==
  {a \in S : Cardinality({b \in S : TimeOf[b] > TimeOf[a]}) < n}

\* The filter of the follow worker, and of the unfollow worker.
About(a, t) == Actor[a] = t \/ Target[a] = t

\* getItem returns null for a page with an activity the storage does not hold, or
\* whose context the serializer cannot parse back (it has a comma in it), and
\* splitId(null) throws for one without a target: the job fails.
Readable(page) ==
  page \subseteq store \cap Legible /\ \A a \in page : Target[a] # Null

-----------------------------------------------------------------------------
(* addUserActivity and removeUserActivity, one request at a time *)

NobodyToServe == [g \in Groups |-> {}]

PostAs(op, first, u, a) ==
  /\ calls < MaxCalls
  /\ calls' = calls + 1
  /\ posting' = posting \cup {[id |-> calls, op |-> op, user |-> u, act |-> a,
                               at |-> first, to |-> NobodyToServe]}
  /\ UNCHANGED <<followers, store, timeline, subscribing, fanoutQueue, subQueue,
                 fanouts, started, followJobs, unfollowJobs, trims, crashes>>

\* The application makes one call at a time about one activity of one feed.
NoCallAbout(u, a) == ~ \E p \in posting : p.user = u /\ p.act = a

\* Slip: the activity is not stored.
AddUserActivityUnstored(u, a) ==
  /\ <<u, a>> \in Posts
  /\ NoCallAbout(u, a)
  /\ PostAs("add", "timeline", u, a)
  /\ past' = [past EXCEPT !.posted = @ \cup {<<u, a>>}, !.live = @ \cup {<<u, a>>}]

AddUserActivity(u, a) ==
  /\ <<u, a>> \in Posts
  /\ NoCallAbout(u, a)
  /\ PostAs("add", "insert", u, a)
  /\ past' = [past EXCEPT !.posted = @ \cup {<<u, a>>}, !.live = @ \cup {<<u, a>>}]

RemoveUserActivity(u, a) ==
  /\ <<u, a>> \in past.live
  /\ NoCallAbout(u, a)
  /\ PostAs("remove", "timeline", u, a)
  /\ past' = [past EXCEPT !.withdrawn = @ \cup {<<u, a>>}, !.live = @ \ {<<u, a>>}]

\* insertActivity: the storage holds the activity from here on; nothing in the
\* manager removes it.
InsertActivity(p) ==
  /\ p.at = "insert"
  /\ store' = store \cup {p.act}
  /\ posting' = Replace(posting, p, [p EXCEPT !.at = "timeline"])
  /\ UNCHANGED <<followers, timeline, subscribing, fanoutQueue, subQueue,
                 fanouts, started, followJobs, unfollowJobs, trims, calls,
                 crashes, past>>

\* Slip: the serializer returns another field than the id.
ApplyToActor(op, S, a) == IF op = "add" THEN S \cup {Actor[a]} ELSE S \ {Actor[a]}

Apply(op, S, a) == IF op = "add" THEN S \cup {a} ELSE S \ {a}

\* userFeed.add or userFeed.remove.  They may trim to the maxLength of a
\* UserBaseFeed, a million: no timeline here comes near it.
UpdateUserFeed(p) ==
  /\ p.at = "timeline"
  /\ timeline' = [timeline EXCEPT ![p.user] = Apply(p.op, @, p.act)]
  /\ posting' = Replace(posting, p, [p EXCEPT !.at = "lookup"])
  /\ UNCHANGED <<followers, store, subscribing, fanoutQueue, subQueue, fanouts,
                 started, followJobs, unfollowJobs, trims, calls, crashes, past>>

FollowerGroups(u) == [g \in Groups |-> {v \in followers[u] : GroupOf[v] = g}]

\* getUserFollowerIds: the followers as of now, whatever happens to them later.
GetUserFollowerIds(p) ==
  /\ p.at = "lookup"
  /\ posting' = Replace(posting, p, [p EXCEPT !.at = "enqueue",
                                              !.to = FollowerGroups(p.user)])
  /\ UNCHANGED <<followers, store, timeline, subscribing, fanoutQueue, subQueue,
                 fanouts, started, followJobs, unfollowJobs, trims, calls,
                 crashes, past>>

\* Slip: the loop over the groups returns in its first iteration.
EnqueueFirstGroup(p, g) ==
  /\ p.at = "enqueue"
  /\ p.to[g] # {}
  /\ fanoutQueue' = [fanoutQueue EXCEPT ![g] =
       Append(@, [id |-> p.id, op |-> p.op, act |-> p.act, ids |-> p.to[g]])]
  /\ posting' = posting \ {p}
  /\ UNCHANGED <<followers, store, timeline, subscribing, subQueue, fanouts,
                 started, followJobs, unfollowJobs, trims, calls, crashes, past>>

\* One job per priority group.  A job for no followers does nothing and is left
\* out.
EnqueueFanout(p, g) ==
  /\ p.at = "enqueue"
  /\ p.to[g] # {}
  /\ fanoutQueue' = [fanoutQueue EXCEPT ![g] =
       Append(@, [id |-> p.id, op |-> p.op, act |-> p.act, ids |-> p.to[g]])]
  /\ posting' = Replace(posting, p, [p EXCEPT !.to[g] = {}])
  /\ UNCHANGED <<followers, store, timeline, subscribing, subQueue, fanouts,
                 started, followJobs, unfollowJobs, trims, calls, crashes, past>>

FinishPosting(p) ==
  /\ p.at = "enqueue"
  /\ p.to = NobodyToServe
  /\ posting' = posting \ {p}
  /\ UNCHANGED <<followers, store, timeline, subscribing, fanoutQueue, subQueue,
                 fanouts, started, followJobs, unfollowJobs, trims, calls,
                 crashes, past>>

-----------------------------------------------------------------------------
(* followManyUsers and unfollowManyUsers: the application changes its own    *)
(* follower data and calls the manager, which only adds a job.               *)

Subscribe(op, v, T) ==
  /\ calls < MaxCalls
  /\ calls' = calls + 1
  /\ subscribing' = subscribing \cup
       {[id |-> calls, op |-> op, user |-> v, targets |-> T]}
  /\ UNCHANGED <<store, timeline, posting, fanoutQueue, subQueue, fanouts,
                 started, followJobs, unfollowJobs, trims, crashes>>

FollowManyUsers(v, T) ==
  /\ <<v, T>> \in Follows
  /\ \E t \in T : v \notin followers[t]
  /\ Subscribe("follow", v, T)
  /\ followers' = [t \in Users |-> IF t \in T THEN followers[t] \cup {v}
                                   ELSE followers[t]]
  /\ past' = [past EXCEPT !.followed = @ \cup ({v} \X T)]

UnfollowManyUsers(v, T) ==
  /\ <<v, T>> \in Follows
  /\ \A t \in T : v \in followers[t]
  /\ Subscribe("unfollow", v, T)
  /\ followers' = [t \in Users |-> IF t \in T THEN followers[t] \ {v}
                                   ELSE followers[t]]
  /\ past' = [past EXCEPT !.unfollowed = @ \cup ({v} \X T)]

EnqueueSubscription(s) ==
  /\ subQueue' = [subQueue EXCEPT ![s.op] =
       Append(@, [id |-> s.id, user |-> s.user, targets |-> s.targets])]
  /\ subscribing' = subscribing \ {s}
  /\ UNCHANGED <<followers, store, timeline, posting, fanoutQueue, fanouts,
                 started, followJobs, unfollowJobs, trims, calls, crashes, past>>

-----------------------------------------------------------------------------
(* The fanout worker *)

\* The job BullMQ hands out next: smallest priority number first, then FIFO.
Served(g) ==
  /\ fanoutQueue[g] # <<>>
  /\ \A g2 \in Groups : fanoutQueue[g2] # <<>> => Priority[g] <= Priority[g2]

\* The loop over the chunks of followerIds returns in its first iteration: the
\* first chunk is all a job serves.  The application orders the followers.
FirstChunk(ids) ==
  {C \in SUBSET ids : Cardinality(C) = Smaller(ChunkSize, Cardinality(ids))}

\* The worker starts the fanout and, not awaiting it, is done with the job.
StartFanout(h, g) ==
  /\ Served(g)
  /\ LET j == Head(fanoutQueue[g]) IN
     \E C \in FirstChunk(j.ids) :
       fanouts' = fanouts \cup {[id |-> j.id, no |-> started, host |-> h,
                                 op |-> j.op, act |-> j.act, todo |-> C,
                                 fresh |-> TRUE]}
  /\ started' = started + 1
  /\ fanoutQueue' = [fanoutQueue EXCEPT ![g] = Tail(@)]
  /\ UNCHANGED <<followers, store, timeline, posting, subscribing, subQueue,
                 followJobs, unfollowJobs, trims, calls, crashes, past>>

\* A trim that addMany or removeMany starts and does not await.
StartTrim(id, h, u) ==
  \E trim \in TrimDraws :
    trims' = IF trim THEN trims \cup {[id |-> id, host |-> h, user |-> u]}
             ELSE trims

\* A host sends the first request of a fanout as it starts it, over one
\* connection: the first requests of its fanouts arrive in that order.  The later
\* ones follow the replies, in any order.
InOrder(f) ==
  ~ \E g \in fanouts : g.host = f.host /\ g.fresh /\ g.no < f.no

\* addOperation (which may trim) or removeOperation (which does not) on the
\* next feed of the chunk.
FanoutTo(f, v) ==
  /\ v \in f.todo
  /\ InOrder(f)
  /\ timeline' = [timeline EXCEPT ![v] = Apply(f.op, @, f.act)]
  /\ IF f.op = "add" THEN StartTrim(f.id, f.host, v) ELSE UNCHANGED trims
  /\ fanouts' = IF f.todo = {v} THEN fanouts \ {f}
                ELSE Replace(fanouts, f, [f EXCEPT !.todo = @ \ {v}, !.fresh = FALSE])
  /\ UNCHANGED <<followers, store, posting, subscribing, fanoutQueue, subQueue,
                 started, followJobs, unfollowJobs, calls, crashes, past>>

\* Slip: the end of the range is off by one.
TrimTightly(t) ==
  /\ timeline' = [timeline EXCEPT ![t.user] = Newest(@, MaxLength - 1)]
  /\ trims' = trims \ {t}
  /\ UNCHANGED <<followers, store, posting, subscribing, fanoutQueue, subQueue,
                 fanouts, started, followJobs, unfollowJobs, calls, crashes,
                 past>>

TrimTimeline(t) ==
  /\ timeline' = [timeline EXCEPT ![t.user] = Newest(@, MaxLength)]
  /\ trims' = trims \ {t}
  /\ UNCHANGED <<followers, store, posting, subscribing, fanoutQueue, subQueue,
                 fanouts, started, followJobs, unfollowJobs, calls, crashes,
                 past>>

-----------------------------------------------------------------------------
(* The follow worker: every read first, then the writes *)

NextSubJob(q) == Head(subQueue[q])

StartFollow(h) ==
  /\ subQueue["follow"] # <<>>
  /\ \A j \in followJobs : j.host # h
  /\ LET j == NextSubJob("follow") IN
     followJobs' = followJobs \cup {[id |-> j.id, host |-> h, user |-> j.user,
                                     left |-> j.targets, at |-> "read", found |-> {}]}
  /\ subQueue' = [subQueue EXCEPT !["follow"] = Tail(@)]
  /\ UNCHANGED <<followers, store, timeline, posting, subscribing, fanoutQueue,
                 fanouts, started, unfollowJobs, trims, calls, crashes, past>>

\* Slips: everything on the page is copied; only what t is the target of is.
CopiedUnfiltered(t, page) == page
CopiedByTarget(t, page) == {a \in page : Target[a] = t}

\* What the follow worker copies of a page of t's feed.
CopiedFrom(t, page) == {a \in page : About(a, t)}

\* getItem(0, follow_activity_limit) of one more target.
ReadTarget(j, t) ==
  LET page == Newest(timeline[t], FollowLimit) IN
  /\ j.at = "read"
  /\ t \in j.left
  /\ followJobs' = IF Readable(page)
                   THEN Replace(followJobs, j,
                          [j EXCEPT !.left = @ \ {t},
                                    !.found = @ \cup CopiedFrom(t, page)])
                   ELSE followJobs \ {j}
  /\ UNCHANGED <<followers, store, timeline, posting, subscribing, fanoutQueue,
                 subQueue, fanouts, started, unfollowJobs, trims, calls,
                 crashes, past>>

\* All targets are read.  addMany([]) throws: with nothing to copy the job fails.
FinishReading(j) ==
  /\ j.at = "read"
  /\ j.left = {}
  /\ followJobs' = IF j.found = {} THEN followJobs \ {j}
                   ELSE Replace(followJobs, j, [j EXCEPT !.at = "write"])
  /\ UNCHANGED <<followers, store, timeline, posting, subscribing, fanoutQueue,
                 subQueue, fanouts, started, unfollowJobs, trims, calls,
                 crashes, past>>

\* One zAdd; after the last one addMany may trim.
CopyBatch(j, batch) ==
  /\ j.at = "write"
  /\ batch \subseteq j.found
  /\ Cardinality(batch) = Smaller(ZAddSize, Cardinality(j.found))
  /\ timeline' = [timeline EXCEPT ![j.user] = @ \cup batch]
  /\ IF batch = j.found
     THEN followJobs' = followJobs \ {j} /\ StartTrim(j.id, j.host, j.user)
     ELSE /\ followJobs' = Replace(followJobs, j, [j EXCEPT !.found = @ \ batch])
          /\ UNCHANGED trims
  /\ UNCHANGED <<followers, store, posting, subscribing, fanoutQueue, subQueue,
                 fanouts, started, unfollowJobs, calls, crashes, past>>

-----------------------------------------------------------------------------
(* The unfollow worker: trim, read, remove one by one *)

StartUnfollow(h) ==
  /\ subQueue["unfollow"] # <<>>
  /\ \A j \in unfollowJobs : j.host # h
  /\ LET j == NextSubJob("unfollow") IN
     unfollowJobs' = unfollowJobs \cup
       {[id |-> j.id, host |-> h, user |-> j.user, targets |-> j.targets,
         at |-> "trim", left |-> {}]}
  /\ subQueue' = [subQueue EXCEPT !["unfollow"] = Tail(@)]
  /\ UNCHANGED <<followers, store, timeline, posting, subscribing, fanoutQueue,
                 fanouts, started, followJobs, trims, calls, crashes, past>>

TrimBeforeUnfollow(j) ==
  /\ j.at = "trim"
  /\ timeline' = [timeline EXCEPT ![j.user] = Newest(@, MaxLength)]
  /\ unfollowJobs' = Replace(unfollowJobs, j, [j EXCEPT !.at = "read"])
  /\ UNCHANGED <<followers, store, posting, subscribing, fanoutQueue, subQueue,
                 fanouts, started, followJobs, trims, calls, crashes, past>>

\* What the unfollow worker removes from a page of the feed.
RemovedFrom(T, page) == {a \in page : \E t \in T : About(a, t)}

\* getItem(0, feed.maxLength); the job fails on a page it cannot read, and is
\* done when there is nothing to remove.
ReadOwnFeed(j) ==
  LET page == Newest(timeline[j.user], MaxLength)
      hits == RemovedFrom(j.targets, page)
  IN
  /\ j.at = "read"
  /\ unfollowJobs' = IF Readable(page) /\ hits # {}
                     THEN Replace(unfollowJobs, j,
                                  [j EXCEPT !.at = "remove", !.left = hits])
                     ELSE unfollowJobs \ {j}
  /\ UNCHANGED <<followers, store, timeline, posting, subscribing, fanoutQueue,
                 subQueue, fanouts, started, followJobs, trims, calls, crashes,
                 past>>

\* One zRem; after the last one removeMany may trim.
RemoveOne(j, a) ==
  /\ j.at = "remove"
  /\ a \in j.left
  /\ timeline' = [timeline EXCEPT ![j.user] = @ \ {a}]
  /\ IF j.left = {a}
     THEN unfollowJobs' = unfollowJobs \ {j} /\ StartTrim(j.id, j.host, j.user)
     ELSE /\ unfollowJobs' = Replace(unfollowJobs, j, [j EXCEPT !.left = @ \ {a}])
          /\ UNCHANGED trims
  /\ UNCHANGED <<followers, store, posting, subscribing, fanoutQueue, subQueue,
                 fanouts, started, followJobs, calls, crashes, past>>

-----------------------------------------------------------------------------
(* Crashes.  Redis keeps its data and the queues; a job that was taken is not *)
(* retried (one attempt, and no QueueScheduler to recover a stalled job).     *)

CrashHost(h) ==
  /\ crashes < MaxCrashes
  /\ crashes' = crashes + 1
  /\ fanouts' = {f \in fanouts : f.host # h}
  /\ followJobs' = {j \in followJobs : j.host # h}
  /\ unfollowJobs' = {j \in unfollowJobs : j.host # h}
  /\ trims' = {t \in trims : t.host # h}
  /\ UNCHANGED <<followers, store, timeline, posting, subscribing, fanoutQueue,
                 subQueue, started, calls, past>>

\* The application process dies with the manager call it has under way.
CrashCaller ==
  /\ crashes < MaxCrashes
  /\ crashes' = crashes + 1
  /\ \/ \E p \in posting : posting' = posting \ {p} /\ UNCHANGED subscribing
     \/ \E s \in subscribing : subscribing' = subscribing \ {s} /\ UNCHANGED posting
  /\ UNCHANGED <<followers, store, timeline, fanoutQueue, subQueue, fanouts,
                 started, followJobs, unfollowJobs, trims, calls, past>>

-----------------------------------------------------------------------------
Caller ==
  \/ \E p \in posting :
       \/ InsertActivity(p)
       \/ UpdateUserFeed(p)
       \/ GetUserFollowerIds(p)
       \/ \E g \in Groups : EnqueueFanout(p, g)
       \/ FinishPosting(p)
  \/ \E s \in subscribing : EnqueueSubscription(s)

Application ==
  \/ \E u \in Users, a \in Activities : AddUserActivity(u, a) \/ RemoveUserActivity(u, a)
  \/ \E f \in Follows : FollowManyUsers(f[1], f[2]) \/ UnfollowManyUsers(f[1], f[2])

FanoutWorker ==
  \/ \E h \in Hosts, g \in Groups : StartFanout(h, g)
  \/ \E f \in fanouts : \E v \in f.todo : FanoutTo(f, v)

FollowWorker ==
  \/ \E h \in Hosts : StartFollow(h)
  \/ \E j \in followJobs :
       \/ \E t \in j.left : ReadTarget(j, t)
       \/ FinishReading(j)
       \/ \E batch \in SUBSET j.found : CopyBatch(j, batch)

UnfollowWorker ==
  \/ \E h \in Hosts : StartUnfollow(h)
  \/ \E j \in unfollowJobs :
       \/ TrimBeforeUnfollow(j)
       \/ ReadOwnFeed(j)
       \/ \E a \in j.left : RemoveOne(j, a)

Trimming == \E t \in trims : TrimTimeline(t)

Crash == CrashCaller \/ \E h \in Hosts : CrashHost(h)

System == Caller \/ FanoutWorker \/ FollowWorker \/ UnfollowWorker \/ Trimming

Next == Application \/ System \/ Crash

Spec == Init /\ [][Next]_vars

\* Node runs every continuation whose request Redis has answered, and a worker
\* that is idle asks for the next job: no step of the system is put off for
\* ever.  Nothing obliges the application to call, or a process to crash.
FairSpec ==
  /\ Spec
  /\ WF_vars(Caller) /\ WF_vars(FanoutWorker) /\ WF_vars(FollowWorker)
  /\ WF_vars(UnfollowWorker) /\ WF_vars(Trimming)

-----------------------------------------------------------------------------
(* Properties *)

\* An activity has a place in v's timeline when v posted it himself, or has
\* followed somebody who posted it or whom it is about.
Solicited(v, a) ==
  \/ <<v, a>> \in past.posted
  \/ \E t \in Users : /\ <<v, t>> \in past.followed
                      /\ <<t, a>> \in past.posted \/ About(a, t)

\* No timeline refers to an activity the storage does not hold, whatever calls,
\* fanouts, copies and crashes interleave: one such reference makes getItem
\* return null for the whole page (hydrateActivities).
Hydratable == \A u \in Users : timeline[u] \subseteq store

\* A user's timeline never shows what he did not ask for.  The feed that a follow
\* copies from holds, since it is the feed its owner reads, activities of everybody
\* the owner follows; the filter of the follow worker must keep these out.
NothingUnsolicited ==
  \A v \in Users : \A a \in timeline[v] : Solicited(v, a)

\* The application has removed the activity from v's feed, or from one v followed.
Withdrawn(v, a) ==
  \E u \in Users : <<u, a>> \in past.withdrawn /\ (u = v \/ <<v, u>> \in past.followed)

\* v has unfollowed somebody the activity is about.
Unfollowed(v, a) == \E t \in Users : <<v, t>> \in past.unfollowed /\ About(a, t)

\* A step takes activity a from v's timeline only because the application has
\* removed it from a feed v reads, or v has unfollowed somebody it is about, or
\* because MaxLength newer activities push it out.
NothingLost ==
  [][\A v \in Users : \A a \in timeline[v] \ timeline'[v] :
       \/ Withdrawn(v, a)
       \/ Unfollowed(v, a)
       \/ Cardinality({b \in timeline[v] : TimeOf[b] > TimeOf[a]}) >= MaxLength]_vars

\* The manager and its workers are, to the application, what FeedDelivery says:
\* whatever interleaves, crashes or is put off, each step that changes a feed shows
\* stored activities its user has asked for, hides one for a reason, or cuts the feed
\* to the newest MaxLength exactly.
Delivery ==
  INSTANCE FeedDelivery WITH
    posted <- past.posted, withdrawn <- past.withdrawn, followed <- past.followed,
    unfollowed <- past.unfollowed, stored <- store, feed <- timeline

Delivers == Delivery!Spec

\* Every follower that getUserFollowerIds returned for an activity being added
\* gets it (as long as no process crashes).
EveryFollowerServed ==
  \A a \in Activities, v \in Users :
    (\E p \in posting : p.op = "add" /\ p.act = a /\ v \in UNION {p.to[g] : g \in Groups})
      ~> (a \in timeline[v])

\* Following t brings into v's feed every activity about t that t's feed holds
\* while the job waits, unless it leaves t's feed before it is read.
FollowCopies ==
  \A f \in Follows : \A t \in f[2] : \A a \in {x \in Activities : About(x, t)} :
    (/\ \E i \in DOMAIN subQueue["follow"] :
          subQueue["follow"][i].user = f[1] /\ t \in subQueue["follow"][i].targets
     /\ a \in timeline[t])
      ~> (a \in timeline[f[1]] \/ a \notin timeline[t])

\* Nothing is under way: every call has returned, every job has been done.
Quiescent ==
  /\ posting = {} /\ subscribing = {} /\ trims = {}
  /\ \A g \in Groups : fanoutQueue[g] = <<>>
  /\ \A q \in {"follow", "unfollow"} : subQueue[q] = <<>>
  /\ fanouts = {} /\ followJobs = {} /\ unfollowJobs = {}

\* When all is done, no feed shows an activity its only publisher has removed
\* (test/bigTest/managerGeneralTest.ts:98-101).
RemovalIsComplete ==
  Quiescent =>
    \A v \in Users : \A a \in timeline[v] : \E u \in Users : <<u, a>> \in past.live

\* When all is done, v's feed shows nothing about a user he has unfollowed, save
\* what he posted himself or has for following somebody else (README.md:151).
UnfollowIsComplete ==
  Quiescent =>
    \A v \in Users : \A a \in timeline[v] :
      \/ <<v, a>> \in past.posted
      \/ \E t \in Users : /\ v \in followers[t]
                          /\ <<t, a>> \in past.posted \/ About(a, t)

\* A user's feed of his own posts keeps them until he removes them; a
\* UserBaseFeed has a key of its own and room for a million
\* (src/feeds/UserBaseFeed.ts:3-4).
OwnPostsKept ==
  \A u \in Users, a \in Activities :
    <<u, a>> \in past.live /\ NoCallAbout(u, a) => a \in timeline[u]
=============================================================================
