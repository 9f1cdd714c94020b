# Superstream in TLA+

Superstream is a TypeScript port of Stream-Framework: an application publishes
activities, and the library copies a reference to each into the feeds of the
publisher's followers. This directory models it, checks the models on small
instances with TLC and proves what matters most with TLAPS. Paths below are
relative to the repository; `base.ts` without a directory is
`src/feedManagers/base.ts`.

## Inventory

| Component | State | Operations | Interacts with |
|---|---|---|---|
| Feed manager (`src/feedManagers/`) | none of its own; the calls under way | addUserActivity, removeUserActivity, updateUserActivities, followUser/ManyUsers, unfollowUser/ManyUsers, followFeed, unfollowFeed, batchImport, fanout | awaits Redis requests through the feeds, adds jobs to the queues, asks the application for the followers |
| Task queues and workers (`src/task/setupTask.ts`) | three BullMQ queues in Redis, one job per worker, fanouts nobody awaits | fanout, follow and unfollow workers | take jobs, build a manager, read and write feeds |
| Feeds (`src/feeds/base`, `RedisFeed`, `UserBaseFeed`) | a key, computed by the constructor | add(Many), remove(Many), trim, getItem, hydration | timeline storage for ids, activity storage for contents |
| Redis timeline storage (`src/storage/redis/RedisTimelineStorage.ts`, `structures/sorted_set.ts`) | one sorted set per feed | zAdd in chunks of 200, zRem one by one, trim by rank, page by score | one shared Redis connection per process |
| Redis activity storage (`RedisActivityStorage.ts`, `structures/hash.ts`) | ten hashes of activities | setMany, getMany, deleteMany | serializers |
| Serializers (`src/serializers/`) | none | dumps, loads | storages |
| Aggregators, aggregated activities (`src/aggregators/`, `src/activity/`) | groups of at most 15 activities | aggregate, merge (throws on a group that exists), rank, append | aggregated feeds |
| Aggregated feeds (`src/feeds/aggregated_feed/`) | a timeline of groups | addMany as read, merge and insert; addManyAggregated; removeMany (removes nothing), removeManyAggregated; trim | aggregators, timeline storage |
| Notification feed, list storage (`src/feeds/notification_feed/`, `base_lists_storage.ts`, `RedisListsStorage.ts`) | lists of unseen and unread ids | add, remove, flush, get, count; the feed's update_markers, mark_all, delete | aggregated feed; one Redis connection per process |
| In-memory storages (`src/storage/memory/`) | an array per feed, a map of activities | bisect insert, slice, trim, flush; insert, look up, remove | Node's microtasks |
| Cassandra storages (`src/storage/cassandra/`) | tables | insert, page, trim by write time | the cluster |
| Verbs, utilities, metrics, server, unported Python | tables, counters | lookups, HTTP routes | the manager |

What makes it hard:

* A manager call is a chain of awaited requests, and a job is another, so calls,
  jobs and trims of many processes interleave between any two requests.
* Some promises are not awaited: the fanout a job starts (`setupTask.ts:176`) and
  the trim an add starts (`src/feeds/base/base.ts:236`).
* What is read early (followers, pages) is used late.
* A process may die between any two requests; a job gets one attempt.
* Two feeds of a user share one sorted set, so every operation on one is one on
  the other.
* Several processes read a feed, compute on what they have read and write it back.
* Clocks of hosts differ, and a stamp decides which of two writes counts.

The modules, one per protocol:

| Module | Models | Abstract specification or composition |
|---|---|---|
| `FeedTasks` | manager, queues, workers and feeds over Redis, composed | implements `FeedDelivery` |
| `FeedDelivery` | what the manager promises, without calls, queues, jobs or requests | |
| `BatchImport` | `batchImport` and `followFeed` over the Redis storages and the serializer | |
| `CassandraTimeline` | one feed in Cassandra, written by several hosts | |
| `InMemoryTimeline` | one feed in memory and its activity storage | |
| `AggregatedFeed` | an aggregated feed over Redis, with aggregator and serializer | |
| `ListsStorage` | the lists of a notification feed in Redis | |

`MC*.tla` gives the constants of a module their values for TLC, `*Proofs.tla` holds the
theorems about it, and `Induction` the two principles of induction some of these use
(*Induction over data*, below). Operators called slips, next to the definitions they stand for, are
plausible mistakes in the code; no action uses them.

What makes each component correct: the manager, the workers and the feeds must
keep references whole (stored before referred to), feeds free of what was not
asked for and complete except for a reason, and every follower served; the
storages must keep the newest and only the newest on a trim and return pages in
order; the serializers must give back what they were given; aggregation must
keep every activity in exactly one group; markers must agree with the feed.
The hazards at their lines, and the properties that cover them, are listed in
`PROJECT.json`.

## FeedTasks: manager, queues, workers and feeds over Redis

State, and what it is in the code:

| Variable | Code |
|---|---|
| `followers` | the application's data behind `getUserFollowerIds` (`base.ts:117`) |
| `store` | ids in the hashes of `RedisActivityStorage` |
| `timeline` | the sorted set `feed_<id>` of every user, shared by his `UserBaseFeed` and his `RedisFeed` |
| `posting`, `subscribing` | `addUserActivity`/`removeUserActivity` and `followManyUsers`/`unfollowManyUsers` calls between two awaits |
| `fanoutQueue`, `subQueue` | the BullMQ queues (`setupTask.ts:116-118`) |
| `fanouts`, `started` | calls of `Manager.fanout` in flight, numbered in the order they were started |
| `followJobs`, `unfollowJobs` | the job a host's worker is on |
| `trims` | `BaseFeed.trim` calls in flight |
| `calls`, `crashes` | counters of the bounds; `calls` also numbers the calls |
| `past` | history: what the application has asked for; nothing reads it but the properties and `RemoveUserActivity`, with which the application removes only what it has posted |

Actions, one per awaited request or per job taken:

* `AddUserActivity`, then `InsertActivity`, `UpdateUserFeed`,
  `GetUserFollowerIds`, `EnqueueFanout` per priority group, `FinishPosting`;
  `RemoveUserActivity` starts at `UpdateUserFeed`, as the code does not remove
  from the activity storage. `updateUserActivities` is `AddUserActivity` with the
  activity's actor as the user.
* `FollowManyUsers` and `UnfollowManyUsers` change the application's followers and
  begin a call, whose only request is `EnqueueSubscription`.
* `StartFanout` takes the job BullMQ hands out (smallest priority number first,
  then FIFO) and starts the fanout of the first chunk, the only one the code gets
  to; `FanoutTo` is the operation on one follower's feed.
* `StartFollow`, `ReadTarget` per target, `FinishReading`, `CopyBatch` per zAdd;
  `StartUnfollow`, `TrimBeforeUnfollow`, `ReadOwnFeed`, `RemoveOne` per zRem.
* `TrimTimeline`: a trim arrives.
* `CrashHost` and `CrashCaller`: a process dies with what it had under way; Redis
  keeps its data and the jobs nobody had taken.

Abstractions. An activity is a model value with an actor, a target and a time; ids
stand for references, so `timeline` is a set and `TimeOf` its order (uuid v1 times
are assumed distinct). The order of a follower list and of a zAdd batch is chosen
nondeterministically. `Legible` is the set of activities that
`ActivitySerializer.loads` can read back: one whose context holds a comma cannot,
and its page reads as null. The page read and the hydration after it are one step:
the store only grows, so the later lookup finds what the earlier one would. The
trim of the personal feed to a million activities never does anything here and is
left out, as is a job for an empty group. A trim may arrive at any later time,
although requests of one host share a connection: the model allows more orders
than one connection does. For the fanouts of one host the order matters and is
kept: the first requests arrive in the order the fanouts were started (`InOrder`),
later ones as the replies come. The change of the follower data and the start of
the manager call that reports it are one step, and the application makes no two
calls about one activity of one user at once (`NoCallAbout`). The model has the one
feed class of `RedisManager`.

### Properties

* `Hydratable`: no timeline refers to an activity that is not stored.
* `NothingUnsolicited`: a timeline holds only what its user posted himself, or what
  somebody he has followed has posted or is about.
* `NothingLost`: a step takes an activity from a timeline only if it was removed,
  if somebody it is about was unfollowed, or if `MaxLength` newer ones outrank it.
* `Delivers`: every step is a step of `FeedDelivery` or changes nothing it shows. There
  the application adds, removes, follows and unfollows, and the system stores what was
  added, shows a user what he has asked for and is stored, hides what was removed or
  unfollowed, and shortens a feed to its newest. The mapping (`Delivery`) takes the
  history for what was asked, the store for what is stored and the timelines for the
  feeds: calls, queues, jobs, fanouts, copies in flight and crashes are invisible.
* `EveryFollowerServed`: the followers `getUserFollowerIds` returned get the activity.
* `FollowCopies`: a waiting follow job brings over what the followed feed holds
  about its owner, unless it leaves that feed first.
* `RemovalIsComplete`, `UnfollowIsComplete`, `OwnPostsKept`: what tests, README and
  comments promise, and the code does not keep (below).

### Runs

All use `MCFeedTasks.tla`; `liveness` and the violations of temporal properties use
`FairSpec`. The application may stop calling at any time and is bounded
by `MaxCalls`, so a state without a successor is a legal end and deadlock is not
checked.

| Run | Question | Bounds | Outcome |
|---|---|---|---|
| `safety` | type, `Hydratable`, `NothingUnsolicited`, `NothingLost`, `Delivers` | 3 users who follow each other, 3 activities (one without a target, so follow jobs fail on it), 2 hosts, 3 calls, 1 crash, timelines trimmed to 1, chunks and zAdds of 1 | holds |
| `liveness` | `EveryFollowerServed`, `FollowCopies` | 3 users, one following two others at once, 2 activities, 1 host, no crash, no trim, chunks that hold all followers | holds |
| `chunk` | `EveryFollowerServed` with two followers and chunks of one | 1 activity, 1 host | violated |
| `removal` | `RemovalIsComplete` | 1 activity, 1 follower, 2 hosts | violated |
| `unfollow` | `UnfollowIsComplete` | 1 activity, 1 follower, 1 host | violated |
| `ownposts` | `OwnPostsKept` | 1 activity about a user who is followed and unfollowed | violated |

Why the bounds are enough. Every hazard found needs at most two calls about one
activity next to one follow or unfollow: three calls. Two hosts give every order a
larger number gives for two requests. A timeline trimmed to one activity loses one
as soon as there are two, and an unread copy batch of one splits every copy. Every
action is taken in the passing runs. The proofs below lift the safety run to every
value of the constants.

Fairness (`FairSpec`): weak fairness of the callers, each kind of worker and the
trims. A Node process runs the continuation of every request Redis answers, and an
idle BullMQ worker asks for the next job; nothing obliges the application to call
again or a process to crash, so these have none. The liveness run has no crash: a
job that was taken and lost is not retried (one attempt, no QueueScheduler).

### What the code does not keep

* `setupTask.ts:178` returns from inside the loop over chunks: only the first
  `fanoutChunkSize` followers of a group are served (`chunk`).
* `setupTask.ts:235` splits the target id of an activity that has none: the follow
  job fails and brings nothing more over. The liveness run has no such activity, the
  safety run has one.
* `setupTask.ts:176` does not await the fanout: on another host the job of a removal
  overtakes the add it undoes (`removal`).
* `base.ts:150` reads the followers before the jobs are served: what a user unfollows
  in between still reaches his feed after the unfollow job is done (`unfollow`).
* `src/feeds/base/base.ts:128` computes the key before `keyFormat` of
  `UserBaseFeed` is assigned: an unfollow removes the user's own posts (`ownposts`).

### Proofs of FeedTasks

`FeedTasksProofs.tla`, for every value of the constants that satisfies
`ConstantsAssumption` (types, distinct times, positive limits):

* `TypeCorrect`: `Spec => []TypeOK`, one step per action.
* `NothingDangles`: `Spec => []Hydratable`. Hydratable is not inductive: a reference
  reaches a timeline from a call past its insertion, a queued job, a fanout or a
  page a follow job has read. `Backed` says that each of these carries only stored
  references; with the type invariant it is inductive.
* `NothingUnasked`: `Spec => []NothingUnsolicited`. `Accounted` ties everything under
  way to the history: a call to what was posted or withdrawn, a job and a fanout to a
  reason for each follower left to serve, a subscription and its job to what was
  followed or unfollowed, a page read to what may be copied. The history only grows
  (`RecordGrows`), so a reason once given lasts (`ReasonsLast`); parts of the state
  that only shrink stay accounted for (`RestAccounted`), which leaves each action
  with the parts it adds to.
* `LossesAreExplained`: `Spec => NothingLost`, from `Accounted`, `Backed` and the
  finiteness of the store, which makes the rank of an activity a number: what a trim
  takes off has at least `MaxLength` newer ones above it.

`FeedDeliveryProofs.tla`: `FeedTasksDelivers` is `Spec => Delivers`. The initial states
map to initial states; each action maps to one action of `FeedDelivery` or to a stutter,
one lemma each. That what a fanout or a copy shows may be shown, and what a removal hides
may be hidden, follows from `Accounted` and `Backed` of `FeedTasksProofs` and from
`LiveArePosted`, stated here: an activity a user still has was posted.

Only model-checked: the liveness properties (fairness is out of the prover's reach).

## CassandraTimeline: a feed in Cassandra

Operations on different feeds share nothing, so the model has one feed. `written`,
`removed` and `trimmedTo` are the timestamps of its rows and of its row and feed
tombstones; a row is live when it was written after both. `requests` are batches and
deletes on their way (one batch, one timestamp), which arrive in any order; `trims`
are `trim` calls waiting for their query or its reply. `now` and `last` are the clock
of a host and the last timestamp its driver gave: the driver stamps every request
with the clock, or one more than its last stamp.

Actions: `AddToStorage`, `RemoveFromStorage`, `StartTrim` send a request;
`ReadWriteTimes` is the answer to a trim's query and the computation on it;
`SendDelete` is the safety check and the delete, with the clock at that time; `Arrive`
is the effect of a request; `Tick` lets a clock run, at most `MaxSkew` ahead of the
others. `trim` is called by chance after adds and removals and by the unfollow
worker, and never awaited by the former: `StartTrim` is possible at any time. The
driver and Cassandra are not part of the repository and are modelled from how the
storage uses them (`external` in `PROJECT.json`). Lost requests are left out.

| Run | Question | Bounds | Outcome |
|---|---|---|---|
| `cassandra_safety` | `NextWriteLives`: a host's trim never swallows its own later writes. `OwnOrder`: its calls about an activity count in the order it made them. `TrimBites`: a trim that deletes takes at least one row, and all it is meant to take unless they are written again | 2 hosts, clocks one apart, 3 activities, batches of 1 and 2, length 2, 4 calls | holds |
| `cassandra_trash` | `TrashBounded`: a trim takes at most `BatchSize - 1` activities too many | 1 host, 3 activities added one by one, length 2 | violated |

Three rows are the first page that is longer than the length, two hosts the first
whose clocks can differ, and four calls fit two adds by one host and a trim next to
a call of the other. The violation: rows are chosen by id but deleted by time of writing
(`CassandraTimelineStorage.ts:155`). In a shortest trace an activity is written between
the query of a trim and its delete, with a timestamp before the cut, and goes too; and
where an older activity was written later, as follow copies are, it is kept for newer
ones. `TrimBites` is a lower bound only; how much a trim takes at most is what
`TrashBounded` asks. The model also follows
`results_length < maxLength` (`:147`), which takes a row from a feed of exactly
`maxLength`, where the comment of `:146` says a feed must be longer.

### Proofs of CassandraTimeline

`CassandraTimelineProofs.tla`, for every value of the constants that satisfies
`TimelineAssumption` (distinct positions, finite batches, positive limits); no limit on
the skew of the clocks is used:

* `TypeCorrect`: `Spec => []TypeOK`. That a cut is a time needs the page to have a last
  and a last but one row (`PageHasTwo`), which exist because times are well-founded.
* `OwnWritesLive`: `Spec => []NextWriteLives`, inductive with the type invariant: the
  safety check bounds the cut by the clock, and the driver's stamps only rise.
* `TrimsBite`: `Spec => TrimBites`, from `DeletesSome`: trims that have their reply and
  deletes under way are for some row, as the middle of two times is not before both
  (`CutTakesOne`).
* `CallsCountInOrder`: `Spec => []OwnOrder`. OwnOrder speaks of the time when everything
  has arrived; `LastCallKnown` says at any time that the last call about an activity has
  a timestamp `s` of its host's, that nothing applied or under way is later, that what it
  undoes is earlier, and that it is applied or under way itself.

## InMemoryTimeline: a feed in memory

`arrays` is every array there has been and `timelineStore` the index of the one the
key has; `activityStore` is the other map. An add keeps the index it has looked up
(`ref`) while it awaits; `microtasks` holds the adds that await, and `Resume` lets the
first go on to its next await, as Node's queue of microtasks does. A read takes its page
in one go (`GetSlice`) and looks the activities up later (`Hydrate`); what may run in
between is left open, which is more than Node does. Every other operation runs in one go:
`InsertActivities`, `RemoveActivity`, `RemoveFromStorage`, `Trim`, `Delete`, `Flush`.
`Array.splice` is modelled with its clamped indices.

| Run | Question | Bounds | Outcome |
|---|---|---|---|
| `memory_adds` | `AddsStored`: an add that meets no read, trim or deletion leaves all its ids in the feed. `OnceEach`: only overlapping adds of one id put it in twice. `ReadOnce`: no id is read more often than it was added. `NullExplained`: a page reads as null only if one of its activities was removed | 3 ids, adds of 1 and 2, pages of 1 and 2, trims to 1, 7 calls | holds |

Seven calls hold two insertions of activities, two overlapping adds on a new key and any
three operations around them. What the code does and its names do not say is in the model,
not in a run of its own: a read takes what it returns out of the feed
(`InMemoryTimelineStorage.ts:73`), which `ReadOnce` counts on; `//` begins a comment, so
every id goes to the end (`:37`); `trim` keeps what is beyond the length (`:137`);
`removeFromStorage` drops the array `filter` returns (`:113`).

### Proofs of InMemoryTimeline

`InMemoryTimelineProofs.tla`, for every value of the constants that satisfies
`InMemoryAssumption` (no add names an id twice):

* `TypeCorrect`: `Spec => []TypeOK`, with `splice` typed once for all arrays.
* `EachOnce`: `Spec => []OnceEach`. The feed alone is not inductive: the strengthening
  speaks of every array there has been, of the ids an add has still to insert, and of
  what it has found (`exist`), which stays true of its array unless another add of the
  same id runs.
* `NullsAreExplained`: `Spec => []NullExplained`: ids in arrays, adds and pages are of
  activities that were inserted, and what was inserted and is not there was removed.

* `ReadsOnce`: `Spec => []ReadOnce`. `Balance` counts, for each id, how often it was
  read, how often the feed holds it and how many adds still carry it: together at most
  as often as it was added. A splice splits the places of an id between the page and the
  rest (`TimesSpliced`); an add that finds the id, or whose array is no longer the
  feed's, loses it. `TodoOnce` says an add carries an id once, which the step that inserts
  it needs.
* `AddsAreStored`: `Spec => AddsStored`. `Sound` says of an add that nothing has met
  that its array is the feed's, and that each of its ids is in it or still to come, the
  one it has found included. Two adds that begin on a new key work on one array: the
  first makes it (`InMemoryTimelineStorage.ts:87`) before it awaits.

Every safety property of `memory_adds` is proved; it has no liveness property.

## AggregatedFeed: groups over Redis

`timeline` is the sorted set, whose members are groups (name, activities, dates and the
number of activities left out). `calls` are the calls of any process between two requests,
`trims` the trims nobody awaits; `past` records who has written what.

| Action | Code |
|---|---|
| `AddMany`, `ReadPage`, `Write` per zAdd | `AggregatedFeed.addMany`: the request for the newest `mergeMaxLength` groups; the merge; the insertion, and a trim by chance after it |
| `AddManyAggregated`, `Write` | `addManyAggregated`: writes without reading |
| `RemoveMany` | starts a trim and throws: the key it hydrates by does not exist |
| `RemoveManyAggregated` | removes a group that was read |
| `Trim` | a trim arrives |

`Aggregated` is the aggregator's grouping with `AppendActivity` folded over the
activities by their ids; `Merge` is the merge, which fails on any group that is on the
page (what it appends to is a copy by way of JSON without methods) and on a page that
reads as null (`Readable`). `Serialized` is what is left of groups whose
serializationIds, made of their times alone, are the same. Equal scores are ordered at
random, as the rank is. A call that dies with its process is one that takes no further
step, so there is no action for it; nothing here must happen in the end.

| Run | Question | Bounds | Outcome |
|---|---|---|---|
| `aggregated_safety` | `TwiceOnlyIfExcused`: a group is in the feed twice only by overlapping calls, by one that did not read, or because it was pushed off the page. `BatchShown`: what a call that has returned added was in a member of its group, unless two groups of the call ended in the same millisecond. `CountsRight`: a member shows as many activities of its batch as fit, none twice, counts each of the others once and has the time of the first one shown and the newest time of all. `GroupsKept`: a group leaves by a removal or when `MaxLength` others are as new | 4 activities in 3 groups, two of them of one millisecond, groups of 1, pages of 2, feeds of 3, zAdds of 1, 3 calls | holds |

Three calls are an overlapping pair and one that reads what they have left; three groups
are one more than a page holds; groups of one activity overflow with two.

Where code and comment disagree: `BaseAggregator.ts:128-129` wants the activities of a
group "in serializationId desc", and the comparator below it sorts ascending. So a group
shows its oldest activity first, and as `append` beyond the limit takes off what it has
just appended (`AggregatedActivity.ts:176`), a full group keeps the oldest and leaves out
the newest. The model follows the code (`Highest` is appended last). `CountsRight` does not
say which activities are left out, only that each is shown or counted once: that it holds
does not mean that the order is the one intended.

### Proofs of AggregatedFeed

`AggregatedFeedProofs.tla`, from `FeedAssumption`:

* `DuplicatesAreExcused`: `Spec => []TwiceOnlyIfExcused`. The invariant says of every
  pending write that whoever has written a member of one of its groups overlapped with
  it, did not read, or was outranked when it read; the groups of one call have different
  names.
* `GroupsAreKept`: `Spec => GroupsKept`, from the finiteness of the feed: what a trim
  takes has `MaxLength` kept ones at least as new beside it.

* `CountsAreRight`: `Spec => []CountsRight`. By induction over the activities of a group,
  in the order they are appended, `AggregatedDescribes` says what the fold of `AppendActivity` makes
  of them: as many as fit, none twice, the number of the others, the time of the first
  one shown and the newest time. This is where it counts that `append` on a full group takes off
  what it has just appended, and updates its time all the same.
* `TypeCorrect`: `Spec => []TypeOK`, from the same: all that is written is a member
  `GroupActivities` makes of a batch (`Made`).
* `BatchesAreShown`: `Spec => []BatchShown`. While a call writes, what the feed does not
  show of its batch is among what the call has still to write (`Coming`); when nothing
  is left that is the claim (`Done`), and a trim or a removal moves groups to those that
  have gone. A group is missing only if another of its call has the same serializationId
  (`SerializedFinds`).

Every property of `aggregated_safety` is proved.

## BatchImport: imports that await nothing

`hash` is the activity storage with the serialized parts under each id (`Dumps`),
`timeline` the sorted sets. `sent` is what is on the connection of each host, in order;
`starting` the insertions into a feed that have not sent their first zAdd; `replied` the insertions that have had a reply and send on; `copies` the calls of
`followFeed`.

`BatchImport` sends the first hSet of every chunk (`base.ts:377`) and returns. `setMany` is
a plain `for` that sends before it awaits (`structures/hash.ts:86`); `addMany` is a `for
await` (`structures/sorted_set.ts:77`), which waits before it sends anything, so the first
zAdds follow after the return, chunk by chunk (`SendFirst`), and all first hSets may have
taken effect while the feed is still empty. `Arrive` is the effect of the oldest request
of a connection, `Continue` the next request of the insertion it belonged to; the event
loop takes up a reply only after those microtasks, so not before the first zAdds of its
import are sent. `FollowFeed`, `ReadPage`, `LookUp` per hGet and `WriteCopies` per zAdd
are `followFeed`, which throws when a page reads as null.
`CrashHost` keeps some first part of what was sent and drops the rest, with all that would
have followed. `batchImport` hands the fanout a promise it iterates over (`base.ts:385`),
which has no entries, so no fanout follows and the model has none.

| Run | Question | Bounds | Outcome |
|---|---|---|---|
| `import_safety` | `DanglingExplained`: a reference to what is not stored is to an import into this feed that still stores it, or that a crash stopped; a copy never spreads it. `HeadsStored`: the first activity of each chunk never dangles. `ReadBack`: what is read back is what was written, but for the time, which is read from the target, and a context with a comma. `ReferencesSettle`, `ImportsComplete`: in the end every reference is good and every import complete, unless its host has died | 2 hosts, imports of 3 and of 1 in chunks of 2, zAdds of 1, a copy of a page of 2, 1 crash; contexts of no, one and two pieces | holds |

An import of three in chunks of two has a full chunk and a short one; two imports of two
hosts overlap on one activity. Fairness (`FairSpec`): weak fairness of requests in flight
and their continuations (`Importing`) and of copies (`Copying`), for the reason given for
`FeedTasks`. A crash clears what a host had to send, so fairness asks nothing of the dead.

### Proofs of BatchImport

`BatchImportProofs.tla`, from `ImportAssumption`: `TypeCorrect`, `DanglingIsExplained`,
`HeadsAreStored` and `ReadsBack`, for each of the four invariants. The invariant
(`References`) says of every request of an insertion into a feed that what it carries and
what is left after it is owed by somebody, and that each activity of it is behind another
of its chunk, or stored, or in the request of an insertion into the storage *earlier on the
same connection*. The last holds of an insertion from its start (`FineStart`): an import
has sent all its first hSets when the first zAdds are still at their await, whichever of
`base.ts:379` and `:383` comes first. What waits there stays behind what is on the connection
(`StartLasts`), and the order of a connection preserves it when a request arrives, is
appended or is cut off by a crash. The lemmas on pieces and chunks are arithmetic on
sequences.

Only model-checked: `ReferencesSettle` and `ImportsComplete`.

## ListsStorage: the markers of a notification feed

`lists` are the lists of Redis, as sets of values numbered in the order of their pushes;
`sent` the requests of each host. `Add`, `Remove` and `Flush` send all their requests at
once (`Promise.all` or a loop without await); `Arrive` is the effect of the oldest of a
host; `CrashHost` cuts off the last ones. `UpdateMarkers` is what the feed makes of it:
`func.apply(this, kwargs)` passes the elements of an object that has none
(`BaseNotificationFeed.ts:131`), so the markers never change. `remove` and `getKeys` run
over indices (`for .. in`), so a removal takes out the values 0, 1, ... and a flush deletes
the lists called "0", "1", .... With `maxLength` null a trim is `lTrim 0 -1` and keeps all.

| Run | Question | Bounds | Outcome |
|---|---|---|---|
| `lists_safety` | `NewestKept`: a value leaves only by a removal or when `MaxLength` later ones were pushed. `Bounded`: a list is too long only while a trim is on its way, or after a crash. `AddsInOrder`: an addition takes effect in the order of its arguments, without a gap, unless its host dies. `CutInTheEnd`: a list that is too long is cut | 2 hosts, 2 lists, an addition to both, one that overfills a list by itself, trims to 2, 3 calls, 1 crash | holds |

Three calls are two interleaved additions next to a removal or a flush. `AddsInOrder` is
what is left of "an atomic way" (`base_lists_storage.ts:5-6`): between two requests of
one call those of other hosts take effect. Fairness (`FairSpec`): weak fairness of
`Arrive` for each host: what is on a connection arrives, or is cut off by a crash.

### Proofs of ListsStorage

`ListsStorageProofs.tla`, from `ListsAssumption` (an addition names a list once; what is
kept are numbers; the indices are names):

* `NewestAreKept`: `Spec => []NewestKept`; the strengthening says that the numbers in a
  list are distinct and at most the count of pushes, so a trim that drops one has
  `MaxLength` higher ones. What the calls send plays no part.
* `TypeCorrect`: `Spec => []TypeOK`.
* `ListsAreBounded`: `Spec => []Bounded`. Until a crash, a push on a connection has a trim
  of its list behind it (`Trimmed`), and a list that is too long has a trim coming. A
  removal or a deletion between them only helps; a crash may take the trim and leave the
  push, which is why the claim ends there.
* `AdditionsAreInOrder`: `Spec => []AddsInOrder`. `Orders` says of each addition that
  has been made that some first part of its requests has taken effect, its pushes under growing
  numbers (`Effect`), and that the rest is on one connection, in one piece, with nothing
  else of the call anywhere, up to its end or to where a crash has cut it off (`Waits`).
  A call appends behind it, an arrival takes its first or one before it, a crash shortens
  it. What was pushed of a list is then the first part of its values
  (`PushedOf`), numbered in that order (`Ranked`).

The last three follow a request from its place in what `FlattenSeq` returns:
`FlattenSeqLays` says that there are offsets, one behind the other, at which the sequences
of the parts lie, and that nothing lies elsewhere. Only model-checked: `CutInTheEnd`.

## Induction over data

The library's induction theorems take an operator and cannot be used. What is needed of
them is in `Induction.tla`, stated as membership: a set `P` that has every number all of
whose predecessors it has includes `Nat` (`NumberInduction`), and the like for the subsets
of a finite set (`SubsetInduction`). They are proved from the theorems on finite sets: the numbers
up to which the claim holds would, with an end, be as many as their successors, which
leave out 0. With them the recursive functions inside `FlattenSeq` and `MapThenFoldSet`
are shown to exist and to be unique (`JoinedExists`, `FoldingExists`, `FoldingUnique`),
so that a proof may unfold them by a step.

## Plan

Done: the manager with its workers over Redis and the specification it implements; the
storages of Cassandra and of memory; imports and the serializer; aggregation; markers.
What remains, in the order of its worth:

1. `AggregatedFeed` next to a storage that other calls change: today the activities of a
   group are stored before and stay.
2. The reads of `ListsStorage` (get and count send one request per list, so an answer
   mixes states), and paging in Cassandra once it names columns that exist.
3. Pure conversions: the 32-bit hash of a verb, uuid v1 times, the shard of a field.
4. Proofs: every safety property of the passing runs is proved. What is left is an
   abstract specification for the lists and for the aggregated feed, and their steps
   shown to be its steps, as for `FeedTasks`.

## Not modelled

* Metrics and logging (nothing reads them), the HTTP server (a manager call per request),
  the Python files left from the port, `Guard` and the verb registry (lookups).
* `FallbackHashCache` and `structures/list.ts`: nothing uses them. The ten hashes of
  `ShardedHashCache` are one map: which of them holds an id changes nothing.
* Operations without a caller over Redis: `delete` and `flush` of feeds and storages,
  `removeActivity`. Filters and `order_by` throw on use; `unfollowFeed` throws before it
  changes anything; `AggregatedFeed.contains` is always false; `AggregatedActivity.remove`
  cannot be reached.
* Cassandra: paging filters and sorts by names that are not columns; the activity
  storage's methods do nothing; aggregated feeds over Cassandra.
* Reads of lists. Batches and pages of other sizes than the bounds.

Out of the prover's reach and left to TLC: the properties that hold only under fairness
(`EveryFollowerServed`, `FollowCopies`, `ReferencesSettle`, `ImportsComplete`,
`CutInTheEnd`).
