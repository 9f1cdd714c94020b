----------------------------- MODULE BatchImport -----------------------------
(***************************************************************************)
(* batchImport and followFeed of the manager, over the activity storage    *)
(* and the feeds of Redis.                                                 *)
(*                                                                         *)
(* batchImport awaits nothing: for every chunk it starts the insertion     *)
(* into the activity storage (one hSet after the other) and the insertion  *)
(* into the user's feed (one zAdd after the other), and all of these run   *)
(* at once over the connection of the host.  setMany loops with for and    *)
(* sends its first hSet at once.  addMany loops with for await, which lets *)
(* go before the first zAdd: it is sent after batchImport has returned,    *)
(* but before the event loop takes up any reply.  Requests of one          *)
(* connection arrive in the order they were sent; the next request of an   *)
(* insertion is sent when the reply to the last has come.  No fanout       *)
(* follows: the loop over the followers is over the entries of a promise,  *)
(* which has none.                                                         *)
(*                                                                         *)
(* followFeed reads a page of one feed, looks up its activities one by one *)
(* and writes them to another feed.                                        *)
(*                                                                         *)
(* A definition marked "slip" is the one after it with a plausible mistake *)
(* in it.  No action uses it; it shows that a property can fail.           *)
(***************************************************************************)
EXTENDS Naturals, Sequences, FiniteSets

CONSTANTS
  Users,         \* users, each with a personal feed
  Activities,    \* activities
  TimeOf,        \* the score of an activity
  HasTarget,     \* the activities with a target
  ContextParts,  \* pieces of the JSON of a context split at commas; 0: empty
  Hosts,         \* processes that import
  Imports,       \* the <<user, sequence of activities>> they import
  ChunkSize,     \* chunk_size of batchImport
  ZAddSize,      \* how many members one zAdd carries
  FollowLimit,   \* follow_activity_limit
  Follows,       \* the <<source, feed>> of followFeed
  MaxImports,    \* bound: imports started
  MaxFollows,    \* bound: copies started
  MaxCrashes     \* bound: hosts that crash

ASSUME ImportAssumption ==
  /\ IsFiniteSet(Activities)
  /\ TimeOf \in [Activities -> Nat]
  /\ \A a, b \in Activities : TimeOf[a] = TimeOf[b] => a = b
  /\ HasTarget \subseteq Activities
  /\ ContextParts \in [Activities -> Nat]
  /\ Imports \subseteq Users \X (Seq(Activities) \ {<<>>})
  /\ Follows \subseteq Users \X Users
  /\ {ChunkSize, ZAddSize, FollowLimit} \subseteq Nat \ {0}
  /\ {MaxImports, MaxFollows, MaxCrashes} \subseteq Nat

VARIABLES
  hash,      \* the activity storage: the serialized activity under each id
  timeline,  \* the sorted set of every user
  sent,      \* requests on the connection of each host, in the order sent
  starting,  \* first requests of the insertions that wait at their first await
  replied,   \* insertions that have had a reply and have more to send
  copies,    \* followFeed calls under way
  made,      \* imports and copies started so far
  crashes,   \* hosts crashed so far
  past       \* history, read by the properties only

vars == <<hash, timeline, sent, starting, replied, copies, made, crashes, past>>

-----------------------------------------------------------------------------
(* The serializer: an activity is the text of its parts, joined by commas *)

Missing == <<>>

\* dumps.  The context is left out when it is empty; its own commas are not
\* escaped.
Dumps(a) ==
  <<<<"id", a>>, <<"actor", a>>, <<"verb", a>>, <<"object", a>>,
    IF a \in HasTarget THEN <<"target", a>> ELSE <<"null">>>>
  \o [i \in 1 .. ContextParts[a] |-> <<"context", a, i>>] \o <<<<"time", a>>>>

\* JSON.parse of the sixth part fails on the first piece of a longer context.
Parses(parts) == parts[6][1] = "time" \/ Len(parts) = 7

\* Slip: the optional part comes before the target.
LoadsShifted(parts) ==
  [id |-> parts[1], actor |-> parts[2], verb |-> parts[3], object |-> parts[4],
   target |-> parts[Len(parts) - 1], time |-> parts[5], context |-> parts[6]]

\* loads.  The time is read from the part of the target.
Loads(parts) ==
  [id |-> parts[1], actor |-> parts[2], verb |-> parts[3], object |-> parts[4],
   target |-> parts[5], time |-> parts[5], context |-> parts[6]]

-----------------------------------------------------------------------------
(* State *)

store == {a \in Activities : hash[a] # Missing}

Jobs == {"store", "refer"}

Piece(s, m, n) == SubSeq(s, m, IF n < Len(s) THEN n ELSE Len(s))

Request ==
  [call : Nat, job : Jobs, feed : Users, now : Seq(Activities) \ {<<>>},
   rest : Seq(Activities)]

Reply ==
  [call : Nat, host : Hosts, job : Jobs, feed : Users, rest : Seq(Activities) \ {<<>>}]

Copy ==
  [call : Nat, from : Users, to : Users, at : {"page", "look", "write"},
   left : SUBSET Activities, found : SUBSET Activities]

\* imported: pairs of a user and an activity imported into his feed; inner: those
\* that were not the first of a chunk; lost: activities that a crash has kept from
\* being stored.
TypeOK ==
  /\ \A a \in Activities : hash[a] \in {Missing, Dumps(a)}
  /\ DOMAIN hash = Activities
  /\ timeline \in [Users -> SUBSET Activities]
  /\ sent \in [Hosts -> Seq(Request)]
  /\ starting \in [Hosts -> Seq(Request)]
  /\ replied \in SUBSET Reply
  /\ copies \in SUBSET Copy
  /\ made \in [{"import", "follow"} -> Nat]
  /\ crashes \in Nat
  /\ past \in [imported : SUBSET (Users \X Activities),
               inner : SUBSET (Users \X Activities), lost : SUBSET Activities]

Init ==
  /\ hash = [a \in Activities |-> Missing]
  /\ timeline = [u \in Users |-> {}]
  /\ sent = [h \in Hosts |-> <<>>]
  /\ starting = [h \in Hosts |-> <<>>]
  /\ replied = {}
  /\ copies = {}
  /\ made = [k \in {"import", "follow"} |-> 0]
  /\ crashes = 0
  /\ past = [imported |-> {}, inner |-> {}, lost |-> {}]

Elements(s) == {s[i] : i \in DOMAIN s}

-----------------------------------------------------------------------------
(* batchImport *)

\* How many activities one request of an insertion carries: setMany sends an hSet
\* for each, addMany a zAdd for a chunk of them.
StepOf(job) == IF job = "store" THEN 1 ELSE ZAddSize

\* The next request of an insertion that has the activities s to send.
\* Slip: setMany stops one short of the end.
NextRequestShort(call, job, feed, s) ==
  [call |-> call, job |-> job, feed |-> feed, now |-> Piece(s, 1, StepOf(job)),
   rest |-> SubSeq(s, StepOf(job) + 1, IF job = "store" THEN Len(s) - 1 ELSE Len(s))]
NextRequest(call, job, feed, s) ==
  [call |-> call, job |-> job, feed |-> feed,
   now |-> Piece(s, 1, StepOf(job)), rest |-> SubSeq(s, StepOf(job) + 1, Len(s))]

ChunkCount(s) == (Len(s) + ChunkSize - 1) \div ChunkSize

ChunkOf(s, i) == Piece(s, (i - 1) * ChunkSize + 1, i * ChunkSize)

\* The insertion of every chunk, with what it sends first.
Insertions(job, u, s) ==
  [i \in 1 .. ChunkCount(s) |-> NextRequest(made["import"], job, u, ChunkOf(s, i))]

\* The insertions of job `atOnce` send their first request before the import returns;
\* those of job `later` wait at an await.
Import(h, u, s, atOnce, later) ==
  /\ made["import"] < MaxImports
  /\ <<u, s>> \in Imports
  /\ made' = [made EXCEPT !["import"] = @ + 1]
  /\ sent' = [sent EXCEPT ![h] = @ \o Insertions(atOnce, u, s)]
  /\ starting' = [starting EXCEPT ![h] = @ \o Insertions(later, u, s)]
  /\ past' = [past EXCEPT
       !.imported = @ \cup {<<u, a>> : a \in Elements(s)},
       !.inner = @ \cup {<<u, a>> : a \in
                   UNION {Elements(Tail(ChunkOf(s, i))) : i \in 1 .. ChunkCount(s)}}]
  /\ UNCHANGED <<hash, timeline, replied, copies, crashes>>

\* Slip: the loops the other way round, a for await in setMany and a for in addMany.
BatchImportFeedFirst(h, u, s) == Import(h, u, s, "refer", "store")
BatchImport(h, u, s) == Import(h, u, s, "store", "refer")

\* The for await of addMany goes on: the first zAdd of a chunk, chunk by chunk.
SendFirst(h) ==
  /\ starting[h] # <<>>
  /\ sent' = [sent EXCEPT ![h] = Append(@, Head(starting[h]))]
  /\ starting' = [starting EXCEPT ![h] = Tail(@)]
  /\ UNCHANGED <<hash, timeline, replied, copies, made, crashes, past>>

\* The insertion that request r was part of waits for this reply, if it has more to
\* send.  Slip: whether it has or not.
WaitsAlways(h, r) ==
  {[call |-> r.call, host |-> h, job |-> r.job, feed |-> r.feed, rest |-> r.rest]}
Waits(h, r) ==
  IF r.rest = <<>> THEN {}
  ELSE {[call |-> r.call, host |-> h, job |-> r.job, feed |-> r.feed, rest |-> r.rest]}

\* The oldest request of a connection takes effect, and is answered.
Arrive(h) ==
  /\ sent[h] # <<>>
  /\ LET r == Head(sent[h]) IN
     /\ IF r.job = "store"
        THEN /\ hash' = [a \in Activities |-> IF a \in Elements(r.now) THEN Dumps(a) ELSE hash[a]]
             /\ UNCHANGED timeline
        ELSE /\ timeline' = [timeline EXCEPT ![r.feed] = @ \cup Elements(r.now)]
             /\ UNCHANGED hash
     /\ replied' = replied \cup Waits(h, r)
  /\ sent' = [sent EXCEPT ![h] = Tail(@)]
  /\ UNCHANGED <<starting, copies, made, crashes, past>>

\* The insertion sends its next request.  The event loop takes up a reply when what
\* the import of it, and those before, have begun has run to its next await.
Continue(p) ==
  /\ \A i \in DOMAIN starting[p.host] : starting[p.host][i].call > p.call
  /\ replied' = replied \ {p}
  /\ sent' = [sent EXCEPT ![p.host] =
                Append(@, NextRequest(p.call, p.job, p.feed, p.rest))]
  /\ UNCHANGED <<hash, timeline, starting, copies, made, crashes, past>>

-----------------------------------------------------------------------------
(* followFeed *)

Newest(S, n) ==
  {a \in S : Cardinality({b \in S : TimeOf[b] > TimeOf[a]}) < n}

FollowFeed(from, to) ==
  /\ made["follow"] < MaxFollows
  /\ <<from, to>> \in Follows
  /\ made' = [made EXCEPT !["follow"] = @ + 1]
  /\ copies' = copies \cup {[call |-> made["follow"], from |-> from, to |-> to,
                             at |-> "page", left |-> {}, found |-> {}]}
  /\ UNCHANGED <<hash, timeline, sent, starting, replied, crashes, past>>

\* getSlice of the source.  There is nothing to do for an empty page.
ReadPage(c) ==
  LET page == Newest(timeline[c.from], FollowLimit) IN
  /\ c.at = "page"
  /\ copies' = (copies \ {c}) \cup
       IF page = {} THEN {} ELSE {[c EXCEPT !.at = "look", !.left = page]}
  /\ UNCHANGED <<hash, timeline, sent, starting, replied, made, crashes, past>>

\* Slip: what is not found is copied like the rest.
Present(a) == TRUE

\* An id that can be looked up and read back.
Found(a) == hash[a] # Missing /\ Parses(hash[a])

\* One hGet.  If it finds nothing, or what loads cannot parse, getItem returns null
\* in the end, and followFeed throws; it has written nothing.
LookUp(c, a) ==
  /\ c.at = "look"
  /\ a \in c.left
  /\ copies' = (copies \ {c}) \cup
       IF ~ Found(a) THEN {}
       ELSE {[c EXCEPT !.left = @ \ {a}, !.found = @ \cup {a},
                       !.at = IF c.left = {a} THEN "write" ELSE "look"]}
  /\ UNCHANGED <<hash, timeline, sent, starting, replied, made, crashes, past>>

\* One zAdd of the copied activities.
WriteCopies(c, members) ==
  /\ c.at = "write"
  /\ members \subseteq c.found
  /\ Cardinality(members) = IF Cardinality(c.found) < ZAddSize
                            THEN Cardinality(c.found) ELSE ZAddSize
  /\ timeline' = [timeline EXCEPT ![c.to] = @ \cup members]
  /\ copies' = (copies \ {c}) \cup
       IF members = c.found THEN {} ELSE {[c EXCEPT !.found = @ \ members]}
  /\ UNCHANGED <<hash, sent, starting, replied, made, crashes, past>>

-----------------------------------------------------------------------------
(* A host dies.  Some of the requests it has sent, from the oldest, still     *)
(* arrive; nothing follows them.                                              *)

Unfollowed(r) == [r EXCEPT !.rest = <<>>]

\* What the host that dies had still to store.
Unstored(h, k) ==
  {a \in Activities :
     \/ \E i \in k + 1 .. Len(sent[h]) :
          sent[h][i].job = "store" /\ a \in Elements(sent[h][i].now)
     \/ \E i \in DOMAIN sent[h] :
          sent[h][i].job = "store" /\ a \in Elements(sent[h][i].rest)
     \/ \E p \in replied : p.host = h /\ p.job = "store" /\ a \in Elements(p.rest)}

CrashHost(h, k) ==
  /\ crashes < MaxCrashes
  /\ crashes' = crashes + 1
  /\ sent' = [sent EXCEPT ![h] = [i \in 1 .. k |-> Unfollowed(@[i])]]
  /\ starting' = [starting EXCEPT ![h] = <<>>]
  /\ replied' = {p \in replied : p.host # h}
  /\ past' = [past EXCEPT !.lost = @ \cup Unstored(h, k)]
  /\ UNCHANGED <<hash, timeline, copies, made>>

-----------------------------------------------------------------------------
Copying ==
  \/ \E c \in copies : ReadPage(c)
  \/ \E c \in copies : \E a \in c.left : LookUp(c, a)
  \/ \E c \in copies : \E members \in SUBSET c.found : WriteCopies(c, members)

Importing ==
  \/ \E h \in Hosts : SendFirst(h)
  \/ \E h \in Hosts : Arrive(h)
  \/ \E p \in replied : Continue(p)

Next ==
  \/ \E h \in Hosts : \E i \in Imports : BatchImport(h, i[1], i[2])
  \/ \E f \in Follows : FollowFeed(f[1], f[2])
  \/ Importing
  \/ Copying
  \/ \E h \in Hosts : \E k \in 0 .. Len(sent[h]) : CrashHost(h, k)

Spec == Init /\ [][Next]_vars

\* What was sent arrives, and a host that runs sends what it has begun and what comes
\* next.
FairSpec == Spec /\ WF_vars(Importing) /\ WF_vars(Copying)

-----------------------------------------------------------------------------
(* Properties *)

\* An insertion into the storage still has activity a before it.
ToBeStored(a) ==
  \/ \E h \in Hosts : \E i \in DOMAIN sent[h] :
       /\ sent[h][i].job = "store"
       /\ a \in Elements(sent[h][i].now) \cup Elements(sent[h][i].rest)
  \/ \E p \in replied : p.job = "store" /\ a \in Elements(p.rest)

\* A feed refers to an activity that is not stored only while an import into this
\* very feed has still to store it, or after a crash that stopped one.  A copy never
\* spreads such a reference: followFeed fails on the page.
DanglingExplained ==
  \A u \in Users : \A a \in timeline[u] \ store :
    /\ <<u, a>> \in past.imported
    /\ ToBeStored(a) \/ a \in past.lost

\* The first activity of a chunk is stored before the feed refers to it, whatever
\* arrives when and whoever dies, for every zAdd of an import is sent after the first
\* hSets of all its chunks: only an activity that was further back in the chunk of
\* some import can be missing, and an import in chunks of one is safe.
HeadsStored ==
  \A u \in Users : \A a \in timeline[u] \ store : <<u, a>> \in past.inner

\* What is read back of a stored activity is its id, actor, verb, object and target,
\* and its context if this is one piece; its time never is.
ReadBack ==
  \A a \in store : Parses(hash[a]) =>
    LET b == Loads(hash[a]) IN
    /\ b.id = <<"id", a>> /\ b.actor = <<"actor", a>>
    /\ b.verb = <<"verb", a>> /\ b.object = <<"object", a>>
    /\ b.target = IF a \in HasTarget THEN <<"target", a>> ELSE <<"null">>
    /\ ContextParts[a] = 1 => b.context = <<"context", a, 1>>

\* Every reference is good in the end, or its import has died: a page that reads as
\* null during an import can be read after it.
ReferencesSettle ==
  \A u \in Users, a \in Activities :
    (a \in timeline[u]) ~> (a \in store \/ a \in past.lost)

\* What is imported is in the feed and in the storage in the end, unless a host has
\* crashed.
ImportsComplete ==
  \A u \in Users, a \in Activities :
    (<<u, a>> \in past.imported) ~> ((a \in timeline[u] /\ a \in store) \/ crashes > 0)
=============================================================================
