---------------------------- MODULE FeedDelivery ----------------------------
(***************************************************************************)
(* What the feed manager promises, without calls, queues, jobs, workers    *)
(* and requests: the application asks for something, and some time later   *)
(* an activity is stored, shown to users or taken from them, or a feed is  *)
(* cut to its length.  FeedTasks implements this (Delivery there).         *)
(***************************************************************************)
EXTENDS Naturals, FiniteSets

CONSTANTS
  Users,       \* the users, each with a feed
  Activities,  \* the activities
  Actor,       \* whose activity it is
  Target,      \* whom or what it is about
  TimeOf,      \* its time
  MaxLength    \* how many activities a feed is cut to

VARIABLES
  posted,      \* what the application has asked for: pairs of a user and an
  withdrawn,   \*   activity added and removed,
  followed,    \*   pairs of a user and a target followed
  unfollowed,  \*   and unfollowed
  stored,      \* the activities that can be looked up
  feed         \* what every user is shown

asked == <<posted, withdrawn, followed, unfollowed>>
vars == <<asked, stored, feed>>

Init ==
  /\ asked = <<{}, {}, {}, {}>>
  /\ stored = {}
  /\ feed = [u \in Users |-> {}]

-----------------------------------------------------------------------------
(* The application asks *)

Asks == UNCHANGED <<stored, feed>>

Add(u, a) ==
  /\ posted' = posted \cup {<<u, a>>}
  /\ UNCHANGED <<withdrawn, followed, unfollowed>> /\ Asks

\* Only what was added can be removed.
Remove(u, a) ==
  /\ <<u, a>> \in posted
  /\ withdrawn' = withdrawn \cup {<<u, a>>}
  /\ UNCHANGED <<posted, followed, unfollowed>> /\ Asks

Follow(v, T) ==
  /\ followed' = followed \cup ({v} \X T)
  /\ UNCHANGED <<posted, withdrawn, unfollowed>> /\ Asks

\* Only who was followed can be unfollowed.
Unfollow(v, T) ==
  /\ {v} \X T \subseteq followed
  /\ unfollowed' = unfollowed \cup ({v} \X T)
  /\ UNCHANGED <<posted, withdrawn, followed>> /\ Asks

-----------------------------------------------------------------------------
(* The system answers *)

About(a, t) == Actor[a] = t \/ Target[a] = t

MayShow(v, a) ==
  /\ a \in stored
  /\ \/ <<v, a>> \in posted
     \/ \E t \in Users : <<v, t>> \in followed /\ (<<t, a>> \in posted \/ About(a, t))

MayHide(v, a) ==
  \/ \E t \in Users : <<t, a>> \in withdrawn /\ (t = v \/ <<v, t>> \in followed)
  \/ \E t \in Users : <<v, t>> \in unfollowed /\ About(a, t)

Newest(S) == {a \in S : Cardinality({b \in S : TimeOf[b] > TimeOf[a]}) < MaxLength}

Store(u, a) ==
  /\ <<u, a>> \in posted
  /\ stored' = stored \cup {a}
  /\ UNCHANGED <<asked, feed>>

Show(v, S) ==
  /\ \A a \in S : MayShow(v, a)
  /\ feed' = [feed EXCEPT ![v] = @ \cup S]
  /\ UNCHANGED <<asked, stored>>

Hide(v, a) ==
  /\ MayHide(v, a)
  /\ feed' = [feed EXCEPT ![v] = @ \ {a}]
  /\ UNCHANGED <<asked, stored>>

Shorten(v) ==
  /\ feed' = [feed EXCEPT ![v] = Newest(@)]
  /\ UNCHANGED <<asked, stored>>

Next ==
  \/ \E u \in Users, a \in Activities : Add(u, a) \/ Remove(u, a) \/ Store(u, a)
  \/ \E v \in Users, T \in SUBSET Users : Follow(v, T) \/ Unfollow(v, T)
  \/ \E v \in Users : \/ \E S \in SUBSET Activities : Show(v, S)
                      \/ \E a \in Activities : Hide(v, a)
                      \/ Shorten(v)

Spec == Init /\ [][Next]_vars
=============================================================================
