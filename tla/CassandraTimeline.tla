-------------------------- MODULE CassandraTimeline --------------------------
(***************************************************************************)
(* The timeline of one feed in Cassandra (CassandraTimelineStorage).       *)
(*                                                                         *)
(* A row holds one activity; rows are ordered by activity id, newest id    *)
(* first.  Cassandra settles concurrent requests by their timestamps,      *)
(* which the driver of the sending host stamps on them: an activity is     *)
(* live when it was written after it was last removed and after the time   *)
(* to which the feed was last trimmed.  Requests arrive in any order.      *)
(*                                                                         *)
(* trim first reads when the last activities to keep were written, then    *)
(* deletes everything written up to the middle of two of these times.      *)
(* Adds, removals and trims of other hosts come in between, and the        *)
(* clocks of the hosts differ by up to MaxSkew.                            *)
(*                                                                         *)
(* A definition marked "slip" is the one after it with a plausible mistake *)
(* in it.  No action uses it; it shows that a property can fail.           *)
(***************************************************************************)
EXTENDS Naturals, FiniteSets

CONSTANTS
  Activities,    \* the activities
  TimeOf,        \* their order by id (a timeuuid)
  Hosts,         \* the processes that use the feed
  Adds,          \* the sets of activities the application adds in one call
  BatchSize,     \* the size of the largest of them
  MaxLength,     \* the length trim is called with (maxLength of the feed)
  MaxSkew,       \* how far apart the clocks of two hosts are
  MaxNow,        \* bound: the last time on a clock
  MaxCalls       \* bound: calls of the storage

ASSUME TimelineAssumption ==
  /\ TimeOf \in [Activities -> Nat]
  /\ \A a, b \in Activities : TimeOf[a] = TimeOf[b] => a = b
  /\ Adds \subseteq SUBSET Activities
  /\ \A acts \in Adds : IsFiniteSet(acts) /\ Cardinality(acts) \in 1 .. BatchSize
  /\ {BatchSize, MaxLength} \subseteq Nat \ {0}
  /\ {MaxSkew, MaxNow, MaxCalls} \subseteq Nat

VARIABLES
  now,        \* the clock of every host (Date.now)
  last,       \* the last timestamp the driver of a host has given
  written,    \* when an activity was last written; 0: never
  removed,    \* when it was last removed; 0: never
  trimmedTo,  \* everything written up to this time is deleted
  requests,   \* writes on their way to Cassandra
  trims,      \* trim calls that wait for their query or its reply
  calls,      \* calls made so far; numbers the trims
  lastCall,   \* history: who has added or removed an activity, and the last to
  cutBy       \* history: the latest time up to which a host has deleted

vars == <<now, last, written, removed, trimmedTo, requests, trims, calls,
          lastCall, cutBy>>

-----------------------------------------------------------------------------
\* acts: the rows a request inserts or removes; for a delete, those of the page
\* its trim has read that it is to delete, and at is the time it deletes up to.
Request == [op : {"insert", "remove", "delete"}, host : Hosts,
            acts : SUBSET Activities, at : Nat]

TrimCall == [id : Nat, host : Hosts, at : {"query", "reply"},
             acts : SUBSET Activities, cut : Nat]

TypeOK ==
  /\ now \in [Hosts -> Nat]
  /\ last \in [Hosts -> Nat]
  /\ written \in [Activities -> Nat]
  /\ removed \in [Activities -> Nat]
  /\ trimmedTo \in Nat
  /\ requests \in SUBSET Request
  /\ trims \in SUBSET TrimCall
  /\ calls \in Nat
  /\ lastCall \in [Activities -> [by : SUBSET Hosts, op : {"insert", "remove"}]]
  /\ cutBy \in [Hosts -> Nat]

Init ==
  /\ now = [h \in Hosts |-> 1]
  /\ last = [h \in Hosts |-> 0]
  /\ written = [a \in Activities |-> 0]
  /\ removed = [a \in Activities |-> 0]
  /\ trimmedTo = 0
  /\ requests = {}
  /\ trims = {}
  /\ calls = 0
  /\ lastCall = [a \in Activities |-> [by |-> {}, op |-> "remove"]]
  /\ cutBy = [h \in Hosts |-> 0]

-----------------------------------------------------------------------------
Later(s, t) == IF s < t THEN t ELSE s

Live == {a \in Activities : written[a] > removed[a] /\ written[a] > trimmedTo}

Newest(acts, n) ==
  {a \in acts : Cardinality({b \in acts : TimeOf[b] > TimeOf[a]}) < n}

Oldest(acts) == CHOOSE a \in acts : \A b \in acts : TimeOf[a] <= TimeOf[b]

\* Slip: the driver stamps a request with the clock alone.
StampByClock(h) == now[h]

\* The timestamp the driver of host h gives the next request.
Stamp(h) == Later(now[h], last[h] + 1)

\* The time passes on host h.
Tick(h) ==
  /\ now[h] < MaxNow
  /\ \A g \in Hosts \ {h} : now[h] < now[g] + MaxSkew
  /\ now' = [now EXCEPT ![h] = @ + 1]
  /\ UNCHANGED <<last, written, removed, trimmedTo, requests, trims, calls,
                 lastCall, cutBy>>

\* Host h sends the insert or the removal of some activities, in one batch with
\* one timestamp.
SendBatch(h, op, acts) ==
  /\ calls < MaxCalls
  /\ calls' = calls + 1
  /\ last' = [last EXCEPT ![h] = Stamp(h)]
  /\ requests' = requests \cup
                   {[op |-> op, host |-> h, acts |-> acts, at |-> Stamp(h)]}
  /\ lastCall' = [a \in Activities |->
       IF a \in acts THEN [by |-> lastCall[a].by \cup {h}, op |-> op]
       ELSE lastCall[a]]
  /\ UNCHANGED <<now, written, removed, trimmedTo, trims, cutBy>>

AddToStorage(h, acts) == SendBatch(h, "insert", acts)

RemoveFromStorage(h, acts) == SendBatch(h, "remove", acts)

\* Host h calls trim: the query for the times of writing leaves.  Nobody awaits
\* the call, so any number of them are under way.
StartTrim(h) ==
  /\ calls < MaxCalls
  /\ calls' = calls + 1
  /\ last' = [last EXCEPT ![h] = Stamp(h)]
  /\ trims' = trims \cup {[id |-> calls, host |-> h, at |-> "query",
                           acts |-> {}, cut |-> 0]}
  /\ UNCHANGED <<now, written, removed, trimmedTo, requests, lastCall, cutBy>>

\* Slip: deletes what was written before the middle, but not at it.
CutBeforeMiddle(page) ==
  LET end == Oldest(page)
      before == Oldest(page \ {end})
  IN  (written[end] + written[before]) \div 2 - 1

\* Slip: the span of the two times in place of their middle.
CutAtSpan(page) ==
  LET end == Oldest(page)
      before == Oldest(page \ {end})
  IN  written[end] - written[before]

\* The middle, rounded down, of the times at which the last two rows of the page
\* were written.
Cut(page) ==
  LET end == Oldest(page)
      before == Oldest(page \ {end})
  IN  (written[end] + written[before]) \div 2

\* Cassandra answers the query with the MaxLength + 1 newest rows.  A page of
\* fewer than MaxLength rows ends the trim, and so does (with an error) a page
\* of one row, which has no last but one.
ReadWriteTimes(t) ==
  LET page == Newest(Live, MaxLength + 1)
  IN  /\ t.at = "query"
      /\ \/ /\ Cardinality(page) >= MaxLength
            /\ Cardinality(page) >= 2
            /\ trims' = (trims \ {t}) \cup
                 {[t EXCEPT !.at = "reply", !.cut = Cut(page),
                            !.acts = {a \in page : written[a] <= Cut(page)}]}
         \/ /\ Cardinality(page) < MaxLength \/ Cardinality(page) < 2
            /\ trims' = trims \ {t}
      /\ UNCHANGED <<now, last, written, removed, trimmedTo, requests, calls,
                     lastCall, cutBy>>

\* Slip: without the safety check.
SendDeleteUnchecked(t) ==
  /\ t.at = "reply"
  /\ trims' = trims \ {t}
  /\ requests' = requests \cup
       {[op |-> "delete", host |-> t.host, acts |-> t.acts, at |-> t.cut]}
  /\ last' = [last EXCEPT ![t.host] = Stamp(t.host)]
  /\ cutBy' = [cutBy EXCEPT ![t.host] = Later(@, t.cut)]
  /\ UNCHANGED <<now, written, removed, trimmedTo, calls, lastCall>>

\* The reply is back.  A trim that would delete what is not written yet fails;
\* any other sends its delete, with the time to delete up to as its timestamp.
SendDelete(t) ==
  /\ t.at = "reply"
  /\ trims' = trims \ {t}
  /\ \/ /\ t.cut > now[t.host]
        /\ UNCHANGED <<requests, last, cutBy>>
     \/ /\ t.cut <= now[t.host]
        /\ requests' = requests \cup
             {[op |-> "delete", host |-> t.host, acts |-> t.acts, at |-> t.cut]}
        /\ last' = [last EXCEPT ![t.host] = Stamp(t.host)]
        /\ cutBy' = [cutBy EXCEPT ![t.host] = Later(@, t.cut)]
  /\ UNCHANGED <<now, written, removed, trimmedTo, calls, lastCall>>

\* The times after a request has set those of some activities to its own; an
\* earlier time never replaces a later one.
Stamped(times, r) ==
  [a \in Activities |-> IF a \in r.acts THEN Later(times[a], r.at) ELSE times[a]]

\* A request reaches Cassandra.
Arrive(r) ==
  /\ requests' = requests \ {r}
  /\ written' = IF r.op = "insert" THEN Stamped(written, r) ELSE written
  /\ removed' = IF r.op = "remove" THEN Stamped(removed, r) ELSE removed
  /\ trimmedTo' = IF r.op = "delete" THEN Later(trimmedTo, r.at) ELSE trimmedTo
  /\ UNCHANGED <<now, last, trims, calls, lastCall, cutBy>>

-----------------------------------------------------------------------------
Next ==
  \/ \E h \in Hosts :
       \/ Tick(h)
       \/ \E acts \in Adds : AddToStorage(h, acts)
       \/ \E a \in Activities : RemoveFromStorage(h, {a})
       \/ StartTrim(h)
  \/ \E t \in trims : ReadWriteTimes(t) \/ SendDelete(t)
  \/ \E r \in requests : Arrive(r)

Spec == Init /\ [][Next]_vars

-----------------------------------------------------------------------------
(* Properties *)

\* What a host writes after a trim of its own stays: the time up to which it has
\* deleted lies before the timestamp of its next request, although it is computed
\* from rows that hosts with other clocks have written.  (The safety check before
\* the delete is there for this: a delete in the future would swallow every
\* insert until then.)
NextWriteLives == \A h \in Hosts : cutBy[h] < Stamp(h)

\* A trim that deletes shortens the feed: it is sent for at least one row of the
\* page it has read, and once it arrives those rows are gone, save those written
\* again in between.
TrimBites ==
  [][\A r \in requests \ requests' :
       r.op = "delete" =>
         /\ r.acts # {}
         /\ \A a \in r.acts : a \notin Live' \/ written[a] > r.at]_vars

\* The order in which a host calls is the order that counts, whatever the order
\* of arrival: once all its calls about an activity that no other host touches
\* have arrived, the activity is there if and only if the last one added it,
\* unless a trim has taken it.
OwnOrder ==
  \A a \in Activities :
    /\ Cardinality(lastCall[a].by) = 1
    /\ \A r \in requests : r.op # "delete" => a \notin r.acts
    => (written[a] > removed[a] <=> lastCall[a].op = "insert")

\* A trim of a longer feed deletes at most BatchSize - 1 activities more than
\* those beyond MaxLength (CassandraTimelineStorage.ts:116-117).
TrashBounded ==
  [][Cardinality(Live) > MaxLength /\ trimmedTo' # trimmedTo
       => Cardinality(Live') + BatchSize - 1 >= MaxLength]_vars
=============================================================================
