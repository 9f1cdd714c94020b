----------------------- MODULE CassandraTimelineProofs -----------------------
(***************************************************************************)
(* What holds of CassandraTimeline for any activities, hosts, batches,     *)
(* lengths, clocks and number of calls.                                    *)
(***************************************************************************)
EXTENDS CassandraTimeline, FiniteSetTheorems, WellFoundedInduction, TLAPS

-----------------------------------------------------------------------------
(* The operators *)

LEMMA LaterType ==
  ASSUME NEW s \in Nat, NEW t \in Nat
  PROVE  /\ Later(s, t) \in Nat
         /\ Later(s, t) >= s
         /\ Later(s, t) >= t
         /\ Later(s, t) \in {s, t}
  BY DEF Later

LEMMA StampAdvances ==
  ASSUME TypeOK, NEW h \in Hosts
  PROVE  /\ Stamp(h) \in Nat
         /\ Stamp(h) > last[h]
         /\ Stamp(h) >= now[h]
  BY DEF TypeOK, Stamp, Later

LEMMA OldestIsOne ==
  ASSUME NEW acts \in SUBSET Activities, acts # {}
  PROVE  /\ Oldest(acts) \in acts
         /\ \A b \in acts : TimeOf[Oldest(acts)] <= TimeOf[b]
<1> DEFINE Times == {TimeOf[a] : a \in acts}
           Less == OpToRel(<, Nat)
<1>1. Times \subseteq Nat /\ Times # {}
  BY TimelineAssumption
<1>2. IsWellFoundedOn(Less, Nat)
  BY NatLessThanWellFounded
<1> HIDE DEF Less
<1>3. PICK t \in Times : \A s \in Times : ~ (<<s, t>> \in Less)
  BY <1>1, <1>2, WFMin
<1>4. \A s \in Times : t <= s
  <2> HIDE DEF Times
  <2> TAKE s \in Times
  <2>1. s \in Nat /\ t \in Nat
    BY <1>1, <1>3
  <2>2. CASE s < t
    <3>1. <<s, t>> \in Less
      BY <2>1, <2>2 DEF Less, OpToRel
    <3> QED
      BY <1>3, <3>1
  <2> QED
    BY <2>1, <2>2
<1>5. \E a \in acts : \A b \in acts : TimeOf[a] <= TimeOf[b]
  BY <1>4
<1> QED
  BY <1>5 DEF Oldest

\* A page of two or more rows has a last one and a last but one.
LEMMA PageHasTwo ==
  ASSUME NEW page \in SUBSET Activities, Cardinality(page) >= 2
  PROVE  /\ Oldest(page) \in page
         /\ Oldest(page \ {Oldest(page)}) \in page
<1>1. page # {}
  BY FS_EmptySet
<1>2. Oldest(page) \in page
  BY <1>1, OldestIsOne
<1>3. page # {Oldest(page)}
  BY FS_Singleton
<1>4. page \ {Oldest(page)} # {}
  BY <1>2, <1>3
<1> QED
  BY <1>2, <1>4, OldestIsOne

\* The cut is a time, and one of the rows of the page was written up to it.
LEMMA CutTakesOne ==
  ASSUME TypeOK, NEW page \in SUBSET Activities, Cardinality(page) >= 2
  PROVE  /\ Cut(page) \in Nat
         /\ \E a \in page : written[a] <= Cut(page)
<1> DEFINE end == Oldest(page)
           before == Oldest(page \ {end})
<1>1. end \in page /\ before \in page
  BY PageHasTwo
<1> HIDE DEF end, before
<1>2. written[end] \in Nat /\ written[before] \in Nat
  BY <1>1 DEF TypeOK
<1>3. Cut(page) = (written[end] + written[before]) \div 2
  BY DEF Cut, end, before
<1> QED
  BY <1>1, <1>2, <1>3

-----------------------------------------------------------------------------
(* Type correctness *)

LEMMA InitTypeOK == Init => TypeOK
  BY DEF Init, TypeOK

LEMMA StepTypeOK == ASSUME TypeOK, [Next]_vars PROVE TypeOK'
<1>1. ASSUME NEW h \in Hosts, Tick(h) PROVE TypeOK'
  BY <1>1 DEF TypeOK, Tick
<1>2. ASSUME NEW h \in Hosts, NEW op \in {"insert", "remove"},
             NEW acts \in SUBSET Activities, SendBatch(h, op, acts)
      PROVE  TypeOK'
  <2>1. [op |-> op, host |-> h, acts |-> acts, at |-> Stamp(h)] \in Request
    BY StampAdvances DEF Request
  <2>2. last' \in [Hosts -> Nat]
    BY <1>2, StampAdvances DEF TypeOK, SendBatch
  <2>3. lastCall' \in [Activities -> [by : SUBSET Hosts, op : {"insert", "remove"}]]
    BY <1>2 DEF TypeOK, SendBatch
  <2> QED
    BY <1>2, <2>1, <2>2, <2>3 DEF TypeOK, SendBatch
<1>3. ASSUME NEW h \in Hosts, StartTrim(h) PROVE TypeOK'
  <2>1. [id |-> calls, host |-> h, at |-> "query", acts |-> {}, cut |-> 0] \in TrimCall
    BY DEF TypeOK, TrimCall
  <2>2. last' \in [Hosts -> Nat]
    BY <1>3, StampAdvances DEF TypeOK, StartTrim
  <2>3. trims' \in SUBSET TrimCall /\ calls' \in Nat
    <3> HIDE DEF TrimCall
    <3>1. trims' = trims \cup {[id |-> calls, host |-> h, at |-> "query",
                                acts |-> {}, cut |-> 0]}
      BY <1>3 DEF StartTrim
    <3>2. calls' = calls + 1
      BY <1>3 DEF StartTrim
    <3>3. trims' \in SUBSET TrimCall
      BY <2>1, <3>1 DEF TypeOK
    <3>4. calls' \in Nat
      BY <3>2 DEF TypeOK
    <3> QED
      BY <3>3, <3>4
  <2>4. UNCHANGED <<now, written, removed, trimmedTo, requests, lastCall, cutBy>>
    BY <1>3 DEF StartTrim
  <2> QED
    BY <2>2, <2>3, <2>4 DEF TypeOK
<1>4. ASSUME NEW t \in trims, ReadWriteTimes(t) PROVE TypeOK'
  <2> DEFINE page == Newest(Live, MaxLength + 1)
  <2>1. page \in SUBSET Activities
    BY DEF Newest, Live
  <2> t \in TrimCall
    BY DEF TypeOK
  <2>2. Cardinality(page) >= 2 =>
          [t EXCEPT !.at = "reply", !.cut = Cut(page),
                    !.acts = {a \in page : written[a] <= Cut(page)}] \in TrimCall
    <3> HIDE DEF page
    <3> SUFFICES ASSUME Cardinality(page) >= 2
                 PROVE [t EXCEPT !.at = "reply", !.cut = Cut(page),
                    !.acts = {a \in page : written[a] <= Cut(page)}] \in TrimCall
      OBVIOUS
    <3>1. Cut(page) \in Nat
      BY <2>1, CutTakesOne
    <3> QED
      BY <2>1, <3>1 DEF TrimCall
  <2> HIDE DEF page
  <2>3. trims' \in SUBSET TrimCall
    BY <1>4, <2>2 DEF TypeOK, ReadWriteTimes, page
  <2> QED
    BY <1>4, <2>3 DEF TypeOK, ReadWriteTimes
<1>5. ASSUME NEW t \in trims, SendDelete(t) PROVE TypeOK'
  <2> t \in TrimCall
    BY DEF TypeOK
  <2>1. t.host \in Hosts /\ t.cut \in Nat /\ t.acts \in SUBSET Activities
    BY DEF TrimCall
  <2>2. [op |-> "delete", host |-> t.host, acts |-> t.acts, at |-> t.cut] \in Request
    BY <2>1 DEF Request
  <2>3. last' \in [Hosts -> Nat]
    BY <1>5, <2>1, StampAdvances DEF TypeOK, SendDelete
  <2>4. cutBy' \in [Hosts -> Nat]
    <3>1. cutBy \in [Hosts -> Nat]
      BY DEF TypeOK
    <3>2. Later(cutBy[t.host], t.cut) \in Nat
      BY <2>1, <3>1, LaterType
    <3>3. \/ cutBy' = cutBy
          \/ cutBy' = [cutBy EXCEPT ![t.host] = Later(cutBy[t.host], t.cut)]
      BY <1>5 DEF SendDelete
    <3> QED
      BY <3>1, <3>2, <3>3
  <2> QED
    BY <1>5, <2>2, <2>3, <2>4 DEF TypeOK, SendDelete
<1>6. ASSUME NEW r \in requests, Arrive(r) PROVE TypeOK'
  <2> r \in Request
    BY DEF TypeOK
  <2>1. r.at \in Nat
    BY DEF Request
  <2>2. /\ Stamped(written, r) \in [Activities -> Nat]
        /\ Stamped(removed, r) \in [Activities -> Nat]
    BY <2>1, LaterType DEF TypeOK, Stamped
  <2>3. Later(trimmedTo, r.at) \in Nat
    BY <2>1, LaterType DEF TypeOK
  <2> QED
    BY <1>6, <2>2, <2>3 DEF TypeOK, Arrive
<1>7. CASE UNCHANGED vars
  BY <1>7 DEF TypeOK, vars
<1>8. ASSUME NEW h \in Hosts, NEW acts \in Adds, AddToStorage(h, acts)
      PROVE  TypeOK'
  <2>1. acts \in SUBSET Activities
    BY TimelineAssumption
  <2> QED
    BY <1>2, <1>8, <2>1 DEF AddToStorage
<1>9. ASSUME NEW h \in Hosts, NEW a \in Activities, RemoveFromStorage(h, {a})
      PROVE  TypeOK'
  BY <1>2, <1>9 DEF RemoveFromStorage
<1> QED
  BY <1>1, <1>3, <1>4, <1>5, <1>6, <1>7, <1>8, <1>9 DEF Next

\* Every variable keeps its type: a cut in particular is always a time.
THEOREM TypeCorrect == Spec => []TypeOK
<1>1. TypeOK /\ [Next]_vars => TypeOK'
  BY StepTypeOK
<1> QED
  BY InitTypeOK, <1>1, PTL DEF Spec

-----------------------------------------------------------------------------
(* What a host writes after its own trims *)

LEMMA StepNextWriteLives ==
  ASSUME TypeOK, NextWriteLives, [Next]_vars
  PROVE  NextWriteLives'
<1> SUFFICES ASSUME NEW g \in Hosts PROVE cutBy'[g] < Stamp(g)'
  BY DEF NextWriteLives
<1>1. /\ cutBy[g] \in Nat /\ last[g] \in Nat /\ now[g] \in Nat
      /\ cutBy[g] < Stamp(g)
  BY DEF TypeOK, NextWriteLives
<1>2. Stamp(g)' = Later(now'[g], last'[g] + 1)
  BY DEF Stamp, Later
<1>3. /\ now'[g] \in Nat /\ last'[g] \in Nat
      /\ now'[g] >= now[g] /\ last'[g] >= last[g] /\ cutBy'[g] = cutBy[g]
      => cutBy'[g] < Stamp(g)'
  BY <1>1, <1>2 DEF Stamp, Later
<1>4. last' = [last EXCEPT ![g] = Stamp(g)] /\ now' = now
      => last'[g] = Stamp(g) /\ Stamp(g)' > Stamp(g)
  BY <1>1, <1>2 DEF TypeOK, Stamp, Later
<1>5. \A h \in Hosts : last' = [last EXCEPT ![h] = Stamp(h)] =>
        last'[g] \in Nat /\ last'[g] >= last[g]
  <2> TAKE h \in Hosts
  <2>1. Stamp(h) \in Nat /\ Stamp(h) > last[h]
    BY StampAdvances
  <2> QED
    BY <1>1, <2>1 DEF TypeOK
<1>6. ASSUME NEW h \in Hosts, Tick(h) PROVE cutBy'[g] < Stamp(g)'
  <2>1. now'[g] \in Nat /\ now'[g] >= now[g]
    BY <1>1, <1>6 DEF TypeOK, Tick
  <2> QED
    BY <1>1, <1>3, <1>6, <2>1 DEF Tick
<1>7. ASSUME NEW h \in Hosts, NEW op, NEW acts, SendBatch(h, op, acts)
      PROVE  cutBy'[g] < Stamp(g)'
  <2>1. last' = [last EXCEPT ![h] = Stamp(h)] /\ now' = now /\ cutBy' = cutBy
    BY <1>7 DEF SendBatch
  <2>2. last'[g] \in Nat /\ last'[g] >= last[g]
    BY <1>5, <2>1
  <2>3. now'[g] >= now[g]
    BY <1>1, <2>1
  <2> QED
    BY <1>1, <1>3, <2>1, <2>2, <2>3
<1>8. ASSUME NEW h \in Hosts, StartTrim(h) PROVE cutBy'[g] < Stamp(g)'
  <2>1. last' = [last EXCEPT ![h] = Stamp(h)] /\ now' = now /\ cutBy' = cutBy
    BY <1>8 DEF StartTrim
  <2>2. last'[g] \in Nat /\ last'[g] >= last[g]
    BY <1>5, <2>1
  <2>3. now'[g] >= now[g]
    BY <1>1, <2>1
  <2> QED
    BY <1>1, <1>3, <2>1, <2>2, <2>3
<1>9. ASSUME NEW t \in trims, SendDelete(t) PROVE cutBy'[g] < Stamp(g)'
  <2>1. t.host \in Hosts /\ t.cut \in Nat
    BY DEF TypeOK, TrimCall
  <2>2. now' = now
    BY <1>9 DEF SendDelete
  <2>3. CASE last' = last /\ cutBy' = cutBy
    BY <1>1, <1>3, <2>2, <2>3
  <2>4. CASE /\ t.cut <= now[t.host]
             /\ last' = [last EXCEPT ![t.host] = Stamp(t.host)]
             /\ cutBy' = [cutBy EXCEPT ![t.host] = Later(cutBy[t.host], t.cut)]
    <3>1. CASE t.host = g
      <4>1. cutBy'[g] = Later(cutBy[g], t.cut)
        BY <2>4, <3>1 DEF TypeOK
      <4>2. cutBy'[g] <= cutBy[g] \/ cutBy'[g] <= now[g]
        BY <1>1, <2>1, <2>4, <3>1, <4>1 DEF Later
      <4>3. cutBy'[g] \in Nat
        BY <1>1, <2>1, <4>1, LaterType
      <4>4. Stamp(g) \in Nat /\ Stamp(g) >= now[g]
        BY StampAdvances
      <4>5. Stamp(g)' \in Nat /\ Stamp(g)' > Stamp(g)
        BY <1>2, <2>2, <2>4, <3>1, <4>4 DEF TypeOK, Later
      <4> QED
        BY <1>1, <4>2, <4>3, <4>4, <4>5
    <3>2. CASE t.host # g
      <4>1. cutBy'[g] = cutBy[g]
        BY <2>1, <2>4, <3>2 DEF TypeOK
      <4>2. last'[g] \in Nat /\ last'[g] >= last[g]
        BY <1>5, <2>1, <2>4
      <4>3. now'[g] >= now[g]
        BY <1>1, <2>2
      <4> QED
        BY <1>1, <1>3, <2>2, <4>1, <4>2, <4>3
    <3> QED
      BY <3>1, <3>2
  <2> QED
    BY <1>9, <2>3, <2>4 DEF SendDelete
<1>10. ASSUME UNCHANGED <<now, last, cutBy>> PROVE cutBy'[g] < Stamp(g)'
  BY <1>1, <1>3, <1>10
<1> QED
  BY <1>6, <1>7, <1>8, <1>9, <1>10
     DEF Next, vars, AddToStorage, RemoveFromStorage, ReadWriteTimes, Arrive

\* No host deletes up to a time at which it could still write: an insert a host
\* sends after a trim of its own outlives that trim, however far apart the clocks.
THEOREM OwnWritesLive == Spec => []NextWriteLives
<1>1. Init => NextWriteLives
  BY DEF Init, NextWriteLives, Stamp, Later
<1>2. TypeOK /\ NextWriteLives /\ [Next]_vars => NextWriteLives'
  BY StepNextWriteLives
<1> QED
  BY <1>1, <1>2, TypeCorrect, PTL DEF Spec

-----------------------------------------------------------------------------
(* What a delete does *)

\* A trim whose query was answered, and the delete it sends, are for some row.
DeletesSome ==
  /\ \A t \in trims : t.at = "reply" => t.acts # {}
  /\ \A r \in requests : r.op = "delete" => r.acts # {}

LEMMA StepDeletesSome ==
  ASSUME TypeOK, DeletesSome, [Next]_vars
  PROVE  DeletesSome'
<1>1. ASSUME NEW h \in Hosts, NEW op \in {"insert", "remove"}, NEW acts,
             SendBatch(h, op, acts)
      PROVE  DeletesSome'
  BY <1>1 DEF DeletesSome, SendBatch
<1>2. ASSUME NEW h \in Hosts, StartTrim(h) PROVE DeletesSome'
  BY <1>2 DEF DeletesSome, StartTrim
<1>3. ASSUME NEW t \in trims, ReadWriteTimes(t) PROVE DeletesSome'
  <2> DEFINE page == Newest(Live, MaxLength + 1)
             rows == {a \in page : written[a] <= Cut(page)}
  <2>1. page \in SUBSET Activities
    BY DEF Newest, Live
  <2>2. Cardinality(page) >= 2 => rows # {}
    <3> HIDE DEF page
    <3> QED
      BY <2>1, CutTakesOne
  <2>3. t \in TrimCall
    BY DEF TypeOK
  <2>4. \/ trims' = trims \ {t}
        \/ /\ rows # {}
           /\ trims' = (trims \ {t}) \cup
                {[t EXCEPT !.at = "reply", !.cut = Cut(page), !.acts = rows]}
    BY <1>3, <2>2 DEF ReadWriteTimes
  <2> HIDE DEF page, rows
  <2>5. [t EXCEPT !.at = "reply", !.cut = Cut(page), !.acts = rows].acts = rows
    BY <2>3 DEF TrimCall
  <2>6. requests' = requests
    BY <1>3 DEF ReadWriteTimes
  <2> QED
    BY <2>4, <2>5, <2>6 DEF DeletesSome
<1>4. ASSUME NEW t \in trims, SendDelete(t) PROVE DeletesSome'
  <2>1. t.acts # {}
    BY <1>4 DEF DeletesSome, SendDelete
  <2>2. \/ requests' = requests
        \/ requests' = requests \cup
             {[op |-> "delete", host |-> t.host, acts |-> t.acts, at |-> t.cut]}
    BY <1>4 DEF SendDelete
  <2>3. trims' = trims \ {t}
    BY <1>4 DEF SendDelete
  <2> QED
    BY <2>1, <2>2, <2>3 DEF DeletesSome
<1>5. ASSUME NEW r \in requests, Arrive(r) PROVE DeletesSome'
  BY <1>5 DEF DeletesSome, Arrive
<1>6. ASSUME UNCHANGED <<requests, trims>> PROVE DeletesSome'
  BY <1>6 DEF DeletesSome
<1> QED
  BY <1>1, <1>2, <1>3, <1>4, <1>5, <1>6
     DEF Next, vars, Tick, AddToStorage, RemoveFromStorage

\* Once a delete has arrived, its rows are gone or were written after it.
LEMMA ArrivedDelete ==
  ASSUME TypeOK, NEW r \in requests, Arrive(r), r.op = "delete",
         NEW a \in r.acts, a \in Live'
  PROVE  written[a] > r.at
<1>1. r.at \in Nat /\ a \in Activities /\ trimmedTo \in Nat
  BY DEF TypeOK, Request
<1>2. written' = written /\ trimmedTo' = Later(trimmedTo, r.at)
  BY DEF Arrive
<1>3. written[a] > trimmedTo'
  BY <1>2 DEF Live
<1>4. trimmedTo' \in Nat /\ trimmedTo' >= r.at
  BY <1>1, <1>2, LaterType
<1>5. written[a] \in Nat
  BY <1>1 DEF TypeOK
<1> QED
  BY <1>1, <1>3, <1>4, <1>5

\* Requests leave for Cassandra one at a time.
LEMMA OneArrives ==
  ASSUME [Next]_vars, NEW r \in requests \ requests'
  PROVE  Arrive(r)
  BY DEF Next, vars, Tick, AddToStorage, RemoveFromStorage, SendBatch, StartTrim,
         ReadWriteTimes, SendDelete, Arrive

\* Whatever was read, and whatever arrived since: a delete is for some row, and
\* takes all its rows but those written again.
THEOREM TrimsBite == Spec => TrimBites
<1> DEFINE Bites == \A r \in requests \ requests' :
                      r.op = "delete" =>
                        /\ r.acts # {}
                        /\ \A a \in r.acts : a \notin Live' \/ written[a] > r.at
<1>1. Init => DeletesSome
  BY DEF Init, DeletesSome
<1>2. TypeOK /\ DeletesSome /\ [Next]_vars => DeletesSome'
  BY StepDeletesSome
<1>3. TypeOK /\ DeletesSome /\ [Next]_vars => [Bites]_vars
  <2> SUFFICES ASSUME TypeOK, DeletesSome, [Next]_vars,
                      NEW r \in requests \ requests', r.op = "delete"
               PROVE  /\ r.acts # {}
                      /\ \A a \in r.acts : a \notin Live' \/ written[a] > r.at
    OBVIOUS
  <2>1. r.acts # {}
    BY DEF DeletesSome
  <2>2. Arrive(r)
    BY OneArrives
  <2> QED
    BY <2>1, <2>2, ArrivedDelete
<1> QED
  BY <1>1, <1>2, <1>3, TypeCorrect, PTL DEF Spec, TrimBites

-----------------------------------------------------------------------------
(* The order of a host's own calls *)

About(a) == {r \in requests : r.op # "delete" /\ a \in r.acts}

\* s is the timestamp of the last call about a.  Nothing that was applied to a or
\* is on its way is later, and what that call undoes is earlier.
LastAt(a, s) ==
  /\ written[a] <= s
  /\ removed[a] <= s
  /\ \A r \in About(a) : r.at <= s
  /\ lastCall[a].op = "insert" =>
       /\ written[a] = s \/ \E r \in About(a) : r.op = "insert" /\ r.at = s
       /\ removed[a] < s
       /\ \A r \in About(a) : r.op = "remove" => r.at < s
  /\ lastCall[a].op = "remove" =>
       removed[a] = s \/ \E r \in About(a) : r.op = "remove" /\ r.at = s

\* The last call about an activity only h has touched was stamped by h.
LastCallAt(a, h) ==
  lastCall[a].by \subseteq {h} => \E s \in 0 .. last[h] : LastAt(a, s)

LastCallKnown ==
  \A a \in Activities :
    /\ IsFiniteSet(lastCall[a].by)
    /\ \A h \in Hosts : LastCallAt(a, h)

LEMMA InitLastCallKnown == Init => LastCallKnown
<1> SUFFICES ASSUME Init, NEW a \in Activities
             PROVE  IsFiniteSet(lastCall[a].by) /\ \A h \in Hosts : LastCallAt(a, h)
  BY DEF LastCallKnown
<1>1. IsFiniteSet(lastCall[a].by)
  BY FS_EmptySet DEF Init
<1>2. LastAt(a, 0)
  BY DEF Init, LastAt, About
<1>3. \A h \in Hosts : 0 \in 0 .. last[h]
  BY DEF Init
<1> QED
  BY <1>1, <1>2, <1>3 DEF LastCallAt

\* A step that leaves the requests and what they have done alone.
LEMMA KeepsLastAt ==
  ASSUME NEW a \in Activities, NEW s,
         written' = written, removed' = removed, lastCall'[a] = lastCall[a],
         About(a)' = About(a), LastAt(a, s)
  PROVE  LastAt(a, s)'
  BY DEF LastAt

LEMMA CallLastAt ==
  ASSUME TypeOK, LastCallKnown,
         NEW g \in Hosts, NEW op \in {"insert", "remove"},
         NEW acts \in SUBSET Activities, SendBatch(g, op, acts),
         NEW a \in Activities, NEW h \in Hosts
  PROVE  LastCallAt(a, h)'
<1> DEFINE new == [op |-> op, host |-> g, acts |-> acts, at |-> Stamp(g)]
<1>1. /\ requests' = requests \cup {new}
      /\ written' = written /\ removed' = removed
      /\ last' = [last EXCEPT ![g] = Stamp(g)]
  BY DEF SendBatch
<1>2. lastCall'[a] = IF a \in acts THEN [by |-> lastCall[a].by \cup {g}, op |-> op]
                     ELSE lastCall[a]
  BY DEF SendBatch
<1>3. /\ Stamp(g) \in Nat /\ Stamp(g) > last[g]
      /\ last[g] \in Nat /\ last[h] \in Nat
      /\ written[a] \in Nat /\ removed[a] \in Nat
      /\ \A r \in requests : r.at \in Nat
  BY StampAdvances DEF TypeOK, Request
<1>4. last'[h] \in Nat /\ last'[h] >= last[h]
  BY <1>1, <1>3 DEF TypeOK
<1>5. LastCallAt(a, h)
  BY DEF LastCallKnown
<1> SUFFICES ASSUME lastCall'[a].by \subseteq {h}
             PROVE  \E s \in 0 .. last'[h] : LastAt(a, s)'
  BY DEF LastCallAt
<1>6. CASE a \notin acts
  <2>1. lastCall'[a] = lastCall[a]
    BY <1>2, <1>6
  <2>2. About(a)' = About(a)
    BY <1>1, <1>6 DEF About
  <2>3. PICK s \in 0 .. last[h] : LastAt(a, s)
    BY <1>5, <2>1 DEF LastCallAt
  <2>4. LastAt(a, s)'
    BY <1>1, <2>1, <2>2, <2>3, KeepsLastAt
  <2> QED
    BY <1>3, <1>4, <2>4
<1>7. CASE a \in acts
  <2>1. lastCall'[a] = [by |-> lastCall[a].by \cup {g}, op |-> op]
    BY <1>2, <1>7
  <2>2. g = h /\ lastCall[a].by \subseteq {h}
    BY <2>1
  <2>3. PICK s \in 0 .. last[h] : LastAt(a, s)
    BY <1>5, <2>2 DEF LastCallAt
  <2>4. s \in Nat /\ s < Stamp(g)
    BY <1>3, <2>2
  <2>5. About(a)' = About(a) \cup {new}
    BY <1>1, <1>7 DEF About
  <2>6. /\ written[a] < Stamp(g) /\ removed[a] < Stamp(g)
        /\ \A r \in About(a) : r.at < Stamp(g)
    BY <1>3, <2>3, <2>4 DEF LastAt, About
  <2>7. ASSUME NEW n \in Nat, n = Stamp(g) PROVE LastAt(a, n)'
    <3>1. written'[a] <= n /\ removed'[a] <= n /\ removed'[a] < n
      BY <1>1, <1>3, <2>6, <2>7
    <3>2. \A r \in About(a)' : r.at <= n
      BY <1>3, <2>5, <2>6, <2>7 DEF About
    <3>3. new \in About(a)' /\ new.op = op /\ new.at = n
      BY <2>5, <2>7
    <3>4. op = "insert" => \A r \in About(a)' : r.op = "remove" => r.at < n
      BY <2>5, <2>6, <2>7
    <3>5. lastCall'[a].op = op
      BY <2>1
    <3> HIDE DEF new
    <3> QED
      BY <3>1, <3>2, <3>3, <3>4, <3>5 DEF LastAt
  <2>8. last'[h] = Stamp(g)
    BY <1>1, <2>2 DEF TypeOK
  <2> QED
    BY <1>3, <2>7, <2>8
<1> QED
  BY <1>6, <1>7

LEMMA ArrivalLastAt ==
  ASSUME TypeOK, NEW r \in requests, Arrive(r),
         NEW a \in Activities, NEW s \in Nat, LastAt(a, s)
  PROVE  LastAt(a, s)'
<1>1. /\ written[a] \in Nat /\ removed[a] \in Nat /\ r.at \in Nat
      /\ \A q \in requests : q.at \in Nat
      /\ r.op \in {"insert", "remove", "delete"}
  BY DEF TypeOK, Request
<1>2. lastCall' = lastCall /\ About(a)' = About(a) \ {r}
  BY DEF Arrive, About
<1>3. CASE r \notin About(a)
  <2>1. written'[a] = written[a] /\ removed'[a] = removed[a]
    BY <1>3 DEF TypeOK, Arrive, Stamped, About
  <2> QED
    BY <1>2, <1>3, <2>1 DEF LastAt
<1>4. CASE r \in About(a) /\ r.op = "insert"
  <2>1. written'[a] = Later(written[a], r.at) /\ removed'[a] = removed[a]
    BY <1>4 DEF TypeOK, Arrive, Stamped, About
  <2>2. r.at <= s /\ written[a] <= s /\ removed[a] <= s
    BY <1>4 DEF LastAt
  <2>3. written'[a] <= s /\ removed'[a] <= s
    BY <1>1, <2>1, <2>2 DEF Later
  <2>4. written[a] = s \/ r.at = s => written'[a] = s
    BY <1>1, <2>1, <2>2 DEF Later
  <2>5. lastCall[a].op = "insert" =>
          /\ written'[a] = s \/ \E q \in About(a)' : q.op = "insert" /\ q.at = s
          /\ removed'[a] < s
          /\ \A q \in About(a)' : q.op = "remove" => q.at < s
    BY <1>2, <2>1, <2>4 DEF LastAt
  <2>6. lastCall[a].op = "remove" =>
          removed'[a] = s \/ \E q \in About(a)' : q.op = "remove" /\ q.at = s
    BY <1>2, <1>4, <2>1 DEF LastAt
  <2>7. \A q \in About(a)' : q.at <= s
    BY <1>2 DEF LastAt
  <2> QED
    BY <1>2, <2>3, <2>5, <2>6, <2>7 DEF LastAt
<1>5. CASE r \in About(a) /\ r.op = "remove"
  <2>1. removed'[a] = Later(removed[a], r.at) /\ written'[a] = written[a]
    BY <1>5 DEF TypeOK, Arrive, Stamped, About
  <2>2. r.at <= s /\ written[a] <= s /\ removed[a] <= s
    BY <1>5 DEF LastAt
  <2>3. written'[a] <= s /\ removed'[a] <= s
    BY <1>1, <2>1, <2>2 DEF Later
  <2>4. removed[a] = s \/ r.at = s => removed'[a] = s
    BY <1>1, <2>1, <2>2 DEF Later
  <2>5. lastCall[a].op = "insert" => removed'[a] < s
    BY <1>1, <1>5, <2>1 DEF LastAt, Later
  <2>6. lastCall[a].op = "insert" =>
          /\ written'[a] = s \/ \E q \in About(a)' : q.op = "insert" /\ q.at = s
          /\ \A q \in About(a)' : q.op = "remove" => q.at < s
    BY <1>2, <1>5, <2>1 DEF LastAt
  <2>7. lastCall[a].op = "remove" =>
          removed'[a] = s \/ \E q \in About(a)' : q.op = "remove" /\ q.at = s
    BY <1>2, <2>4 DEF LastAt
  <2>8. \A q \in About(a)' : q.at <= s
    BY <1>2 DEF LastAt
  <2> QED
    BY <1>2, <2>3, <2>5, <2>6, <2>7, <2>8 DEF LastAt
<1> QED
  BY <1>1, <1>3, <1>4, <1>5 DEF About

LEMMA StepLastCallKnown ==
  ASSUME TypeOK, LastCallKnown, [Next]_vars
  PROVE  LastCallKnown'
<1>1. ASSUME NEW g \in Hosts, NEW op \in {"insert", "remove"},
             NEW acts \in SUBSET Activities, SendBatch(g, op, acts)
      PROVE  LastCallKnown'
  <2>1. \A a \in Activities : IsFiniteSet(lastCall'[a].by)
    <3> TAKE a \in Activities
    <3>1. IsFiniteSet(lastCall[a].by)
      BY DEF LastCallKnown
    <3>2. \/ lastCall'[a].by = lastCall[a].by
          \/ lastCall'[a].by = lastCall[a].by \cup {g}
      BY <1>1 DEF SendBatch
    <3> QED
      BY <3>1, <3>2, FS_AddElement
  <2>2. \A a \in Activities, h \in Hosts : LastCallAt(a, h)'
    BY <1>1, CallLastAt
  <2> QED
    BY <2>1, <2>2 DEF LastCallKnown
<1>2. ASSUME NEW r \in requests, Arrive(r) PROVE LastCallKnown'
  <2>1. lastCall' = lastCall /\ last' = last
    BY <1>2 DEF Arrive
  <2>2. ASSUME NEW a \in Activities, NEW h \in Hosts PROVE LastCallAt(a, h)'
    <3> SUFFICES ASSUME lastCall[a].by \subseteq {h}
                 PROVE  \E s \in 0 .. last[h] : LastAt(a, s)'
      BY <2>1 DEF LastCallAt
    <3>1. PICK s \in 0 .. last[h] : LastAt(a, s)
      BY DEF LastCallKnown, LastCallAt
    <3>2. s \in Nat
      BY DEF TypeOK
    <3> QED
      BY <1>2, <3>1, <3>2, ArrivalLastAt
  <2> QED
    BY <2>1, <2>2 DEF LastCallKnown
<1>3. ASSUME UNCHANGED <<written, removed, lastCall>>,
             \A a \in Activities : About(a)' = About(a),
             \A h \in Hosts : last'[h] \in Nat /\ last'[h] >= last[h]
      PROVE  LastCallKnown'
  <2>1. ASSUME NEW a \in Activities, NEW h \in Hosts PROVE LastCallAt(a, h)'
    <3> SUFFICES ASSUME lastCall[a].by \subseteq {h}
                 PROVE  \E s \in 0 .. last'[h] : LastAt(a, s)'
      BY <1>3 DEF LastCallAt
    <3>1. PICK s \in 0 .. last[h] : LastAt(a, s)
      BY DEF LastCallKnown, LastCallAt
    <3>2. s \in 0 .. last'[h]
      BY <1>3 DEF TypeOK
    <3>3. LastAt(a, s)'
      BY <1>3, <3>1, KeepsLastAt
    <3> QED
      BY <3>2, <3>3
  <2> QED
    BY <1>3, <2>1 DEF LastCallKnown
<1>4. \A g \in Hosts : last' = [last EXCEPT ![g] = Stamp(g)] =>
        \A h \in Hosts : last'[h] \in Nat /\ last'[h] >= last[h]
  <2> TAKE g \in Hosts
  <2>1. Stamp(g) \in Nat /\ Stamp(g) > last[g]
    BY StampAdvances
  <2> QED
    BY <2>1 DEF TypeOK
<1>5. requests' = requests => \A a \in Activities : About(a)' = About(a)
  BY DEF About
<1>6. last' = last => \A h \in Hosts : last'[h] \in Nat /\ last'[h] >= last[h]
  BY DEF TypeOK
<1>7. ASSUME NEW h \in Hosts, StartTrim(h) PROVE LastCallKnown'
  BY <1>3, <1>4, <1>5, <1>7 DEF StartTrim
<1>8. ASSUME NEW t \in trims, SendDelete(t) PROVE LastCallKnown'
  <2>1. t.host \in Hosts
    BY DEF TypeOK, TrimCall
  <2>2. \A h \in Hosts : last'[h] \in Nat /\ last'[h] >= last[h]
    BY <1>4, <1>6, <1>8, <2>1 DEF SendDelete
  <2>3. \A a \in Activities : About(a)' = About(a)
    BY <1>8 DEF SendDelete, About
  <2> QED
    BY <1>3, <1>8, <2>2, <2>3 DEF SendDelete
<1>9. ASSUME UNCHANGED <<last, written, removed, requests, lastCall>>
      PROVE  LastCallKnown'
  BY <1>3, <1>5, <1>6, <1>9
<1>10. ASSUME NEW h \in Hosts, NEW acts \in Adds, AddToStorage(h, acts)
       PROVE  LastCallKnown'
  <2>1. acts \in SUBSET Activities
    BY TimelineAssumption
  <2> QED
    BY <1>1, <1>10, <2>1 DEF AddToStorage
<1>11. ASSUME NEW h \in Hosts, NEW a \in Activities, RemoveFromStorage(h, {a})
       PROVE  LastCallKnown'
  BY <1>1, <1>11 DEF RemoveFromStorage
<1> QED
  BY <1>2, <1>7, <1>8, <1>9, <1>10, <1>11 DEF Next, vars, Tick, ReadWriteTimes

LEMMA KnownOrders == TypeOK /\ LastCallKnown => OwnOrder
<1> SUFFICES ASSUME TypeOK, LastCallKnown, NEW a \in Activities,
                    Cardinality(lastCall[a].by) = 1,
                    \A r \in requests : r.op # "delete" => a \notin r.acts
             PROVE  written[a] > removed[a] <=> lastCall[a].op = "insert"
  BY DEF OwnOrder
<1>1. /\ lastCall[a].by \subseteq Hosts
      /\ lastCall[a].op \in {"insert", "remove"}
      /\ written[a] \in Nat /\ removed[a] \in Nat
  BY DEF TypeOK
<1>2. IsFiniteSet(lastCall[a].by)
  BY DEF LastCallKnown
<1>3. PICK h : lastCall[a].by = {h}
  BY <1>2, FS_Singleton
<1>4. PICK s \in 0 .. last[h] : LastAt(a, s)
  BY <1>1, <1>3 DEF LastCallKnown, LastCallAt
<1>5. s \in Nat
  BY <1>1, <1>3 DEF TypeOK
<1>6. About(a) = {}
  BY DEF About
<1> QED
  BY <1>1, <1>4, <1>5, <1>6 DEF LastAt

\* The calls of one host about an activity count in the order they were made, in
\* whatever order they arrive and however often the clock stands still in between.
THEOREM CallsCountInOrder == Spec => []OwnOrder
<1>1. TypeOK /\ LastCallKnown /\ [Next]_vars => LastCallKnown'
  BY StepLastCallKnown
<1> QED
  BY InitLastCallKnown, <1>1, KnownOrders, TypeCorrect, PTL DEF Spec
=============================================================================
