---------------------------- MODULE ListsStorage ----------------------------
(***************************************************************************)
(* The lists of Redis that hold the markers of a notification feed: the    *)
(* storage, and what the feed asks of it.                                  *)
(*                                                                         *)
(* An operation sends all of its requests at once over the connection of   *)
(* its process and awaits the replies.  Requests of one connection take    *)
(* effect in the order they were sent; those of other processes come in    *)
(* between, and a process that dies loses the last of its own.             *)
(*                                                                         *)
(* Values enter a list at its end only.  A list is modelled as the set of  *)
(* its values, numbered in the order they were pushed.                     *)
(*                                                                         *)
(* Two loops run over indices where names and values are meant (for .. in  *)
(* an array).  Remove takes out the values 0, 1, ... instead of the first, *)
(* the second, ... of those it is given; flush deletes the lists called    *)
(* "0", "1", ...                                                           *)
(*                                                                         *)
(* A definition marked "slip" is the one after it with a plausible mistake *)
(* in it.  No action uses it; it shows that a property can fail.           *)
(***************************************************************************)
EXTENDS Naturals, Sequences, FiniteSets

Ext == INSTANCE SequencesExt

CONSTANTS
  Names,      \* names of lists
  IndexName,  \* the names "0", "1", ...
  Values,     \* what is kept in the lists: numbers
  Adds,       \* the arguments of add: sequences of [list, values], each list once
  Removals,   \* the arguments of remove: sequences of [list, values]
  MaxLength,  \* to how many values add trims a list; 0 for null: not at all
  Hosts,      \* processes
  MaxCalls,   \* bound: calls made
  MaxCrashes  \* bound: hosts that crash

ASSUME ListsAssumption ==
  /\ Values \subseteq Nat
  /\ Adds \cup Removals \subseteq Seq([list : Names, values : Seq(Values)])
  /\ \A kwargs \in Adds : \A i, j \in DOMAIN kwargs :
       kwargs[i].list = kwargs[j].list => i = j
  /\ IndexName \in Seq({IndexName[i] : i \in DOMAIN IndexName})
  /\ MaxLength \in Nat
  /\ {MaxCalls, MaxCrashes} \subseteq Nat

VARIABLES
  lists,    \* the lists: numbered values
  sent,     \* requests on the connection of each host, in the order sent
  made,     \* calls made so far; numbers them
  crashes,  \* hosts crashed so far
  past      \* history, read by the properties only

vars == <<lists, sent, made, crashes, past>>

-----------------------------------------------------------------------------
Request ==
  [kind : {"push"}, call : Nat, list : Names, value : Values]
    \cup [kind : {"remove"}, call : Nat, list : Names, value : Nat]
    \cup [kind : {"trim"}, call : Nat, list : Names]
    \cup [kind : {"delete"}, call : Nat, lists : SUBSET {IndexName[i] : i \in DOMAIN IndexName}]

\* count: how many values have been pushed to a list; pushed: these, with the calls
\* that did; removed: the numbers of those that a removal or a deletion took out;
\* args: what the calls to add were given; cut: those that a crash has cut off.
TypeOK ==
  /\ lists \in [Names -> SUBSET [value : Values, nth : Nat]]
  /\ DOMAIN sent = Hosts
  /\ \A h \in Hosts : sent[h] \in Seq(Request)
  /\ made \in Nat
  /\ crashes \in Nat
  /\ past.count \in [Names -> Nat]
  /\ past.pushed \in [Names -> SUBSET [value : Values, call : Nat, nth : Nat]]
  /\ past.removed \in [Names -> SUBSET Nat]

Init ==
  /\ lists = [n \in Names |-> {}]
  /\ sent = [h \in Hosts |-> <<>>]
  /\ made = 0
  /\ crashes = 0
  /\ past = [count |-> [n \in Names |-> 0], pushed |-> [n \in Names |-> {}],
             removed |-> [n \in Names |-> {}], args |-> <<>>, cut |-> {}]

-----------------------------------------------------------------------------
(* What a call sends *)

\* Slip: this loop runs over the indices as well.
PushesOfIndices(call, n, s) ==
  [i \in 1 .. Len(s) |-> [kind |-> "push", call |-> call, list |-> n, value |-> i - 1]]
Pushes(call, n, s) ==
  [i \in 1 .. Len(s) |-> [kind |-> "push", call |-> call, list |-> n, value |-> s[i]]]

\* Slips: the trim is sent before the values it should make room for; the values of
\* a list are sent from the last to the first.
TrimsFirst(call, kwargs) ==
  LET Of(k) == <<[kind |-> "trim", call |-> call, list |-> k.list]>>
               \o Pushes(call, k.list, k.values)
  IN Ext!FlattenSeq([i \in DOMAIN kwargs |-> Of(kwargs[i])])
PushesReversed(call, kwargs) ==
  LET turned(s) == [i \in 1 .. Len(s) |-> s[Len(s) - i + 1]]
      Of(k) == Append(Pushes(call, k.list, turned(k.values)),
                      [kind |-> "trim", call |-> call, list |-> k.list])
  IN Ext!FlattenSeq([i \in DOMAIN kwargs |-> Of(kwargs[i])])

\* add: an rPush for each value, and an lTrim after those of each list.
AddRequests(call, kwargs) ==
  LET Of(k) == Append(Pushes(call, k.list, k.values),
                      [kind |-> "trim", call |-> call, list |-> k.list])
  IN Ext!FlattenSeq([i \in DOMAIN kwargs |-> Of(kwargs[i])])

\* remove: for (const value in values).
RemoveRequests(call, kwargs) ==
  LET Of(k) == [i \in 1 .. Len(k.values) |->
                  [kind |-> "remove", call |-> call, list |-> k.list, value |-> i - 1]]
  IN Ext!FlattenSeq([i \in DOMAIN kwargs |-> Of(kwargs[i])])

\* flush: one del of the keys that getKeys makes of the indices of the names.
FlushRequests(call, count) ==
  <<[kind |-> "delete", call |-> call, lists |-> {IndexName[i] : i \in 1 .. count}]>>

-----------------------------------------------------------------------------
(* Operations *)

Call(h, requests, kwargs) ==
  /\ made < MaxCalls
  /\ made' = made + 1
  /\ sent' = [sent EXCEPT ![h] = @ \o requests]
  /\ past' = [past EXCEPT !.args = Append(@, kwargs)]
  /\ UNCHANGED <<lists, crashes>>

Add(h, kwargs) == Call(h, AddRequests(made, kwargs), kwargs)

Remove(h, kwargs) == Call(h, RemoveRequests(made, kwargs), <<>>)

\* mark_all and delete of the feed.
Flush(h, count) == Call(h, FlushRequests(made, count), <<>>)

\* update_markers: func.apply(this, kwargs) passes the elements of kwargs, which has
\* none.  An addition or removal without arguments sends nothing.
UpdateMarkers(h) == Call(h, <<>>, <<>>)

\* Slip: the other end.
FirstOf(S, n) ==
  {e \in S : n = 0 \/ Cardinality({f \in S : f.nth < e.nth}) < n}

\* lTrim -n -1: the last n.  For null it is lTrim 0 -1: everything.
LastOf(S, n) ==
  {e \in S : n = 0 \/ Cardinality({f \in S : f.nth > e.nth}) < n}

Numbers(S) == {e.nth : e \in S}

\* A request takes effect on lists.
Push(r) ==
  LET nth == past.count[r.list] + 1 IN
  /\ lists' = [lists EXCEPT ![r.list] = @ \cup {[value |-> r.value, nth |-> nth]}]
  /\ past' = [past EXCEPT
       !.count[r.list] = nth,
       !.pushed[r.list] = @ \cup {[value |-> r.value, call |-> r.call, nth |-> nth]}]

TrimList(r) ==
  /\ lists' = [lists EXCEPT ![r.list] = LastOf(@, MaxLength)]
  /\ UNCHANGED past

RemoveValue(r) ==
  LET hits == {e \in lists[r.list] : e.value = r.value} IN
  /\ lists' = [lists EXCEPT ![r.list] = @ \ hits]
  /\ past' = [past EXCEPT !.removed[r.list] = @ \cup Numbers(hits)]

Delete(r) ==
  /\ lists' = [n \in Names |-> IF n \in r.lists THEN {} ELSE lists[n]]
  /\ past' = [past EXCEPT !.removed =
                [n \in Names |-> IF n \in r.lists THEN @[n] \cup Numbers(lists[n]) ELSE @[n]]]

Arrive(h) ==
  /\ sent[h] # <<>>
  /\ LET r == Head(sent[h]) IN
     \/ r.kind = "push" /\ Push(r)
     \/ r.kind = "trim" /\ TrimList(r)
     \/ r.kind = "remove" /\ RemoveValue(r)
     \/ r.kind = "delete" /\ Delete(r)
  /\ sent' = [sent EXCEPT ![h] = Tail(@)]
  /\ UNCHANGED <<made, crashes>>

\* A host dies; the first k of its requests still arrive.
CrashHost(h, k) ==
  /\ crashes < MaxCrashes
  /\ crashes' = crashes + 1
  /\ sent' = [sent EXCEPT ![h] = SubSeq(@, 1, k)]
  /\ past' = [past EXCEPT !.cut = @ \cup {sent[h][i].call : i \in k + 1 .. Len(sent[h])}]
  /\ UNCHANGED <<lists, made>>

Next ==
  \/ \E h \in Hosts : \E kwargs \in Adds : Add(h, kwargs)
  \/ \E h \in Hosts : \E kwargs \in Removals : Remove(h, kwargs)
  \/ \E h \in Hosts : \E count \in DOMAIN IndexName : Flush(h, count)
  \/ \E h \in Hosts : UpdateMarkers(h)
  \/ \E h \in Hosts : Arrive(h)
  \/ \E h \in Hosts : \E k \in 0 .. Len(sent[h]) : CrashHost(h, k)

Spec == Init /\ [][Next]_vars

\* What was sent arrives.
FairSpec == Spec /\ \A h \in Hosts : WF_vars(Arrive(h))

-----------------------------------------------------------------------------
(* Properties *)

\* Nothing is lost but what was removed and what MaxLength later values have pushed
\* out, however trims, additions and removals of several hosts interleave.
NewestKept ==
  \A n \in Names : \A i \in 1 .. past.count[n] :
    \/ i \in Numbers(lists[n]) \cup past.removed[n]
    \/ MaxLength # 0 /\ i + MaxLength <= past.count[n]

\* A trim of the list is on its way.
TrimComing(n) ==
  \E h \in Hosts : \E i \in DOMAIN sent[h] : sent[h][i].kind = "trim" /\ sent[h][i].list = n

TooLong(n) == MaxLength # 0 /\ Cardinality(lists[n]) > MaxLength

\* A list is longer than MaxLength only until a trim arrives, or after a crash that
\* may have taken it along: no value is pushed without a trim behind it.
Bounded == \A n \in Names : TooLong(n) => TrimComing(n) \/ past.cut # {}

\* A request of call c is on its way.
UnderWay(c) == \E h \in Hosts : \E i \in DOMAIN sent[h] : sent[h][i].call = c

\* An addition takes effect value by value, in the order of its arguments, and does
\* not stop in between unless its host has died: of a list nothing is pushed before
\* the lists named before it are complete.  That other requests come in between is
\* all that is left of the atomicity that is promised.
AddsInOrder ==
  \A c \in DOMAIN past.args :
    LET kwargs == past.args[c]
        pushed(i) == {p \in past.pushed[kwargs[i].list] : p.call = c - 1}
        rank(i, p) == Cardinality({q \in pushed(i) : q.nth <= p.nth})
        complete(i) == Cardinality(pushed(i)) = Len(kwargs[i].values)
    IN \A i \in DOMAIN kwargs :
         /\ \A p \in pushed(i) : /\ rank(i, p) <= Len(kwargs[i].values)
                                 /\ p.value = kwargs[i].values[rank(i, p)]
         /\ pushed(i) # {} => \A j \in 1 .. i - 1 : complete(j)
         /\ complete(i) \/ UnderWay(c - 1) \/ c - 1 \in past.cut

\* A list that has grown too long is cut, unless a host has crashed.
CutInTheEnd == \A n \in Names : TooLong(n) ~> (~ TooLong(n) \/ past.cut # {})
=============================================================================
