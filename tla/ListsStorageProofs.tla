------------------------- MODULE ListsStorageProofs -------------------------
(***************************************************************************)
(* What holds of the lists for any number of hosts, calls, lists, values   *)
(* and crashes.  What keeps the newest values does not depend on what the  *)
(* calls send: any sequence of pushes, trims, removals and deletions will  *)
(* do.  The length of the lists and the order of an addition do: for these *)
(* the requests of a call are laid out, each at its place, and followed to *)
(* their arrival.                                                          *)
(***************************************************************************)
EXTENDS ListsStorage, Induction, SequenceTheorems, TLAPS

\* The record of what has happened, field by field.
Record(p) ==
  p \in [count : {p.count}, pushed : {p.pushed}, removed : {p.removed}, args : {p.args},
         cut : {p.cut}]

\* A list holds numbered values, one for each number.
Numbered ==
  /\ DOMAIN lists = Names /\ lists = [n \in Names |-> lists[n]]
  /\ past.count \in [Names -> Nat]
  /\ past.removed \in [Names -> SUBSET Nat]
  /\ Record(past)
  /\ \A n \in Names :
       /\ \A e \in lists[n] : e.nth \in 1 .. past.count[n]
       /\ \A e, f \in lists[n] : e.nth = f.nth => e = f

Inv == Numbered /\ NewestKept

-----------------------------------------------------------------------------
\* What a trim takes out has n later values in the list, all of them numbered up to
\* the last number given.
LEMMA CutHasLater ==
  ASSUME NEW S, NEW last \in Nat, NEW n \in Nat,
         \A e \in S : e.nth \in 1 .. last,
         \A e, f \in S : e.nth = f.nth => e = f,
         NEW e \in S \ LastOf(S, n)
  PROVE  n # 0 /\ e.nth + n <= last
<1> DEFINE later == {f \in S : f.nth > e.nth}
           range == e.nth + 1 .. last
           number == [f \in later |-> f.nth]
<1>1. n # 0 /\ ~ (Cardinality(later) < n)
  BY DEF LastOf
<1>2. e.nth \in Nat /\ e.nth <= last /\ e.nth \in Int /\ last \in Int
  OBVIOUS
<1>3. IsFiniteSet(range) /\ Cardinality(range) = last - e.nth
  <2>1. e.nth + 1 \in Int /\ (e.nth + 1 > last => last - e.nth = 0)
        /\ last - (e.nth + 1) + 1 = last - e.nth
    BY <1>2
  <2> QED
    BY <1>2, <2>1, FS_Interval
<1>4. number \in Injection(later, range)
  BY <1>2 DEF Injection, IsInjective
<1> HIDE DEF later, range, number
<1>5. IsFiniteSet(later) /\ Cardinality(later) <= Cardinality(range)
  BY <1>3, <1>4, FS_Injection
<1>6. Cardinality(later) \in Nat
  BY <1>5, FS_CardinalityType
<1> QED
  BY <1>1, <1>2, <1>3, <1>5, <1>6

LEMMA InitInv == Init => Inv
  BY DEF Init, Inv, Numbered, Record, NewestKept

\* A step that changes no list.
LEMMA QuietStep ==
  ASSUME Inv, lists' = lists, past'.count = past.count, past'.removed = past.removed,
         Record(past')
  PROVE  Inv'
  BY DEF Inv, Numbered, NewestKept, Numbers, Record

\* A step that takes values out of list n, each of them removed or with MaxLength later
\* ones.
LEMMA CutStep ==
  ASSUME Inv, DOMAIN lists' = Names, lists' = [n \in Names |-> lists'[n]], Record(past'),
         past'.count = past.count, past'.removed \in [Names -> SUBSET Nat],
         \A n \in Names : lists'[n] \subseteq lists[n]
                          /\ past.removed[n] \subseteq past'.removed[n],
         \A n \in Names : \A e \in lists[n] \ lists'[n] :
           \/ e.nth \in past'.removed[n]
           \/ MaxLength # 0 /\ e.nth + MaxLength <= past.count[n]
  PROVE  Inv'
<1>1. Numbered'
  BY DEF Inv, Numbered, Record
<1>2. ASSUME NEW n \in Names, NEW i \in 1 .. past.count[n]
      PROVE  \/ i \in Numbers(lists'[n]) \cup past'.removed[n]
             \/ MaxLength # 0 /\ i + MaxLength <= past.count[n]
  BY DEF Inv, NewestKept, Numbers
<1> QED
  BY <1>1, <1>2 DEF Inv, NewestKept, Numbers

LEMMA StepPush ==
  ASSUME Inv, NEW r, r.list \in Names, Push(r) PROVE Inv'
<1> DEFINE n == r.list
           new == [value |-> r.value, nth |-> past.count[n] + 1]
<1>1. /\ lists' = [lists EXCEPT ![n] = @ \cup {new}]
      /\ past'.count = [past.count EXCEPT ![n] = past.count[n] + 1]
      /\ past'.removed = past.removed
      /\ Record(past')
  BY DEF Push, Inv, Numbered, Record
<1>2. new.nth = past.count[n] + 1 /\ past.count[n] \in Nat
  BY DEF Inv, Numbered
<1> HIDE DEF n, new
<1>3. /\ lists'[n] = lists[n] \cup {new} /\ past'.count[n] = past.count[n] + 1
      /\ \A m \in Names \ {n} : lists'[m] = lists[m] /\ past'.count[m] = past.count[m]
      /\ n \in Names
  BY <1>1 DEF Inv, Numbered, n
<1>4. /\ DOMAIN lists' = Names /\ lists' = [m \in Names |-> lists'[m]]
      /\ past'.count \in [Names -> Nat]
  <2>1. DOMAIN lists' = Names /\ lists' = [m \in Names |-> lists'[m]]
    BY <1>1 DEF Inv, Numbered
  <2>2. past.count \in [Names -> Nat]
    BY DEF Inv, Numbered
  <2>3. past.count[n] + 1 \in Nat
    BY <1>2
  <2>4. past'.count \in [Names -> Nat]
    BY <1>1, <2>2, <2>3
  <2> QED
    BY <2>1, <2>4
<1>5. ASSUME NEW m \in Names
      PROVE  /\ \A e \in lists'[m] : e.nth \in 1 .. past'.count[m]
             /\ \A e, f \in lists'[m] : e.nth = f.nth => e = f
  <2>1. /\ \A e \in lists[m] : e.nth \in 1 .. past.count[m]
        /\ \A e, f \in lists[m] : e.nth = f.nth => e = f
        /\ past.count[m] \in Nat
    BY DEF Inv, Numbered
  <2>2. CASE m = n
    BY <1>2, <1>3, <2>1, <2>2
  <2>3. CASE m # n
    BY <1>3, <2>1, <2>3
  <2> QED
    BY <2>2, <2>3
<1>6. Numbered'
  BY <1>1, <1>4, <1>5 DEF Inv, Numbered, Record
<1>7. ASSUME NEW m \in Names, NEW i \in 1 .. past'.count[m]
      PROVE  \/ i \in Numbers(lists'[m]) \cup past'.removed[m]
             \/ MaxLength # 0 /\ i + MaxLength <= past'.count[m]
  <2>1. i \in 1 .. past.count[m] =>
           \/ i \in Numbers(lists[m]) \cup past.removed[m]
           \/ MaxLength # 0 /\ i + MaxLength <= past.count[m]
    BY DEF Inv, NewestKept
  <2>2. MaxLength \in Nat /\ past.count[m] \in Nat
    BY ListsAssumption DEF Inv, Numbered
  <2>3. CASE m = n /\ i = past.count[n] + 1
    BY <1>2, <1>3, <2>3 DEF Numbers
  <2>4. CASE m = n /\ i # past.count[n] + 1
    <3>1. i \in 1 .. past.count[m] /\ past'.count[m] = past.count[m] + 1
      BY <1>3, <2>2, <2>4
    <3>2. Numbers(lists[m]) \subseteq Numbers(lists'[m])
      BY <1>3, <2>4 DEF Numbers
    <3>3. i + MaxLength <= past.count[m] => i + MaxLength <= past.count[m] + 1
      BY <2>2, <3>1
    <3> QED
      BY <1>1, <2>1, <3>1, <3>2, <3>3
  <2>5. CASE m # n
    BY <1>1, <1>3, <2>1, <2>5
  <2> QED
    BY <2>3, <2>4, <2>5
<1> QED
  BY <1>6, <1>7 DEF Inv, NewestKept, Numbers

LEMMA StepTrim ==
  ASSUME Inv, NEW r, r.list \in Names, TrimList(r) PROVE Inv'
<1> DEFINE n == r.list
<1>1. lists' = [lists EXCEPT ![n] = LastOf(lists[n], MaxLength)] /\ past' = past
  BY DEF TrimList
<1>2. n \in Names /\ MaxLength \in Nat /\ past.count[n] \in Nat
  BY ListsAssumption DEF Inv, Numbered
<1> HIDE DEF n
<1>3. /\ DOMAIN lists' = Names /\ lists' = [m \in Names |-> lists'[m]]
      /\ lists'[n] = LastOf(lists[n], MaxLength)
      /\ \A m \in Names \ {n} : lists'[m] = lists[m]
  BY <1>1, <1>2 DEF Inv, Numbered
<1>4. LastOf(lists[n], MaxLength) \subseteq lists[n]
  BY DEF LastOf
<1>5. \A e \in lists[n] \ lists'[n] : MaxLength # 0 /\ e.nth + MaxLength <= past.count[n]
  BY <1>2, <1>3, CutHasLater DEF Inv, Numbered
<1>6. Record(past') /\ past'.removed \in [Names -> SUBSET Nat]
  BY <1>1 DEF Inv, Numbered, Record
<1> QED
  BY <1>1, <1>3, <1>4, <1>5, <1>6, CutStep

LEMMA StepRemoveValue ==
  ASSUME Inv, NEW r, r.list \in Names, RemoveValue(r) PROVE Inv'
<1> DEFINE n == r.list
           hits == {e \in lists[n] : e.value = r.value}
<1>1. /\ lists' = [lists EXCEPT ![n] = lists[n] \ hits]
      /\ past'.removed = [past.removed EXCEPT ![n] = past.removed[n] \cup Numbers(hits)]
      /\ past'.count = past.count
      /\ Record(past')
  BY DEF RemoveValue, Inv, Numbered, Record
<1>2. n \in Names /\ hits \subseteq lists[n]
  OBVIOUS
<1> HIDE DEF n, hits
<1>3. /\ DOMAIN lists' = Names /\ lists' = [m \in Names |-> lists'[m]]
      /\ lists'[n] = lists[n] \ hits
      /\ \A m \in Names \ {n} : lists'[m] = lists[m] /\ past'.removed[m] = past.removed[m]
      /\ past'.removed[n] = past.removed[n] \cup Numbers(hits)
  BY <1>1, <1>2 DEF Inv, Numbered
<1>4. Numbers(hits) \subseteq Nat
  BY <1>2 DEF Inv, Numbered, Numbers
<1>5. past'.removed \in [Names -> SUBSET Nat]
  <2>1. past.removed \in [Names -> SUBSET Nat]
    BY DEF Inv, Numbered
  <2>2. past.removed[n] \cup Numbers(hits) \in SUBSET Nat
    BY <1>2, <1>4, <2>1
  <2> QED
    BY <1>1, <2>1, <2>2
<1>6. \A e \in lists[n] \ lists'[n] : e.nth \in past'.removed[n]
  BY <1>3 DEF Numbers
<1> QED
  BY <1>1, <1>2, <1>3, <1>5, <1>6, CutStep

LEMMA StepDelete ==
  ASSUME Inv, NEW r, Delete(r) PROVE Inv'
<1>1. /\ lists' = [n \in Names |-> IF n \in r.lists THEN {} ELSE lists[n]]
      /\ past'.removed = [n \in Names |-> IF n \in r.lists
                            THEN past.removed[n] \cup Numbers(lists[n]) ELSE past.removed[n]]
      /\ past'.count = past.count
      /\ Record(past')
  BY DEF Delete, Inv, Numbered, Record
<1>2. \A n \in Names : Numbers(lists[n]) \subseteq Nat
  BY DEF Inv, Numbered, Numbers
<1>3. past'.removed \in [Names -> SUBSET Nat]
  BY <1>1, <1>2 DEF Inv, Numbered
<1>4. \A n \in Names : \A e \in lists[n] \ lists'[n] : e.nth \in past'.removed[n]
  BY <1>1 DEF Numbers
<1> QED
  BY <1>1, <1>3, <1>4, CutStep

\* A request about a list that does not exist changes none.
LEMMA StepElsewhere ==
  ASSUME Inv, NEW r, r.list \notin Names, Push(r) \/ TrimList(r) \/ RemoveValue(r)
  PROVE  Inv'
<1>1. lists' = lists
  BY DEF Push, TrimList, RemoveValue, Inv, Numbered
<1>2. Record(past) /\ DOMAIN past.count = Names /\ DOMAIN past.removed = Names
  BY DEF Inv, Numbered
<1>3. /\ \A x : [past.count EXCEPT ![r.list] = x] = past.count
      /\ \A x : [past.removed EXCEPT ![r.list] = x] = past.removed
  BY <1>2 DEF Inv, Numbered
<1>4. CASE Push(r)
  <2>1. /\ past'.count = [past.count EXCEPT ![r.list] = past.count[r.list] + 1]
        /\ past'.removed = past.removed /\ Record(past')
    BY <1>2, <1>4 DEF Push, Record
  <2> QED
    BY <1>1, <1>3, <2>1, QuietStep
<1>5. CASE TrimList(r)
  BY <1>1, <1>2, <1>5, QuietStep DEF TrimList
<1>6. CASE RemoveValue(r)
  <2> DEFINE hits == {e \in lists[r.list] : e.value = r.value}
  <2>1. /\ past'.removed = [past.removed EXCEPT ![r.list] =
                              past.removed[r.list] \cup Numbers(hits)]
        /\ past'.count = past.count /\ Record(past')
    BY <1>2, <1>6 DEF RemoveValue, Record
  <2> QED
    BY <1>1, <1>3, <2>1, QuietStep
<1> QED
  BY <1>4, <1>5, <1>6

LEMMA StepInv == ASSUME Inv, [Next]_vars PROVE Inv'
<1>1. ASSUME NEW h, Arrive(h) PROVE Inv'
  BY <1>1, StepPush, StepTrim, StepRemoveValue, StepDelete, StepElsewhere DEF Arrive
<1>2. ASSUME NEW h, NEW requests, NEW kwargs, Call(h, requests, kwargs) PROVE Inv'
  <2>1. /\ lists' = lists /\ past'.count = past.count /\ past'.removed = past.removed
        /\ Record(past')
    BY <1>2 DEF Call, Inv, Numbered, Record
  <2> QED
    BY <2>1, QuietStep
<1>3. ASSUME NEW h, NEW k, CrashHost(h, k) PROVE Inv'
  <2>1. /\ lists' = lists /\ past'.count = past.count /\ past'.removed = past.removed
        /\ Record(past')
    BY <1>3 DEF CrashHost, Inv, Numbered, Record
  <2> QED
    BY <2>1, QuietStep
<1>4. CASE UNCHANGED vars
  <2>1. lists' = lists /\ past' = past /\ Record(past')
    BY <1>4 DEF vars, Inv, Numbered, Record
  <2> QED
    BY <2>1, QuietStep
<1> QED
  BY <1>1, <1>2, <1>3, <1>4 DEF Next, Add, Remove, Flush, UpdateMarkers

\* A list loses what was removed from it, and what MaxLength later values have pushed
\* out; nothing else, whatever the trims of other hosts do in between.
THEOREM NewestAreKept == Spec => []NewestKept
<1>1. Inv => NewestKept
  BY DEF Inv
<1> QED
  BY InitInv, StepInv, <1>1, PTL DEF Spec

-----------------------------------------------------------------------------
(* What FlattenSeq does *)

\* f joins the first n sequences of s, each to those before it.
Joined(f, s, n) ==
  f = [i \in 1 .. n |-> IF i = 1 THEN s[i] ELSE f[i - 1] \o s[i]]

\* F holds the first n sequences of s, one behind the other, the i-th behind off[i].
Laid(F, s, n, off) ==
  /\ off \in [1 .. n -> Nat]
  /\ \A i \in 1 .. n : /\ off[i] + Len(s[i]) <= Len(F)
                       /\ \A j \in 1 .. n : i < j => off[i] + Len(s[i]) <= off[j]
                       /\ \A j \in 1 .. Len(s[i]) : F[off[i] + j] = s[i][j]
  /\ \A d \in 1 .. Len(F) : \E i \in 1 .. n : \E j \in 1 .. Len(s[i]) : d = off[i] + j

LEMMA JoinedExists ==
  ASSUME NEW s, Len(s) \in Nat
  PROVE  \E f : Joined(f, s, Len(s))
<1> DEFINE P == {n \in Nat : n <= Len(s) => \E f : Joined(f, s, n)}
<1>1. ASSUME NEW n \in Nat, \A m \in 0 .. n - 1 : m \in P PROVE n \in P
  <2>1. CASE n = 0
    <3>1. Joined(<<>>, s, 0)
      BY DEF Joined
    <3> QED
      BY <2>1, <3>1
  <2>2. CASE n # 0 /\ n <= Len(s)
    <3>1. n - 1 \in P
      <4> HIDE DEF P
      <4> QED
        BY <1>1, <2>2
    <3>2. PICK f : Joined(f, s, n - 1)
      BY <2>2, <3>1
    <3> DEFINE g == [i \in 1 .. n |-> IF i = 1 THEN s[i] ELSE f[i - 1] \o s[i]]
    <3>3. ASSUME NEW i \in 1 .. n - 1 PROVE g[i] = f[i]
      <4>1. f[i] = IF i = 1 THEN s[i] ELSE f[i - 1] \o s[i]
        BY <3>2 DEF Joined
      <4>2. i \in 1 .. n
        BY <2>2
      <4> QED
        BY <4>1, <4>2
    <3>4. g = [i \in 1 .. n |-> IF i = 1 THEN s[i] ELSE g[i - 1] \o s[i]]
      <4>1. \A i \in 1 .. n : i # 1 => i - 1 \in 1 .. n - 1
        BY <2>2
      <4> QED
        BY <3>3, <4>1
    <3> HIDE DEF g
    <3> QED
      BY <3>4 DEF Joined
  <2> QED
    BY <2>1, <2>2
<1>2. Len(s) \in P
  <2> HIDE DEF P
  <2> QED
    BY <1>1, NumberInduction
<1> QED
  BY <1>2

\* Another sequence goes behind those there are.
LEMMA LaidMore ==
  ASSUME NEW T, NEW s \in Seq(Seq(T)), NEW n \in 1 .. Len(s),
         NEW F \in Seq(T), NEW off, Laid(F, s, n - 1, off)
  PROVE  /\ F \o s[n] \in Seq(T)
         /\ \E more : Laid(F \o s[n], s, n, more)
<1> DEFINE G == F \o s[n]
           more == [i \in 1 .. n |-> IF i = n THEN Len(F) ELSE off[i]]
<1>1. \A i \in 1 .. n : s[i] \in Seq(T) /\ Len(s[i]) \in Nat
  OBVIOUS
<1>2. n \in Nat \ {0} /\ Len(F) \in Nat
  OBVIOUS
<1>3. /\ G \in Seq(T) /\ Len(G) = Len(F) + Len(s[n])
      /\ \A d \in 1 .. Len(F) : G[d] = F[d]
      /\ \A j \in 1 .. Len(s[n]) : G[Len(F) + j] = s[n][j]
  <2>1. s[n] \in Seq(T)
    OBVIOUS
  <2>2. /\ G \in Seq(T) /\ Len(G) = Len(F) + Len(s[n])
        /\ \A i \in 1 .. Len(F) + Len(s[n]) : G[i] = IF i <= Len(F) THEN F[i] ELSE s[n][i - Len(F)]
    BY <2>1, ConcatProperties
  <2> HIDE DEF G
  <2>3. ASSUME NEW j \in 1 .. Len(s[n]) PROVE G[Len(F) + j] = s[n][j]
    <3>1. Len(F) + j \in 1 .. Len(F) + Len(s[n]) /\ ~(Len(F) + j <= Len(F)) /\ Len(F) + j - Len(F) = j
      BY <1>1, <1>2
    <3> QED
      BY <2>2, <3>1
  <2>4. ASSUME NEW d \in 1 .. Len(F) PROVE G[d] = F[d]
    <3>1. d \in 1 .. Len(F) + Len(s[n]) /\ d <= Len(F)
      BY <1>1, <1>2
    <3> QED
      BY <2>2, <3>1
  <2> QED
    BY <2>2, <2>3, <2>4
<1>4. /\ more \in [1 .. n -> Nat] /\ more[n] = Len(F)
      /\ \A i \in 1 .. n - 1 : more[i] = off[i] /\ off[i] \in Nat /\ i \in 1 .. n /\ i # n
      /\ \A i \in 1 .. n : i = n \/ i \in 1 .. n - 1
  BY <1>2 DEF Laid
<1> HIDE DEF G, more
<1>5. ASSUME NEW i \in 1 .. n
      PROVE  /\ more[i] + Len(s[i]) <= Len(G)
             /\ \A j \in 1 .. n : i < j => more[i] + Len(s[i]) <= more[j]
             /\ \A j \in 1 .. Len(s[i]) : G[more[i] + j] = s[i][j]
  <2>1. CASE i = n
    <3>1. more[i] + Len(s[i]) <= Len(G)
      BY <1>1, <1>2, <1>3, <1>4, <2>1
    <3>2. \A j \in 1 .. n : ~(i < j)
      BY <1>2, <2>1
    <3>3. \A j \in 1 .. Len(s[i]) : G[more[i] + j] = s[i][j]
      BY <1>3, <1>4, <2>1
    <3> QED
      BY <3>1, <3>2, <3>3
  <2>2. CASE i \in 1 .. n - 1
    <3>1. /\ off[i] + Len(s[i]) <= Len(F) /\ off[i] \in Nat /\ more[i] = off[i]
          /\ \A j \in 1 .. n - 1 : i < j => off[i] + Len(s[i]) <= off[j]
          /\ \A j \in 1 .. Len(s[i]) : F[off[i] + j] = s[i][j]
      BY <1>4, <2>2 DEF Laid
    <3>2. more[i] + Len(s[i]) <= Len(G)
      BY <1>1, <1>2, <1>3, <3>1
    <3>3. ASSUME NEW j \in 1 .. n, i < j PROVE more[i] + Len(s[i]) <= more[j]
      <4>1. CASE j = n
        BY <1>4, <3>1, <4>1
      <4>2. CASE j \in 1 .. n - 1
        BY <1>4, <3>1, <3>3, <4>2
      <4> QED
        BY <1>4, <4>1, <4>2
    <3>4. ASSUME NEW j \in 1 .. Len(s[i]) PROVE G[more[i] + j] = s[i][j]
      <4>1. off[i] + j \in 1 .. Len(F)
        BY <1>1, <1>2, <3>1
      <4> QED
        BY <1>3, <3>1, <4>1
    <3> QED
      BY <3>2, <3>3, <3>4
  <2> QED
    BY <1>4, <2>1, <2>2
<1>6. ASSUME NEW d \in 1 .. Len(G)
      PROVE  \E i \in 1 .. n : \E j \in 1 .. Len(s[i]) : d = more[i] + j
  <2>1. CASE d <= Len(F)
    <3>1. PICK i \in 1 .. n - 1 : \E j \in 1 .. Len(s[i]) : d = off[i] + j
      BY <1>2, <2>1 DEF Laid
    <3> QED
      BY <1>4, <3>1
  <2>2. CASE d > Len(F)
    <3>1. d - Len(F) \in 1 .. Len(s[n]) /\ d = more[n] + (d - Len(F)) /\ n \in 1 .. n
      BY <1>1, <1>2, <1>3, <1>4, <2>2
    <3> QED
      BY <3>1
  <2> QED
    BY <1>2, <2>1, <2>2
<1>7. Laid(G, s, n, more)
  BY <1>4, <1>5, <1>6 DEF Laid
<1> QED
  BY <1>3, <1>7 DEF G

LEMMA FlattenSeqLays ==
  ASSUME NEW T, NEW s \in Seq(Seq(T))
  PROVE  /\ Ext!FlattenSeq(s) \in Seq(T)
         /\ \E off : Laid(Ext!FlattenSeq(s), s, Len(s), off)
<1>1. Len(s) \in Nat
  OBVIOUS
<1>2. CASE Len(s) = 0
  <2>1. Ext!FlattenSeq(s) = <<>> /\ s = <<>>
    BY <1>2 DEF Ext!FlattenSeq
  <2>2. Laid(<<>>, <<>>, 0, <<>>)
    BY DEF Laid
  <2> QED
    BY <1>2, <2>1, <2>2
<1>3. CASE Len(s) # 0
  <2>1. PICK f : Joined(f, s, Len(s)) /\ Ext!FlattenSeq(s) = f[Len(s)]
    BY <1>1, <1>3, JoinedExists DEF Ext!FlattenSeq, Joined
  <2> DEFINE P == {n \in Nat : n \in 1 .. Len(s) =>
                     f[n] \in Seq(T) /\ \E off : Laid(f[n], s, n, off)}
  <2>2. ASSUME NEW n \in Nat, \A m \in 0 .. n - 1 : m \in P PROVE n \in P
    <3> SUFFICES ASSUME n \in 1 .. Len(s)
                 PROVE  f[n] \in Seq(T) /\ \E off : Laid(f[n], s, n, off)
      OBVIOUS
    <3>1. f[n] = IF n = 1 THEN s[n] ELSE f[n - 1] \o s[n]
      BY <2>1 DEF Joined
    <3>2. CASE n = 1
      <4>1. <<>> \in Seq(T) /\ Laid(<<>>, s, 1 - 1, <<>>)
        BY DEF Laid
      <4>2. <<>> \o s[1] = s[1] /\ 1 \in 1 .. Len(s)
        BY <3>2
      <4>3. <<>> \o s[1] \in Seq(T) /\ \E more : Laid(<<>> \o s[1], s, 1, more)
        BY <4>1, <4>2, LaidMore
      <4> QED
        BY <3>1, <3>2, <4>2, <4>3
    <3>3. CASE n # 1
      <4>1. n - 1 \in P /\ n - 1 \in 1 .. Len(s)
        <5> HIDE DEF P
        <5> QED
          BY <2>2, <3>3
      <4>2. PICK off : Laid(f[n - 1], s, n - 1, off)
        BY <4>1
      <4> QED
        BY <3>1, <3>3, <4>1, <4>2, LaidMore
    <3> QED
      BY <3>2, <3>3
  <2>3. Len(s) \in P
    <3> HIDE DEF P
    <3> QED
      BY <2>2, <1>1, NumberInduction
  <2> QED
    BY <1>3, <2>1, <2>3
<1> QED
  BY <1>2, <1>3

-----------------------------------------------------------------------------
(* What the calls send *)

\* What an addition sends for each list.
AddParts(call, kwargs) ==
  [i \in DOMAIN kwargs |->
     Append(Pushes(call, kwargs[i].list, kwargs[i].values),
            [kind |-> "trim", call |-> call, list |-> kwargs[i].list])]

\* A push for each value, then a trim.
LEMMA AddPartsAre ==
  ASSUME NEW call \in Nat, NEW kwargs \in Adds, NEW i \in DOMAIN kwargs
  PROVE  LET part == AddParts(call, kwargs)[i]
             n == Len(kwargs[i].values)
         IN /\ n \in Nat /\ kwargs[i].list \in Names
            /\ part \in Seq(Request) /\ Len(part) = n + 1
            /\ part[n + 1] = [kind |-> "trim", call |-> call, list |-> kwargs[i].list]
            /\ \A j \in 1 .. n :
                 /\ kwargs[i].values[j] \in Values
                 /\ part[j] = [kind |-> "push", call |-> call, list |-> kwargs[i].list,
                               value |-> kwargs[i].values[j]]
<1> DEFINE values == kwargs[i].values
           list == kwargs[i].list
           n == Len(values)
           pushes == Pushes(call, list, values)
           trim == [kind |-> "trim", call |-> call, list |-> list]
           push(j) == [kind |-> "push", call |-> call, list |-> list, value |-> values[j]]
<1>1. list \in Names /\ values \in Seq(Values)
  <2> DEFINE K == [list : Names, values : Seq(Values)]
  <2>1. kwargs[i] \in K
    <3>1. kwargs \in Seq(K)
      BY ListsAssumption
    <3> HIDE DEF K
    <3> QED
      BY <3>1
  <2> QED
    BY <2>1
<1>2. AddParts(call, kwargs)[i] = Append(pushes, trim)
  BY DEF AddParts
<1>3. pushes = [j \in 1 .. n |-> push(j)]
  BY DEF Pushes
<1>4. trim \in Request
  BY <1>1 DEF Request
<1> HIDE DEF list, values
<1>5. n \in Nat /\ \A j \in 1 .. n : values[j] \in Values
  BY <1>1
<1>6. ASSUME NEW j \in 1 .. n PROVE push(j) \in Request
  BY <1>1, <1>5 DEF Request
<1> HIDE DEF n, push, pushes, trim
<1>7. pushes \in Seq(Request) /\ Len(pushes) = n /\ \A j \in 1 .. n : pushes[j] = push(j)
  BY <1>3, <1>5, <1>6
<1>8. /\ Append(pushes, trim) \in Seq(Request) /\ Len(Append(pushes, trim)) = n + 1
      /\ Append(pushes, trim)[n + 1] = trim
      /\ \A j \in 1 .. n : Append(pushes, trim)[j] = push(j)
  BY <1>4, <1>5, <1>7, AppendProperties
<1> QED
  BY <1>1, <1>2, <1>5, <1>8 DEF n, push, trim, list, values

\* An addition sends its parts one after the other: pushes and trims, and behind each push
\* a trim of its list.
LEMMA AddRequestsAre ==
  ASSUME NEW call \in Nat, NEW kwargs \in Adds
  PROVE  LET R == AddRequests(call, kwargs) IN
         /\ R \in Seq(Request)
         /\ \E off : Laid(R, AddParts(call, kwargs), Len(kwargs), off)
         /\ \A d \in DOMAIN R :
              /\ R[d].call = call /\ R[d].kind \in {"push", "trim"}
              /\ R[d].kind = "push" => \E e \in DOMAIN R :
                   d < e /\ R[e].kind = "trim" /\ R[e].list = R[d].list
<1> DEFINE R == AddRequests(call, kwargs)
           parts == AddParts(call, kwargs)
<1>1. kwargs \in Seq([list : Names, values : Seq(Values)])
  BY ListsAssumption
<1>2. DOMAIN kwargs = 1 .. Len(kwargs) /\ Len(kwargs) \in Nat
  BY <1>1
<1>3. R = Ext!FlattenSeq(parts)
  BY DEF AddRequests, AddParts
<1>4. parts \in Seq(Seq(Request)) /\ Len(parts) = Len(kwargs)
  <2>1. parts = [i \in 1 .. Len(kwargs) |-> parts[i]]
    BY <1>2 DEF AddParts
  <2>2. \A i \in 1 .. Len(kwargs) : parts[i] \in Seq(Request)
    BY <1>2, AddPartsAre
  <2> HIDE DEF parts
  <2> QED
    BY <1>2, <2>1, <2>2
<1> HIDE DEF R, parts
<1>5. PICK off : R \in Seq(Request) /\ Laid(R, parts, Len(kwargs), off)
  BY <1>3, <1>4, FlattenSeqLays
<1>6. ASSUME NEW d \in DOMAIN R
      PROVE  /\ R[d].call = call /\ R[d].kind \in {"push", "trim"}
             /\ R[d].kind = "push" => \E e \in DOMAIN R :
                  d < e /\ R[e].kind = "trim" /\ R[e].list = R[d].list
  <2>1. d \in 1 .. Len(R) /\ Len(R) \in Nat /\ DOMAIN R = 1 .. Len(R)
    BY <1>5
  <2>2. PICK i \in 1 .. Len(kwargs) : \E j \in 1 .. Len(parts[i]) : d = off[i] + j
    BY <1>5, <2>1 DEF Laid
  <2>3. PICK j \in 1 .. Len(parts[i]) : d = off[i] + j
    BY <2>2
  <2> DEFINE n == Len(kwargs[i].values)
             trim == [kind |-> "trim", call |-> call, list |-> kwargs[i].list]
             push(k) == [kind |-> "push", call |-> call, list |-> kwargs[i].list,
                         value |-> kwargs[i].values[k]]
  <2>4. /\ n \in Nat /\ Len(parts[i]) = n + 1 /\ parts[i][n + 1] = trim
        /\ \A k \in 1 .. n : parts[i][k] = push(k)
    <3>1. i \in DOMAIN kwargs /\ parts[i] = AddParts(call, kwargs)[i]
      BY <1>2 DEF parts
    <3>2. LET part == AddParts(call, kwargs)[i] IN
          /\ n \in Nat /\ Len(part) = n + 1 /\ part[n + 1] = trim
          /\ \A k \in 1 .. n : part[k] = push(k)
      <4>1. i \in DOMAIN kwargs
        BY <3>1
      <4> QED
        BY <4>1, AddPartsAre, Zenon
    <3> QED
      BY <3>1, <3>2, Zenon
  <2>5. /\ off[i] \in Nat /\ off[i] + Len(parts[i]) <= Len(R)
        /\ \A k \in 1 .. Len(parts[i]) : R[off[i] + k] = parts[i][k]
    BY <1>5 DEF Laid
  <2>6. /\ trim.kind = "trim" /\ trim.call = call /\ trim.list = kwargs[i].list
        /\ \A k : push(k).kind = "push" /\ push(k).call = call /\ push(k).list = kwargs[i].list
    OBVIOUS
  <2> HIDE DEF n, trim, push
  <2>7. CASE j = n + 1
    BY <2>3, <2>4, <2>5, <2>6, <2>7
  <2>8. CASE j \in 1 .. n
    <3>1. R[d] = push(j)
      BY <2>3, <2>4, <2>5, <2>8
    <3>2. R[off[i] + (n + 1)] = trim /\ off[i] + (n + 1) \in DOMAIN R /\ d < off[i] + (n + 1)
      <4>1. n + 1 \in 1 .. Len(parts[i]) /\ j < n + 1 /\ j \in Nat
        BY <2>4, <2>8
      <4>2. off[i] + (n + 1) \in 1 .. Len(R) /\ off[i] + j < off[i] + (n + 1)
        BY <2>1, <2>4, <2>5, <4>1
      <4> QED
        BY <2>1, <2>3, <2>4, <2>5, <4>1, <4>2
    <3> QED
      BY <2>6, <3>1, <3>2
  <2> QED
    BY <2>4, <2>7, <2>8
<1> QED
  BY <1>5, <1>6 DEF R, parts

\* A removal sends removals.
LEMMA RemoveRequestsAre ==
  ASSUME NEW call \in Nat, NEW kwargs \in Removals
  PROVE  LET R == RemoveRequests(call, kwargs) IN
         R \in Seq(Request) /\ \A d \in DOMAIN R : R[d].call = call /\ R[d].kind = "remove"
<1> DEFINE Removing == {r \in Request : r.call = call /\ r.kind = "remove"}
           one(i, j) == [kind |-> "remove", call |-> call, list |-> kwargs[i].list, value |-> j - 1]
           part(i) == [j \in 1 .. Len(kwargs[i].values) |-> one(i, j)]
           parts == [i \in DOMAIN kwargs |-> part(i)]
<1>1. kwargs \in Seq([list : Names, values : Seq(Values)])
  BY ListsAssumption
<1>2. DOMAIN kwargs = 1 .. Len(kwargs) /\ Len(kwargs) \in Nat
  BY <1>1
<1>3. RemoveRequests(call, kwargs) = Ext!FlattenSeq(parts)
  BY DEF RemoveRequests
<1>4. ASSUME NEW i \in 1 .. Len(kwargs) PROVE part(i) \in Seq(Removing)
  <2> DEFINE K == [list : Names, values : Seq(Values)]
  <2>1. kwargs[i] \in K
    <3>1. kwargs \in Seq(K)
      BY <1>1
    <3> HIDE DEF K
    <3> QED
      BY <1>2, <3>1
  <2>2. kwargs[i].list \in Names /\ Len(kwargs[i].values) \in Nat
    BY <2>1
  <2>3. ASSUME NEW j \in 1 .. Len(kwargs[i].values) PROVE one(i, j) \in Removing
    <3>1. j - 1 \in Nat
      BY <2>2
    <3> QED
      BY <2>2, <3>1 DEF Request
  <2> HIDE DEF one, Removing
  <2> QED
    BY <2>2, <2>3
<1>5. parts \in Seq(Seq(Removing))
  <2> HIDE DEF part, Removing
  <2> QED
    BY <1>2, <1>4
<1> HIDE DEF parts
<1>6. RemoveRequests(call, kwargs) \in Seq(Removing)
  <2> HIDE DEF Removing
  <2> QED
    BY <1>3, <1>5, FlattenSeqLays
<1>7. /\ Removing \subseteq Request
      /\ \A r \in Removing : r.call = call /\ r.kind = "remove"
  OBVIOUS
<1> HIDE DEF Removing
<1> QED
  BY <1>6, <1>7

LEMMA FlushRequestsAre ==
  ASSUME NEW call \in Nat, NEW count \in DOMAIN IndexName
  PROVE  LET R == FlushRequests(call, count) IN
         R \in Seq(Request) /\ \A d \in DOMAIN R : R[d].call = call /\ R[d].kind = "delete"
<1> DEFINE names == {IndexName[i] : i \in 1 .. count}
           r == [kind |-> "delete", call |-> call, lists |-> names]
<1>1. DOMAIN IndexName = 1 .. Len(IndexName) /\ Len(IndexName) \in Nat
  BY ListsAssumption
<1>2. names \subseteq {IndexName[i] : i \in DOMAIN IndexName}
  <2>1. 1 .. count \subseteq DOMAIN IndexName
    BY <1>1
  <2> QED
    BY <2>1
<1>3. FlushRequests(call, count) = <<r>>
  BY DEF FlushRequests
<1> HIDE DEF names
<1>4. r \in Request /\ r.call = call /\ r.kind = "delete"
  BY <1>2 DEF Request
<1> HIDE DEF r
<1> QED
  BY <1>3, <1>4

-----------------------------------------------------------------------------
(* What is on the connections *)

LEMMA RequestTypes ==
  ASSUME NEW r \in Request
  PROVE  /\ r.call \in Nat /\ r.kind \in {"push", "trim", "remove", "delete"}
         /\ r.kind # "delete" => r.list \in Names
         /\ r.kind = "push" => r.value \in Values
  BY DEF Request

\* A call puts its requests behind those of its host.
LEMMA CallSends ==
  ASSUME TypeOK, NEW h \in Hosts, NEW requests \in Seq(Request), NEW kwargs,
         Call(h, requests, kwargs)
  PROVE  /\ DOMAIN sent' = Hosts /\ \A g \in Hosts \ {h} : sent'[g] = sent[g]
         /\ sent'[h] = sent[h] \o requests
         /\ sent[h] \in Seq(Request) /\ sent'[h] \in Seq(Request)
         /\ Len(sent'[h]) = Len(sent[h]) + Len(requests)
         /\ \A i \in DOMAIN sent[h] : i \in DOMAIN sent'[h] /\ sent'[h][i] = sent[h][i]
         /\ \A i \in DOMAIN requests : /\ Len(sent[h]) + i \in DOMAIN sent'[h]
                                       /\ sent'[h][Len(sent[h]) + i] = requests[i]
         /\ \A i \in DOMAIN sent'[h] :
              i \in DOMAIN sent[h] \/ \E j \in DOMAIN requests : i = Len(sent[h]) + j
<1> DEFINE old == sent[h]
           new == old \o requests
<1>1. DOMAIN sent = Hosts /\ old \in Seq(Request)
  BY DEF TypeOK
<1>2. /\ DOMAIN sent' = Hosts /\ \A g \in Hosts \ {h} : sent'[g] = sent[g]
      /\ sent'[h] = new
  BY <1>1 DEF Call
<1> HIDE DEF old
<1>3. /\ new \in Seq(Request) /\ Len(new) = Len(old) + Len(requests)
      /\ Len(old) \in Nat /\ Len(requests) \in Nat
      /\ \A i \in 1 .. Len(old) + Len(requests) :
           new[i] = IF i <= Len(old) THEN old[i] ELSE requests[i - Len(old)]
  BY <1>1, ConcatProperties
<1> HIDE DEF new
<1>4. /\ DOMAIN old = 1 .. Len(old) /\ DOMAIN requests = 1 .. Len(requests)
      /\ DOMAIN new = 1 .. Len(old) + Len(requests)
  BY <1>1, <1>3
<1>5. ASSUME NEW i \in DOMAIN old PROVE i \in DOMAIN new /\ new[i] = old[i]
  BY <1>3, <1>4
<1>6. ASSUME NEW i \in DOMAIN requests
      PROVE  Len(old) + i \in DOMAIN new /\ new[Len(old) + i] = requests[i]
  <2>1. /\ Len(old) + i \in 1 .. Len(old) + Len(requests) /\ ~(Len(old) + i <= Len(old))
        /\ Len(old) + i - Len(old) = i
    BY <1>3, <1>4
  <2> QED
    BY <1>3, <1>4, <2>1
<1>7. ASSUME NEW i \in DOMAIN new, i \notin DOMAIN old
      PROVE  \E j \in DOMAIN requests : i = Len(old) + j
  <2>1. i - Len(old) \in 1 .. Len(requests) /\ i = Len(old) + (i - Len(old))
    BY <1>3, <1>4, <1>7
  <2> QED
    BY <1>4, <2>1
<1> QED
  BY <1>1, <1>2, <1>3, <1>5, <1>6, <1>7 DEF old, new

\* What arrives is the first request of a host; the others move up.
LEMMA ArriveTakes ==
  ASSUME TypeOK, NEW h \in Hosts, Arrive(h)
  PROVE  /\ DOMAIN sent' = Hosts /\ \A g \in Hosts \ {h} : sent'[g] = sent[g]
         /\ sent[h] \in Seq(Request) /\ sent'[h] \in Seq(Request)
         /\ 1 \in DOMAIN sent[h] /\ Head(sent[h]) = sent[h][1] /\ Head(sent[h]) \in Request
         /\ Len(sent[h]) \in Nat \ {0} /\ Len(sent'[h]) = Len(sent[h]) - 1
         /\ \A i \in 1 .. Len(sent[h]) - 1 : sent'[h][i] = sent[h][i + 1]
<1> DEFINE old == sent[h]
<1>1. DOMAIN sent = Hosts /\ old \in Seq(Request) /\ old # <<>>
  BY DEF TypeOK, Arrive
<1>2. /\ DOMAIN sent' = Hosts /\ \A g \in Hosts \ {h} : sent'[g] = sent[g]
      /\ sent'[h] = Tail(old)
  BY <1>1 DEF Arrive
<1> HIDE DEF old
<1>3. /\ 1 \in DOMAIN old /\ Head(old) = old[1] /\ Head(old) \in Request
      /\ Len(old) \in Nat \ {0} /\ Tail(old) \in Seq(Request) /\ Len(Tail(old)) = Len(old) - 1
      /\ \A i \in 1 .. Len(old) - 1 : Tail(old)[i] = old[i + 1]
  BY <1>1
<1> QED
  BY <1>1, <1>2, <1>3 DEF old

\* A crash leaves the first requests of a host.
LEMMA CrashLeaves ==
  ASSUME TypeOK, NEW h \in Hosts, NEW k \in 0 .. Len(sent[h]), CrashHost(h, k)
  PROVE  /\ DOMAIN sent' = Hosts /\ \A g \in Hosts \ {h} : sent'[g] = sent[g]
         /\ sent[h] \in Seq(Request) /\ sent'[h] \in Seq(Request)
         /\ k \in Nat /\ Len(sent'[h]) = k /\ Len(sent[h]) \in Nat
         /\ \A i \in 1 .. k : sent'[h][i] = sent[h][i]
<1> DEFINE old == sent[h]
<1>1. DOMAIN sent = Hosts /\ old \in Seq(Request)
  BY DEF TypeOK
<1>2. /\ DOMAIN sent' = Hosts /\ \A g \in Hosts \ {h} : sent'[g] = sent[g]
      /\ sent'[h] = SubSeq(old, 1, k)
  BY <1>1 DEF CrashHost
<1> HIDE DEF old
<1>3. /\ SubSeq(old, 1, k) \in Seq(Request) /\ Len(SubSeq(old, 1, k)) = k
      /\ Len(old) \in Nat /\ k \in Nat
      /\ \A i \in 1 .. k : SubSeq(old, 1, k)[i] = old[i]
  BY <1>1 DEF old
<1> QED
  BY <1>1, <1>2, <1>3 DEF old

-----------------------------------------------------------------------------
(* Types *)

LEMMA ArriveTyped ==
  ASSUME Inv, TypeOK, NEW h \in Hosts, Arrive(h)
  PROVE  TypeOK'
<1> DEFINE r == Head(sent[h])
           n == r.list
           nth == past.count[n] + 1
<1>1. /\ DOMAIN sent' = Hosts /\ made' = made /\ crashes' = crashes
      /\ \A g \in Hosts : sent'[g] \in Seq(Request)
  <2>1. made' = made /\ crashes' = crashes
    BY DEF Arrive
  <2> QED
    BY <2>1, ArriveTakes DEF TypeOK
<1>2. /\ r.kind # "delete" => n \in Names
      /\ r.kind = "push" => r.value \in Values /\ r.call \in Nat
  BY ArriveTakes, RequestTypes
<1>3. /\ lists \in [Names -> SUBSET [value : Values, nth : Nat]]
      /\ past.count \in [Names -> Nat]
      /\ past.pushed \in [Names -> SUBSET [value : Values, call : Nat, nth : Nat]]
      /\ past.removed \in [Names -> SUBSET Nat] /\ Record(past)
  BY DEF TypeOK, Inv, Numbered
<1>4. ASSUME r.kind = "push", Push(r)
      PROVE  /\ lists' \in [Names -> SUBSET [value : Values, nth : Nat]]
             /\ past'.count \in [Names -> Nat]
             /\ past'.pushed \in [Names -> SUBSET [value : Values, call : Nat, nth : Nat]]
             /\ past'.removed \in [Names -> SUBSET Nat]
  <2>1. /\ lists' = [lists EXCEPT ![n] = lists[n] \cup {[value |-> r.value, nth |-> nth]}]
        /\ past'.count = [past.count EXCEPT ![n] = nth]
        /\ past'.pushed = [past.pushed EXCEPT ![n] = past.pushed[n] \cup
             {[value |-> r.value, call |-> r.call, nth |-> nth]}]
        /\ past'.removed = past.removed
    BY <1>3, <1>4 DEF Push, Record
  <2>2. n \in Names /\ r.value \in Values /\ r.call \in Nat
    BY <1>2, <1>4
  <2>3. nth \in Nat
    BY <1>3, <2>2
  <2> HIDE DEF nth, n, r
  <2> QED
    BY <1>3, <2>1, <2>2, <2>3
<1>5. ASSUME r.kind = "trim", TrimList(r)
      PROVE  lists' \in [Names -> SUBSET [value : Values, nth : Nat]] /\ past' = past
  <2>1. LastOf(lists[n], MaxLength) \subseteq lists[n]
    BY DEF LastOf
  <2>2. lists' = [lists EXCEPT ![n] = LastOf(lists[n], MaxLength)] /\ past' = past
    BY <1>5 DEF TrimList
  <2> QED
    BY <1>2, <1>3, <1>5, <2>1, <2>2
<1>6. ASSUME r.kind = "remove", RemoveValue(r)
      PROVE  /\ lists' \in [Names -> SUBSET [value : Values, nth : Nat]]
             /\ past'.count = past.count /\ past'.pushed = past.pushed
             /\ past'.removed \in [Names -> SUBSET Nat]
  <2> DEFINE hits == {e \in lists[n] : e.value = r.value}
  <2>1. /\ lists' = [lists EXCEPT ![n] = lists[n] \ hits]
        /\ past'.removed = [past.removed EXCEPT ![n] = past.removed[n] \cup Numbers(hits)]
        /\ past'.count = past.count /\ past'.pushed = past.pushed
    BY <1>3, <1>6 DEF RemoveValue, Record
  <2>2. hits \subseteq lists[n] /\ n \in Names
    BY <1>2, <1>6
  <2> HIDE DEF hits, n
  <2>3. Numbers(hits) \subseteq Nat
    BY <1>3, <2>2 DEF Numbers
  <2> QED
    BY <1>3, <2>1, <2>2, <2>3
<1>7. ASSUME Delete(r)
      PROVE  /\ lists' \in [Names -> SUBSET [value : Values, nth : Nat]]
             /\ past'.count = past.count /\ past'.pushed = past.pushed
             /\ past'.removed \in [Names -> SUBSET Nat]
  <2>1. /\ lists' = [m \in Names |-> IF m \in r.lists THEN {} ELSE lists[m]]
        /\ past'.removed = [m \in Names |-> IF m \in r.lists
             THEN past.removed[m] \cup Numbers(lists[m]) ELSE past.removed[m]]
        /\ past'.count = past.count /\ past'.pushed = past.pushed
    BY <1>3, <1>7 DEF Delete, Record
  <2>2. \A m \in Names : Numbers(lists[m]) \subseteq Nat
    BY <1>3 DEF Numbers
  <2> QED
    BY <1>3, <2>1, <2>2
<1>8. /\ made \in Nat /\ crashes \in Nat
  BY DEF TypeOK
<1> QED
  BY <1>1, <1>3, <1>4, <1>5, <1>6, <1>7, <1>8 DEF Arrive, TypeOK

\* Every call sends requests.
LEMMA CallsSendRequests ==
  ASSUME TypeOK
  PROVE  /\ \A kwargs \in Adds : AddRequests(made, kwargs) \in Seq(Request)
         /\ \A kwargs \in Removals : RemoveRequests(made, kwargs) \in Seq(Request)
         /\ \A count \in DOMAIN IndexName : FlushRequests(made, count) \in Seq(Request)
         /\ <<>> \in Seq(Request)
<1>1. made \in Nat
  BY DEF TypeOK
<1> QED
  BY <1>1, AddRequestsAre, RemoveRequestsAre, FlushRequestsAre

LEMMA TypesKept ==
  ASSUME Inv, TypeOK, [Next]_vars
  PROVE  TypeOK'
<1>1. ASSUME NEW h \in Hosts, NEW requests \in Seq(Request), NEW kwargs, Call(h, requests, kwargs)
      PROVE  TypeOK'
  <2>1. /\ lists' = lists /\ made' = made + 1 /\ crashes' = crashes
        /\ past'.count = past.count /\ past'.removed = past.removed
        /\ past'.pushed = past.pushed
    BY <1>1 DEF Call, Inv, Numbered, Record
  <2>2. DOMAIN sent' = Hosts /\ \A g \in Hosts : sent'[g] \in Seq(Request)
    BY <1>1, CallSends DEF TypeOK
  <2> QED
    BY <2>1, <2>2 DEF TypeOK
<1>2. ASSUME NEW h \in Hosts, NEW k \in 0 .. Len(sent[h]), CrashHost(h, k) PROVE TypeOK'
  <2>1. /\ lists' = lists /\ made' = made /\ crashes' = crashes + 1
        /\ past'.count = past.count /\ past'.removed = past.removed
        /\ past'.pushed = past.pushed
    BY <1>2 DEF CrashHost, Inv, Numbered, Record
  <2>2. DOMAIN sent' = Hosts /\ \A g \in Hosts : sent'[g] \in Seq(Request)
    BY <1>2, CrashLeaves DEF TypeOK
  <2> QED
    BY <2>1, <2>2 DEF TypeOK
<1>3. CASE UNCHANGED vars
  BY <1>3 DEF vars, TypeOK
<1> QED
  BY <1>1, <1>2, <1>3, ArriveTyped, CallsSendRequests DEF Next, Add, Remove, Flush, UpdateMarkers

\* What is in the lists, on the connections and in the record has its type, whatever the
\* hosts send and wherever they crash.
THEOREM TypeCorrect == Spec => []TypeOK
<1>1. Init => TypeOK
  BY DEF Init, TypeOK
<1>2. Inv /\ TypeOK /\ [Next]_vars => Inv' /\ TypeOK'
  BY StepInv, TypesKept
<1> QED
  BY InitInv, <1>1, <1>2, PTL DEF Spec

-----------------------------------------------------------------------------
(* The length of the lists *)

\* Behind each push of a list its host has sent a trim of it.
Trimmed ==
  \A h \in Hosts : \A i \in DOMAIN sent[h] : sent[h][i].kind = "push" =>
    \E j \in DOMAIN sent[h] :
      i < j /\ sent[h][j].kind = "trim" /\ sent[h][j].list = sent[h][i].list

Cut == \A n \in Names : TooLong(n) => TrimComing(n)

LengthInv == Inv /\ TypeOK /\ (past.cut = {} => Trimmed /\ Cut)

LEMMA ListFinite ==
  ASSUME Inv, NEW n \in Names
  PROVE  IsFiniteSet(lists[n]) /\ Cardinality(lists[n]) \in Nat
<1> DEFINE S == lists[n]
           number == [e \in S |-> e.nth]
           range == 1 .. past.count[n]
<1>1. /\ \A e \in S : e.nth \in range
      /\ \A e, f \in S : e.nth = f.nth => e = f
      /\ past.count[n] \in Nat
  BY DEF Inv, Numbered
<1>2. IsFiniteSet(range)
  BY <1>1, FS_Interval
<1> HIDE DEF S, range
<1>3. number \in Injection(S, range)
  BY <1>1 DEF Injection, IsInjective
<1> HIDE DEF number
<1>4. IsFiniteSet(S)
  BY <1>2, <1>3, FS_Injection
<1> QED
  BY <1>4, FS_CardinalityType DEF S

\* A trim leaves n values at most: the first of them and fewer than n after it.
LEMMA LastOfSize ==
  ASSUME NEW S, IsFiniteSet(S), NEW n \in Nat \ {0},
         \A e \in S : e.nth \in Nat,
         \A e, f \in S : e.nth = f.nth => e = f
  PROVE  Cardinality(LastOf(S, n)) <= n
<1> DEFINE L == LastOf(S, n)
<1>1. L \subseteq S /\ IsFiniteSet(L)
  <2>1. L \subseteq S
    BY DEF LastOf
  <2> HIDE DEF L
  <2> QED
    BY <2>1, FS_Subset
<1>2. \A e \in L : Cardinality({f \in S : f.nth > e.nth}) < n
  BY DEF LastOf
<1> HIDE DEF L
<1>3. CASE L = {}
  BY <1>3, FS_EmptySet DEF L
<1>4. CASE L # {}
  <2> DEFINE numbers == {e.nth : e \in L}
  <2>1. numbers \subseteq Nat /\ numbers # {}
    BY <1>1, <1>4
  <2>2. PICK m \in numbers : \A k \in numbers : m <= k
    <3> HIDE DEF numbers
    <3> QED
      BY <2>1, LeastNumber
  <2>3. PICK e \in L : m = e.nth
    OBVIOUS
  <2> DEFINE later == {f \in S : f.nth > e.nth}
  <2>4. L \subseteq later \cup {e}
    <3>1. ASSUME NEW f \in L, f # e PROVE f.nth > e.nth
      <4>1. e.nth <= f.nth /\ e.nth # f.nth /\ e.nth \in Nat /\ f.nth \in Nat
        BY <1>1, <2>2, <2>3, <3>1
      <4> QED
        BY <4>1
    <3> QED
      BY <1>1, <3>1
  <2>5. IsFiniteSet(later) /\ Cardinality(later) < n
    BY <1>2, FS_Subset
  <2> HIDE DEF later
  <2>6. /\ IsFiniteSet(later \cup {e})
        /\ Cardinality(later \cup {e}) = IF e \in later THEN Cardinality(later)
                                         ELSE Cardinality(later) + 1
    BY <2>5, FS_AddElement
  <2>7. Cardinality(L) <= Cardinality(later \cup {e})
    BY <2>4, <2>6, FS_Subset
  <2>8. Cardinality(later) \in Nat /\ Cardinality(L) \in Nat
    BY <1>1, <2>5, FS_CardinalityType
  <2>9. Cardinality(later \cup {e}) <= n /\ Cardinality(later \cup {e}) \in Nat
    BY <2>5, <2>6, <2>8
  <2>10. Cardinality(L) <= n
    BY <2>7, <2>8, <2>9
  <2> QED
    BY <2>10 DEF L
<1> QED
  BY <1>3, <1>4

\* A trim is on its way until it arrives.
LEMMA TrimStillComing ==
  ASSUME TypeOK, NEW h \in Hosts, Arrive(h), NEW n, TrimComing(n),
         ~(Head(sent[h]).kind = "trim" /\ Head(sent[h]).list = n)
  PROVE  TrimComing(n)'
<1>1. PICK g \in Hosts : \E i \in DOMAIN sent[g] : sent[g][i].kind = "trim" /\ sent[g][i].list = n
  BY DEF TrimComing
<1>2. PICK i \in DOMAIN sent[g] : sent[g][i].kind = "trim" /\ sent[g][i].list = n
  BY <1>1
<1>3. CASE g # h
  BY <1>2, <1>3, ArriveTakes DEF TrimComing
<1>4. CASE g = h
  <2>1. i # 1 /\ i \in 1 .. Len(sent[h])
    BY <1>2, <1>4, ArriveTakes
  <2>2. i - 1 \in 1 .. Len(sent[h]) - 1 /\ (i - 1) + 1 = i
    BY <2>1, ArriveTakes
  <2>3. i - 1 \in DOMAIN sent'[h] /\ sent'[h][i - 1] = sent[h][i]
    <3>1. DOMAIN sent'[h] = 1 .. Len(sent[h]) - 1
      BY ArriveTakes
    <3> QED
      BY <2>2, <3>1, ArriveTakes
  <2> QED
    BY <1>2, <1>4, <2>3 DEF TrimComing
<1> QED
  BY <1>3, <1>4

LEMMA TrimmedKeptByArrive ==
  ASSUME TypeOK, Trimmed, NEW h \in Hosts, Arrive(h)
  PROVE  Trimmed'
<1>1. ASSUME NEW g \in Hosts, NEW i \in DOMAIN sent'[g], sent'[g][i].kind = "push"
      PROVE  \E j \in DOMAIN sent'[g] :
               i < j /\ sent'[g][j].kind = "trim" /\ sent'[g][j].list = sent'[g][i].list
  <2>1. CASE g # h
    BY <1>1, <2>1, ArriveTakes DEF Trimmed
  <2>2. CASE g = h
    <3>1. i \in 1 .. Len(sent[h]) - 1 /\ Len(sent[h]) \in Nat /\ DOMAIN sent[h] = 1 .. Len(sent[h])
          /\ DOMAIN sent'[h] = 1 .. Len(sent[h]) - 1
      BY <2>2, ArriveTakes
    <3>2. i + 1 \in DOMAIN sent[h] /\ sent'[h][i] = sent[h][i + 1]
      BY <3>1, ArriveTakes
    <3>3. PICK j \in DOMAIN sent[h] :
            i + 1 < j /\ sent[h][j].kind = "trim" /\ sent[h][j].list = sent[h][i + 1].list
      BY <1>1, <2>2, <3>2 DEF Trimmed
    <3>4. j - 1 \in 1 .. Len(sent[h]) - 1 /\ i < j - 1 /\ (j - 1) + 1 = j
      BY <3>1, <3>3
    <3>5. sent'[h][j - 1] = sent[h][j]
      BY <3>4, ArriveTakes
    <3> QED
      BY <2>2, <3>1, <3>2, <3>3, <3>4, <3>5
  <2> QED
    BY <2>1, <2>2
<1> QED
  BY <1>1 DEF Trimmed

LEMMA CutKeptByArrive ==
  ASSUME Inv, TypeOK, Trimmed, Cut, NEW h \in Hosts, Arrive(h)
  PROVE  Cut'
<1> DEFINE r == Head(sent[h])
           n == r.list
<1>1. /\ r \in Request /\ r = sent[h][1] /\ 1 \in DOMAIN sent[h]
      /\ r.kind # "delete" => n \in Names
  BY ArriveTakes, RequestTypes
<1>2. lists \in [Names -> SUBSET [value : Values, nth : Nat]] /\ MaxLength \in Nat
  BY ListsAssumption DEF TypeOK
\* A list that has not grown is not too long without having been so.
<1>3. ASSUME NEW m \in Names, lists'[m] \subseteq lists[m], TooLong(m)' PROVE TooLong(m)
  <2>1. IsFiniteSet(lists[m]) /\ Cardinality(lists[m]) \in Nat
    BY ListFinite
  <2>2. Cardinality(lists'[m]) <= Cardinality(lists[m]) /\ Cardinality(lists'[m]) \in Nat
    BY <1>3, <2>1, FS_Subset, FS_CardinalityType
  <2>3. MaxLength # 0 /\ Cardinality(lists'[m]) > MaxLength
    BY <1>3 DEF TooLong
  <2> QED
    BY <1>2, <2>1, <2>2, <2>3 DEF TooLong
<1>4. ASSUME NEW m \in Names, lists'[m] \subseteq lists[m], ~(r.kind = "trim" /\ n = m), TooLong(m)'
      PROVE  TrimComing(m)'
  <2>1. TooLong(m)
    BY <1>3, <1>4
  <2>2. TrimComing(m)
    BY <2>1 DEF Cut
  <2> QED
    BY <1>4, <2>2, TrimStillComing
<1> SUFFICES ASSUME NEW m \in Names, TooLong(m)' PROVE TrimComing(m)'
  BY DEF Cut
<1>5. CASE r.kind = "push" /\ Push(r)
  <2>1. CASE m = n
    <3>1. PICK j \in DOMAIN sent[h] : 1 < j /\ sent[h][j].kind = "trim" /\ sent[h][j].list = n
      BY <1>1, <1>5 DEF Trimmed
    <3>2. TrimComing(m)
      BY <2>1, <3>1 DEF TrimComing
    <3> QED
      BY <1>5, <3>2, TrimStillComing
  <2>2. CASE m # n
    <3>1. lists'[m] = lists[m]
      BY <1>2, <1>5, <2>2 DEF Push
    <3> QED
      BY <1>4, <1>5, <3>1
  <2> QED
    BY <2>1, <2>2
<1>6. CASE r.kind = "trim" /\ TrimList(r)
  <2>1. lists' = [lists EXCEPT ![n] = LastOf(lists[n], MaxLength)]
    BY <1>6 DEF TrimList
  <2>2. CASE m = n
    <3>1. lists'[m] = LastOf(lists[m], MaxLength)
      BY <1>2, <2>1, <2>2
    <3>2. MaxLength \in Nat \ {0} /\ Cardinality(lists'[m]) > MaxLength
      BY <1>2 DEF TooLong
    <3>3. /\ IsFiniteSet(lists[m])
          /\ \A e \in lists[m] : e.nth \in Nat
          /\ \A e, f \in lists[m] : e.nth = f.nth => e = f
      BY <1>2, ListFinite DEF Inv, Numbered
    <3>4. Cardinality(LastOf(lists[m], MaxLength)) <= MaxLength
      BY <3>2, <3>3, LastOfSize
    <3>5. Cardinality(lists'[m]) \in Nat
      BY <3>1, <3>3, FS_Subset, FS_CardinalityType DEF LastOf
    <3> QED
      BY <3>1, <3>2, <3>4, <3>5
  <2>3. CASE m # n
    <3>1. lists'[m] = lists[m]
      BY <1>2, <2>1, <2>3
    <3> QED
      BY <1>4, <2>3, <3>1
  <2> QED
    BY <2>2, <2>3
<1>7. CASE r.kind = "remove" /\ RemoveValue(r)
  <2>1. lists'[m] \subseteq lists[m]
    BY <1>2, <1>7 DEF RemoveValue
  <2> QED
    BY <1>4, <1>7, <2>1
<1>8. CASE r.kind = "delete" /\ Delete(r)
  <2>1. lists'[m] \subseteq lists[m]
    BY <1>2, <1>8 DEF Delete
  <2> QED
    BY <1>4, <1>8, <2>1
<1> QED
  BY <1>5, <1>6, <1>7, <1>8 DEF Arrive

\* A call whose pushes have a trim behind them.
LEMMA LengthKeptByCall ==
  ASSUME Inv, TypeOK, Trimmed, Cut, NEW h \in Hosts, NEW requests \in Seq(Request), NEW kwargs,
         Call(h, requests, kwargs),
         \A d \in DOMAIN requests : requests[d].kind = "push" =>
           \E e \in DOMAIN requests :
             d < e /\ requests[e].kind = "trim" /\ requests[e].list = requests[d].list
  PROVE  Trimmed' /\ Cut'
<1>1. ASSUME NEW g \in Hosts, NEW i \in DOMAIN sent'[g], sent'[g][i].kind = "push"
      PROVE  \E j \in DOMAIN sent'[g] :
               i < j /\ sent'[g][j].kind = "trim" /\ sent'[g][j].list = sent'[g][i].list
  <2>1. CASE g # h
    BY <1>1, <2>1, CallSends DEF Trimmed
  <2>2. CASE g = h /\ i \in DOMAIN sent[h]
    <3>1. PICK j \in DOMAIN sent[h] :
            i < j /\ sent[h][j].kind = "trim" /\ sent[h][j].list = sent[h][i].list
      <4>1. sent[h][i].kind = "push" /\ i \in DOMAIN sent[h]
        BY <1>1, <2>2, CallSends
      <4> QED
        BY <4>1 DEF Trimmed
    <3> QED
      BY <2>2, <3>1, CallSends
  <2>3. CASE g = h /\ i \notin DOMAIN sent[h]
    <3>1. PICK d \in DOMAIN requests : i = Len(sent[h]) + d
      BY <2>3, CallSends
    <3>2. sent'[h][i] = requests[d]
      BY <3>1, CallSends
    <3>3. PICK e \in DOMAIN requests :
            d < e /\ requests[e].kind = "trim" /\ requests[e].list = requests[d].list
      BY <1>1, <2>3, <3>2
    <3>4. /\ Len(sent[h]) + e \in DOMAIN sent'[h] /\ sent'[h][Len(sent[h]) + e] = requests[e]
      BY <3>3, CallSends
    <3>5. i < Len(sent[h]) + e
      <4>1. d \in Nat /\ e \in Nat
        OBVIOUS
      <4>2. sent[h] \in Seq(Request)
        BY DEF TypeOK
      <4>3. Len(sent[h]) \in Nat
        BY <4>2
      <4> QED
        BY <3>1, <3>3, <4>1, <4>3
    <3> QED
      BY <2>3, <3>2, <3>3, <3>4, <3>5
  <2> QED
    BY <2>1, <2>2, <2>3
<1>2. ASSUME NEW n \in Names, TooLong(n)' PROVE TrimComing(n)'
  <2>1. TooLong(n)
    BY <1>2 DEF TooLong, Call
  <2>2. PICK g \in Hosts : \E i \in DOMAIN sent[g] : sent[g][i].kind = "trim" /\ sent[g][i].list = n
    BY <2>1 DEF Cut, TrimComing
  <2>3. \E i \in DOMAIN sent'[g] : sent'[g][i].kind = "trim" /\ sent'[g][i].list = n
    BY <2>2, CallSends
  <2> QED
    BY <2>3 DEF TrimComing
<1> QED
  BY <1>1, <1>2 DEF Trimmed, Cut

LEMMA LengthInvKept ==
  ASSUME LengthInv, [Next]_vars
  PROVE  LengthInv'
<1> SUFFICES ASSUME past'.cut = {} PROVE Trimmed' /\ Cut'
  BY StepInv, TypesKept DEF LengthInv
<1>1. Record(past) /\ made \in Nat /\ Inv /\ TypeOK
  BY DEF LengthInv, Inv, Numbered, TypeOK
<1>2. ASSUME NEW h \in Hosts, NEW requests \in Seq(Request), NEW kwargs, Call(h, requests, kwargs),
             \A d \in DOMAIN requests : requests[d].kind = "push" =>
               \E e \in DOMAIN requests :
                 d < e /\ requests[e].kind = "trim" /\ requests[e].list = requests[d].list
      PROVE  Trimmed' /\ Cut'
  <2>1. past.cut = {}
    BY <1>1, <1>2 DEF Call, Record
  <2> QED
    BY <1>1, <1>2, <2>1, LengthKeptByCall DEF LengthInv
<1>3. ASSUME NEW h \in Hosts, NEW kwargs \in Adds, Add(h, kwargs) PROVE Trimmed' /\ Cut'
  BY <1>1, <1>2, <1>3, AddRequestsAre DEF Add
<1>4. ASSUME NEW h \in Hosts, NEW kwargs \in Removals, Remove(h, kwargs) PROVE Trimmed' /\ Cut'
  <2>1. /\ RemoveRequests(made, kwargs) \in Seq(Request)
        /\ \A d \in DOMAIN RemoveRequests(made, kwargs) : RemoveRequests(made, kwargs)[d].kind # "push"
    BY <1>1, RemoveRequestsAre
  <2> QED
    BY <1>2, <1>4, <2>1 DEF Remove
<1>5. ASSUME NEW h \in Hosts, NEW count \in DOMAIN IndexName, Flush(h, count)
      PROVE  Trimmed' /\ Cut'
  <2>1. /\ FlushRequests(made, count) \in Seq(Request)
        /\ \A d \in DOMAIN FlushRequests(made, count) : FlushRequests(made, count)[d].kind # "push"
    BY <1>1, FlushRequestsAre
  <2> QED
    BY <1>2, <1>5, <2>1 DEF Flush
<1>6. ASSUME NEW h \in Hosts, UpdateMarkers(h) PROVE Trimmed' /\ Cut'
  <2>1. <<>> \in Seq(Request) /\ DOMAIN <<>> = {}
    OBVIOUS
  <2> QED
    BY <1>2, <1>6, <2>1 DEF UpdateMarkers
<1>7. ASSUME NEW h \in Hosts, Arrive(h) PROVE Trimmed' /\ Cut'
  <2>1. past'.cut = past.cut
    BY <1>1, <1>7 DEF Arrive, Push, TrimList, RemoveValue, Delete, Record
  <2> QED
    BY <1>1, <1>7, <2>1, TrimmedKeptByArrive, CutKeptByArrive DEF LengthInv
\* A crash that cuts nothing off leaves everything on its way.
<1>8. ASSUME NEW h \in Hosts, NEW k \in 0 .. Len(sent[h]), CrashHost(h, k) PROVE Trimmed' /\ Cut'
  <2>1. past'.cut = past.cut \cup {sent[h][i].call : i \in k + 1 .. Len(sent[h])} /\ lists' = lists
    BY <1>1, <1>8 DEF CrashHost, Record
  <2>2. /\ sent[h] \in Seq(Request) /\ sent'[h] \in Seq(Request) /\ Len(sent[h]) \in Nat /\ k \in Nat
        /\ Len(sent'[h]) = k /\ \A i \in 1 .. k : sent'[h][i] = sent[h][i]
        /\ \A g \in Hosts \ {h} : sent'[g] = sent[g]
    BY <1>1, <1>8, CrashLeaves
  <2>3. k = Len(sent[h])
    <3>1. k + 1 .. Len(sent[h]) = {}
      BY <2>1
    <3>2. k # Len(sent[h]) => k + 1 \in k + 1 .. Len(sent[h])
      BY <2>2
    <3> QED
      BY <3>1, <3>2
  <2>4. \A g \in Hosts : DOMAIN sent'[g] = DOMAIN sent[g]
                         /\ \A i \in DOMAIN sent[g] : sent'[g][i] = sent[g][i]
    BY <2>2, <2>3
  <2>5. Trimmed /\ Cut
    BY <2>1 DEF LengthInv
  <2>6. Trimmed'
    BY <2>4, <2>5 DEF Trimmed
  <2>7. \A n \in Names : (TooLong(n)' => TooLong(n)) /\ (TrimComing(n) => TrimComing(n)')
    BY <2>1, <2>4 DEF TooLong, TrimComing
  <2> QED
    BY <2>5, <2>6, <2>7 DEF Cut
<1>9. CASE UNCHANGED vars
  BY <1>9 DEF vars, LengthInv, Trimmed, Cut, TooLong, TrimComing
<1> QED
  BY <1>3, <1>4, <1>5, <1>6, <1>7, <1>8, <1>9 DEF Next

\* However additions of several hosts interleave, with a removal or a deletion between
\* the values and the trim of one, a list is too long only while a trim of it is on its
\* way, or after a crash has cut requests off.
THEOREM ListsAreBounded == Spec => []Bounded
<1>1. Init => LengthInv
  <2> SUFFICES ASSUME Init PROVE LengthInv
    OBVIOUS
  <2>1. TypeOK
    BY DEF Init, TypeOK
  <2>2. Trimmed
    BY DEF Init, Trimmed
  <2>3. \A n \in Names : Cardinality(lists[n]) = 0
    BY FS_EmptySet DEF Init
  <2>4. Cut
    BY <2>3, ListsAssumption DEF Cut, TooLong
  <2> QED
    BY <2>1, <2>2, <2>4, InitInv DEF LengthInv
<1>2. LengthInv /\ [Next]_vars => LengthInv'
  BY LengthInvKept
<1>3. LengthInv => Bounded
  BY DEF LengthInv, Cut, Bounded
<1> QED
  BY <1>1, <1>2, <1>3, PTL DEF Spec

-----------------------------------------------------------------------------
(* The order of an addition *)

\* What call c has pushed to list n.
Of(c, n) == {p \in past.pushed[n] : p.call = c}

\* The pushes to n among the first d of R.
PushesTo(R, d, n) == {e \in 1 .. d : R[e].kind = "push" /\ R[e].list = n}

\* The first d of R have taken effect as requests of call c, the pushes of one list under
\* growing numbers: g[e] is that of the e-th request.
Effect(c, R, d, g) ==
  /\ g \in [1 .. d -> Nat]
  /\ \A e, f \in 1 .. d :
       /\ e < f /\ R[e].kind = "push" /\ R[f].kind = "push" /\ R[e].list = R[f].list
       => g[e] < g[f]
  /\ \A n \in Names :
       Of(c, n) = {[value |-> R[e].value, call |-> c, nth |-> g[e]] : e \in PushesTo(R, d, n)}

\* The next k of R, all the rest unless a crash has cut c off, are on the connection of h,
\* together, and nothing else of c is under way.
Waits(c, R, d, h, lo, k) ==
  /\ d + k <= Len(R)
  /\ lo + k <= Len(sent[h])
  /\ \A j \in 1 .. k : sent[h][lo + j] = R[d + j]
  /\ \A f \in Hosts : \A i \in DOMAIN sent[f] :
       sent[f][i].call = c => f = h /\ i \in lo + 1 .. lo + k
  /\ d + k = Len(R) \/ c \in past.cut

InOrder(c, R) ==
  \E h \in Hosts : \E d, lo, k \in Nat :
    Waits(c, R, d, h, lo, k) /\ \E g : Effect(c, R, d, g)

\* Numbers of calls and of pushes are of those made so far.
Counting ==
  /\ \A n \in Names : \A p \in past.pushed[n] : p.nth <= past.count[n] /\ p.call < made
  /\ \A h \in Hosts : \A i \in DOMAIN sent[h] : sent[h][i].call < made
  /\ past.args \in Seq(Adds \cup {<<>>}) /\ Len(past.args) = made

Orders ==
  \A c \in Nat : \A kwargs \in Adds :
    c < made /\ past.args[c + 1] = kwargs /\ kwargs # <<>> => InOrder(c, AddRequests(c, kwargs))

OrderInv == Inv /\ TypeOK /\ Counting /\ Orders

\* What arrives is added to the record only when it is a push.
LEMMA ArriveRecords ==
  ASSUME Inv, TypeOK, NEW h \in Hosts, Arrive(h)
  PROVE  LET r == Head(sent[h])
             nth == past.count[r.list] + 1
         IN /\ past'.args = past.args /\ past'.cut = past.cut /\ made' = made
            /\ r.kind = "push" =>
                 /\ r.list \in Names /\ nth \in Nat
                 /\ past'.count = [past.count EXCEPT ![r.list] = nth]
                 /\ past'.pushed = [past.pushed EXCEPT ![r.list] = past.pushed[r.list] \cup
                      {[value |-> r.value, call |-> r.call, nth |-> nth]}]
            /\ r.kind # "push" => past'.count = past.count /\ past'.pushed = past.pushed
<1> DEFINE r == Head(sent[h])
<1>1. Record(past) /\ past.count \in [Names -> Nat]
  BY DEF Inv, Numbered
<1>2. r.kind # "delete" => r.list \in Names
  BY ArriveTakes, RequestTypes
<1>3. past'.args = past.args /\ past'.cut = past.cut /\ made' = made
  BY <1>1 DEF Arrive, Push, TrimList, RemoveValue, Delete, Record
<1>4. CASE r.kind = "push" /\ Push(r)
  BY <1>1, <1>2, <1>3, <1>4 DEF Push, Record
<1>5. CASE r.kind # "push" /\ (TrimList(r) \/ RemoveValue(r) \/ Delete(r))
  BY <1>1, <1>3, <1>5 DEF TrimList, RemoveValue, Delete, Record
<1> QED
  BY <1>4, <1>5 DEF Arrive

\* Where nothing is pushed for a call its effect stays.
LEMMA EffectStays ==
  ASSUME NEW c, NEW R, NEW d, NEW g, Effect(c, R, d, g), \A n \in Names : Of(c, n)' = Of(c, n)
  PROVE  Effect(c, R, d, g)'
  BY DEF Effect

\* The next request of the call takes effect.
LEMMA EffectGrows ==
  ASSUME Inv, TypeOK, Counting, NEW h \in Hosts, Arrive(h),
         NEW c, NEW R, NEW d \in Nat, NEW g, Effect(c, R, d, g),
         Head(sent[h]) = R[d + 1], R[d + 1].call = c
  PROVE  \E f : Effect(c, R, d + 1, f)'
<1> DEFINE r == R[d + 1]
           nth == past.count[r.list] + 1
           f == [e \in 1 .. d + 1 |-> IF e = d + 1 THEN (IF r.kind = "push" THEN nth ELSE 0) ELSE g[e]]
           new == [value |-> r.value, call |-> c, nth |-> nth]
<1>1. /\ r.kind = "push" =>
           /\ r.list \in Names /\ nth \in Nat
           /\ past'.pushed = [past.pushed EXCEPT ![r.list] = past.pushed[r.list] \cup {new}]
      /\ r.kind # "push" => past'.pushed = past.pushed
  BY ArriveRecords
<1>2. g \in [1 .. d -> Nat] /\ DOMAIN past.pushed = Names /\ past.count \in [Names -> Nat]
  BY DEF Effect, TypeOK
<1>3. /\ f \in [1 .. d + 1 -> Nat]
      /\ \A e \in 1 .. d : f[e] = g[e] /\ e \in 1 .. d + 1
      /\ r.kind = "push" => f[d + 1] = nth
      /\ \A e \in 1 .. d + 1 : e = d + 1 \/ e \in 1 .. d
  <2>1. \A e \in 1 .. d + 1 : e = d + 1 \/ e \in 1 .. d
    OBVIOUS
  <2>2. \A e \in 1 .. d : e # d + 1 /\ e \in 1 .. d + 1
    OBVIOUS
  <2>3. r.kind = "push" => nth \in Nat
    BY <1>1
  <2> HIDE DEF nth, r
  <2> QED
    BY <1>2, <2>1, <2>2, <2>3
\* What has been pushed to a list has lower numbers.
<1>4. ASSUME NEW e \in 1 .. d, r.kind = "push", R[e].kind = "push", R[e].list = r.list
      PROVE  g[e] < nth
  <2>1. e \in PushesTo(R, d, r.list) /\ r.list \in Names
    BY <1>1, <1>4 DEF PushesTo
  <2>2. [value |-> R[e].value, call |-> c, nth |-> g[e]] \in Of(c, r.list)
    BY <2>1 DEF Effect
  <2>3. [value |-> R[e].value, call |-> c, nth |-> g[e]] \in past.pushed[r.list]
    BY <2>2 DEF Of
  <2>4. g[e] <= past.count[r.list] /\ past.count[r.list] \in Nat /\ g[e] \in Nat
    BY <1>2, <2>1, <2>3 DEF Counting
  <2> QED
    BY <2>4
<1> HIDE DEF f, nth, new
<1>5. ASSUME NEW e \in 1 .. d + 1, NEW e2 \in 1 .. d + 1, e < e2, R[e].kind = "push",
             R[e2].kind = "push", R[e].list = R[e2].list
      PROVE  f[e] < f[e2]
  <2>1. e \in 1 .. d
    BY <1>5
  <2>2. CASE e2 = d + 1
    BY <1>3, <1>4, <1>5, <2>1, <2>2
  <2>3. CASE e2 \in 1 .. d
    <3>1. g[e] < g[e2]
      BY <1>5, <2>1, <2>3 DEF Effect
    <3> QED
      BY <1>3, <2>1, <2>3, <3>1
  <2> QED
    BY <1>3, <2>2, <2>3
<1>6. ASSUME NEW n \in Names
      PROVE  Of(c, n)' = {[value |-> R[e].value, call |-> c, nth |-> f[e]] : e \in PushesTo(R, d + 1, n)}
  <2> DEFINE before == {[value |-> R[e].value, call |-> c, nth |-> g[e]] : e \in PushesTo(R, d, n)}
             after == {[value |-> R[e].value, call |-> c, nth |-> f[e]] : e \in PushesTo(R, d + 1, n)}
             same == {[value |-> R[e].value, call |-> c, nth |-> f[e]] : e \in PushesTo(R, d, n)}
  <2>1. Of(c, n) = before
    BY DEF Effect
  <2>2. before = same
    <3>1. PushesTo(R, d, n) \subseteq 1 .. d
      BY DEF PushesTo
    <3> QED
      BY <1>3, <3>1
  <2>3. CASE r.kind = "push" /\ r.list = n
    <3>1. PushesTo(R, d + 1, n) = PushesTo(R, d, n) \cup {d + 1}
      BY <1>3, <2>3 DEF PushesTo
    <3>2. new = [value |-> R[d + 1].value, call |-> c, nth |-> f[d + 1]]
      BY <1>3, <2>3 DEF new
    <3>3. after = same \cup {new}
      BY <3>1, <3>2
    <3>4. Of(c, n)' = Of(c, n) \cup {new}
      <4>1. past'.pushed[n] = past.pushed[n] \cup {new} /\ new.call = c
        BY <1>1, <1>2, <2>3 DEF new
      <4> QED
        BY <4>1 DEF Of
    <3> QED
      BY <2>1, <2>2, <3>3, <3>4
  <2>4. CASE ~(r.kind = "push" /\ r.list = n)
    <3>1. PushesTo(R, d + 1, n) = PushesTo(R, d, n)
      BY <1>3, <2>4 DEF PushesTo
    <3>2. past'.pushed[n] = past.pushed[n]
      BY <1>1, <1>2, <2>4
    <3>3. Of(c, n)' = Of(c, n)
      BY <3>2 DEF Of
    <3> QED
      BY <2>1, <2>2, <3>1, <3>3
  <2> QED
    BY <2>3, <2>4
<1>7. ASSUME NEW F, F = f PROVE Effect(c, R, d + 1, F)'
  <2>1. \A e, e2 \in 1 .. d + 1 :
          /\ e < e2 /\ R[e].kind = "push" /\ R[e2].kind = "push" /\ R[e].list = R[e2].list
          => F[e] < F[e2]
    BY <1>5, <1>7
  <2>2. F \in [1 .. d + 1 -> Nat]
    BY <1>3, <1>7
  <2>3. \A n \in Names :
          Of(c, n)' = {[value |-> R[e].value, call |-> c, nth |-> F[e]] : e \in PushesTo(R, d + 1, n)}
    BY <1>6, <1>7
  <2> HIDE DEF r
  <2> QED
    BY <2>1, <2>2, <2>3, Zenon DEF Effect
<1> QED
  BY <1>7

\* An arrival of another call leaves the requests of c together.
LEMMA WaitsStays ==
  ASSUME TypeOK, NEW h0 \in Hosts, Arrive(h0), past'.cut = past.cut,
         NEW c, NEW R, NEW d \in Nat, NEW h \in Hosts, NEW lo \in Nat, NEW k \in Nat,
         Waits(c, R, d, h, lo, k), Head(sent[h0]).call # c,
         \A j \in 1 .. k : R[d + j].call = c
  PROVE  \E low \in Nat : Waits(c, R, d, h, low, k)'
<1> DEFINE low == IF h0 = h /\ lo # 0 THEN lo - 1 ELSE lo
<1>1. low \in Nat
  OBVIOUS
<1>2. /\ lo + k <= Len(sent[h])
      /\ \A j \in 1 .. k : sent[h][lo + j] = R[d + j]
      /\ \A f \in Hosts : \A i \in DOMAIN sent[f] :
           sent[f][i].call = c => f = h /\ i \in lo + 1 .. lo + k
      /\ d + k <= Len(R) /\ (d + k = Len(R) \/ c \in past.cut)
  BY DEF Waits
<1>3. /\ \A g \in Hosts \ {h0} : sent'[g] = sent[g]
      /\ Head(sent[h0]) = sent[h0][1] /\ Len(sent[h0]) \in Nat \ {0}
      /\ DOMAIN sent[h0] = 1 .. Len(sent[h0]) /\ DOMAIN sent'[h0] = 1 .. Len(sent[h0]) - 1
      /\ Len(sent'[h0]) = Len(sent[h0]) - 1
      /\ \A i \in 1 .. Len(sent[h0]) - 1 : sent'[h0][i] = sent[h0][i + 1]
  <2>1. sent[h0] \in Seq(Request) /\ sent'[h0] \in Seq(Request)
    BY ArriveTakes
  <2>2. DOMAIN sent[h0] = 1 .. Len(sent[h0]) /\ DOMAIN sent'[h0] = 1 .. Len(sent'[h0])
    BY <2>1
  <2> QED
    BY <2>2, ArriveTakes
<1>4. ASSUME NEW f \in Hosts, NEW i \in DOMAIN sent'[f], sent'[f][i].call = c
      PROVE  f = h /\ i \in low + 1 .. low + k
  <2>1. CASE f # h0
    BY <1>2, <1>3, <1>4, <2>1
  <2>2. CASE f = h0
    <3>1. i \in Nat /\ i + 1 \in DOMAIN sent[h0] /\ sent'[h0][i] = sent[h0][i + 1]
      BY <1>3, <2>2
    <3>2. h0 = h /\ i + 1 \in lo + 1 .. lo + k
      BY <1>2, <1>4, <2>2, <3>1
    <3>3. CASE lo # 0
      BY <2>2, <3>1, <3>2, <3>3
    <3>4. CASE lo = 0
      <4>1. 1 \in 1 .. k
        BY <3>1, <3>2, <3>4
      <4>2. sent[h][0 + 1] = R[d + 1] /\ R[d + 1].call = c
        BY <1>2, <3>4, <4>1
      <4> QED
        BY <1>3, <3>2, <4>2
    <3> QED
      BY <3>3, <3>4
  <2> QED
    BY <2>1, <2>2
<1>5. low + k <= Len(sent'[h]) /\ \A j \in 1 .. k : sent'[h][low + j] = R[d + j]
  <2>1. CASE h0 # h
    BY <1>2, <1>3, <2>1
  <2>2. CASE h0 = h /\ lo # 0
    <3>1. low = lo - 1 /\ low + k <= Len(sent'[h])
      BY <1>2, <1>3, <2>2
    <3>2. ASSUME NEW j \in 1 .. k PROVE sent'[h][low + j] = R[d + j]
      <4>1. low + j \in 1 .. Len(sent[h0]) - 1 /\ (low + j) + 1 = lo + j
        BY <1>2, <1>3, <2>2, <3>1
      <4>2. sent'[h][low + j] = sent[h][lo + j]
        BY <1>3, <2>2, <4>1
      <4> QED
        BY <1>2, <4>2
    <3> QED
      BY <3>1, <3>2
  <2>3. CASE h0 = h /\ lo = 0
    <3>1. k = 0
      <4>1. SUFFICES ASSUME k # 0 PROVE FALSE
        OBVIOUS
      <4>2. 1 \in 1 .. k
        BY <4>1
      <4>3. sent[h][0 + 1] = R[d + 1] /\ R[d + 1].call = c
        BY <1>2, <2>3, <4>2
      <4> QED
        BY <1>3, <2>3, <4>3
    <3> QED
      BY <1>3, <2>3, <3>1
  <2> QED
    BY <2>1, <2>2, <2>3
<1> HIDE DEF low
<1>6. Waits(c, R, d, h, low, k)'
  BY <1>2, <1>4, <1>5 DEF Waits
<1> QED
  BY <1>1, <1>6

LEMMA InOrderKeptByArrive ==
  ASSUME Inv, TypeOK, Counting, NEW h0 \in Hosts, Arrive(h0),
         NEW c, NEW R \in Seq(Request), \A e \in DOMAIN R : R[e].call = c,
         InOrder(c, R)
  PROVE  InOrder(c, R)'
<1>1. PICK h \in Hosts : \E d, lo, k \in Nat : Waits(c, R, d, h, lo, k) /\ \E g : Effect(c, R, d, g)
  BY DEF InOrder
<1>2. PICK d \in Nat, lo \in Nat, k \in Nat : Waits(c, R, d, h, lo, k) /\ \E g : Effect(c, R, d, g)
  BY <1>1
<1>3. PICK g : Effect(c, R, d, g)
  BY <1>2
<1> DEFINE r == Head(sent[h0])
<1>4. past'.cut = past.cut /\ r = sent[h0][1] /\ 1 \in DOMAIN sent[h0]
  BY ArriveRecords, ArriveTakes
<1>5. /\ d + k <= Len(R) /\ lo + k <= Len(sent[h])
      /\ \A j \in 1 .. k : sent[h][lo + j] = R[d + j]
      /\ \A f \in Hosts : \A i \in DOMAIN sent[f] :
           sent[f][i].call = c => f = h /\ i \in lo + 1 .. lo + k
      /\ d + k = Len(R) \/ c \in past.cut
  BY <1>2 DEF Waits
<1>6. \A j \in 1 .. k : d + j \in DOMAIN R /\ R[d + j].call = c
  <2>1. Len(R) \in Nat /\ DOMAIN R = 1 .. Len(R)
    OBVIOUS
  <2>2. ASSUME NEW j \in 1 .. k PROVE d + j \in 1 .. Len(R)
    <3>1. d + k <= Len(R) /\ j \in Nat /\ 1 <= j /\ j <= k
      BY <1>5
    <3> QED
      BY <2>1, <3>1
  <2> QED
    BY <2>1, <2>2
<1>7. CASE r.call # c
  <2>1. \E low \in Nat : Waits(c, R, d, h, low, k)'
    BY <1>2, <1>4, <1>6, <1>7, WaitsStays
  <2>2. ASSUME NEW n \in Names PROVE Of(c, n)' = Of(c, n)
    <3>1. past.pushed \in [Names -> SUBSET [value : Values, call : Nat, nth : Nat]]
      BY DEF TypeOK
    <3>2. CASE r.kind = "push" /\ r.list = n
      <4>1. PICK new : new.call # c /\ past'.pushed[n] = past.pushed[n] \cup {new}
        <5>1. past'.pushed[n] = past.pushed[n] \cup
                {[value |-> r.value, call |-> r.call, nth |-> past.count[r.list] + 1]}
          BY <3>1, <3>2, ArriveRecords
        <5> QED
          BY <1>7, <5>1
      <4> QED
        BY <4>1 DEF Of
    <3>3. CASE ~(r.kind = "push" /\ r.list = n)
      <4>1. past'.pushed[n] = past.pushed[n]
        BY <3>1, <3>3, ArriveRecords
      <4> QED
        BY <4>1 DEF Of
    <3> QED
      BY <3>2, <3>3
  <2>3. Effect(c, R, d, g)'
    BY <1>3, <2>2, EffectStays
  <2> QED
    BY <2>1, <2>3 DEF InOrder
<1>8. CASE r.call = c
  <2>1. h0 = h /\ lo = 0 /\ k # 0
    BY <1>4, <1>5, <1>8
  <2>2. r = R[d + 1] /\ R[d + 1].call = c
    <3>1. 1 \in 1 .. k
      BY <2>1
    <3>2. sent[h][0 + 1] = R[d + 1]
      BY <1>5, <2>1, <3>1
    <3> QED
      BY <1>4, <1>6, <2>1, <3>1, <3>2
  <2>3. \E f : Effect(c, R, d + 1, f)'
    BY <1>3, <2>2, EffectGrows
  <2>4. /\ \A f \in Hosts \ {h} : sent'[f] = sent[f]
        /\ Len(sent[h]) \in Nat \ {0} /\ Len(sent'[h]) = Len(sent[h]) - 1
        /\ DOMAIN sent[h] = 1 .. Len(sent[h]) /\ DOMAIN sent'[h] = 1 .. Len(sent[h]) - 1
        /\ \A i \in 1 .. Len(sent[h]) - 1 : sent'[h][i] = sent[h][i + 1]
    <3>1. sent[h0] \in Seq(Request) /\ sent'[h0] \in Seq(Request)
      BY ArriveTakes
    <3>2. DOMAIN sent[h0] = 1 .. Len(sent[h0]) /\ DOMAIN sent'[h0] = 1 .. Len(sent'[h0])
      BY <3>1
    <3> QED
      BY <2>1, <3>2, ArriveTakes
  <2>5. ASSUME NEW j \in 1 .. k - 1 PROVE sent'[h][0 + j] = R[d + 1 + j]
    <3>1. j \in 1 .. Len(sent[h]) - 1 /\ j + 1 \in 1 .. k /\ 0 + j = j /\ d + 1 + j = d + (j + 1)
      BY <1>5, <2>1, <2>4
    <3>2. sent'[h][j] = sent[h][j + 1] /\ sent[h][0 + (j + 1)] = R[d + (j + 1)]
      BY <1>5, <2>1, <2>4, <3>1
    <3> QED
      BY <3>1, <3>2
  <2>6. ASSUME NEW f \in Hosts, NEW i \in DOMAIN sent'[f], sent'[f][i].call = c
        PROVE  f = h /\ i \in 0 + 1 .. 0 + (k - 1)
    <3>1. CASE f # h
      BY <1>5, <2>4, <2>6, <3>1
    <3>2. CASE f = h
      <4>1. i \in Nat /\ i >= 1 /\ i + 1 \in DOMAIN sent[h] /\ sent[h][i + 1].call = c
        BY <2>4, <2>6, <3>2
      <4>2. i + 1 \in 0 + 1 .. 0 + k
        BY <1>5, <2>1, <4>1
      <4> QED
        BY <3>2, <4>1, <4>2
    <3> QED
      BY <3>1, <3>2
  <2>7. Waits(c, R, d + 1, h, 0, k - 1)'
    <3>1. (d + 1) + (k - 1) = d + k /\ 0 + (k - 1) <= Len(sent'[h]) /\ k - 1 \in Nat
      BY <1>5, <2>1, <2>4
    <3> QED
      BY <1>4, <1>5, <2>5, <2>6, <3>1 DEF Waits
  <2>8. d + 1 \in Nat /\ 0 \in Nat /\ k - 1 \in Nat
    BY <2>1
  <2> QED
    BY <2>3, <2>7, <2>8 DEF InOrder
<1> QED
  BY <1>7, <1>8

\* A later call puts its requests behind.
LEMMA InOrderKeptByCall ==
  ASSUME TypeOK, Record(past), NEW h0 \in Hosts, NEW requests \in Seq(Request), NEW kwargs,
         Call(h0, requests, kwargs),
         NEW c, NEW R, \A e \in DOMAIN requests : requests[e].call # c,
         InOrder(c, R)
  PROVE  InOrder(c, R)'
<1>1. PICK h \in Hosts : \E d, lo, k \in Nat : Waits(c, R, d, h, lo, k) /\ \E g : Effect(c, R, d, g)
  BY DEF InOrder
<1>2. PICK d \in Nat, lo \in Nat, k \in Nat : Waits(c, R, d, h, lo, k) /\ \E g : Effect(c, R, d, g)
  BY <1>1
<1>3. PICK g : Effect(c, R, d, g)
  BY <1>2
<1>4. past'.pushed = past.pushed /\ past'.cut = past.cut
  BY DEF Call, Record
<1>5. Effect(c, R, d, g)'
  BY <1>3, <1>4, EffectStays DEF Of
<1>6. /\ d + k <= Len(R) /\ lo + k <= Len(sent[h])
      /\ \A j \in 1 .. k : sent[h][lo + j] = R[d + j]
      /\ \A f \in Hosts : \A i \in DOMAIN sent[f] :
           sent[f][i].call = c => f = h /\ i \in lo + 1 .. lo + k
      /\ d + k = Len(R) \/ c \in past.cut
  BY <1>2 DEF Waits
<1>7. /\ sent[h] \in Seq(Request) /\ Len(sent[h]) \in Nat /\ DOMAIN sent[h] = 1 .. Len(sent[h])
      /\ Len(requests) \in Nat
  <2>1. sent[h] \in Seq(Request)
    BY DEF TypeOK
  <2> QED
    BY <2>1
<1>8. lo + k <= Len(sent'[h])
  <2>1. CASE h = h0
    <3>1. Len(sent'[h]) = Len(sent[h]) + Len(requests)
      BY <2>1, CallSends
    <3> QED
      BY <1>6, <1>7, <3>1
  <2>2. CASE h # h0
    <3>1. sent'[h] = sent[h]
      BY <2>2, CallSends
    <3> QED
      BY <1>6, <3>1
  <2> QED
    BY <2>1, <2>2
<1>9. ASSUME NEW j \in 1 .. k PROVE sent'[h][lo + j] = R[d + j]
  <2>1. lo + j \in DOMAIN sent[h]
    <3>1. lo + k <= Len(sent[h]) /\ j \in Nat /\ 1 <= j /\ j <= k
      BY <1>6
    <3> QED
      BY <1>7, <3>1
  <2>2. sent'[h][lo + j] = sent[h][lo + j]
    <3>1. CASE h = h0
      BY <2>1, <3>1, CallSends
    <3>2. CASE h # h0
      BY <3>2, CallSends
    <3> QED
      BY <3>1, <3>2
  <2> QED
    BY <1>6, <2>2
<1>10. ASSUME NEW f \in Hosts, NEW i \in DOMAIN sent'[f], sent'[f][i].call = c
       PROVE  f = h /\ i \in lo + 1 .. lo + k
  <2>1. CASE f # h0 \/ i \in DOMAIN sent[f]
    <3>1. i \in DOMAIN sent[f] /\ sent'[f][i] = sent[f][i]
      BY <2>1, CallSends
    <3> QED
      BY <1>6, <1>10, <3>1
  <2>2. CASE f = h0 /\ i \notin DOMAIN sent[f]
    <3>1. PICK e \in DOMAIN requests : i = Len(sent[h0]) + e
      BY <2>2, CallSends
    <3>2. sent'[h0][i] = requests[e]
      BY <3>1, CallSends
    <3> QED
      BY <1>10, <2>2, <3>2
  <2> QED
    BY <2>1, <2>2
<1>11. Waits(c, R, d, h, lo, k)'
  BY <1>4, <1>6, <1>8, <1>9, <1>10 DEF Waits
<1> QED
  BY <1>5, <1>11 DEF InOrder

\* An addition begins with all of its requests on the connection.
LEMMA InOrderBegins ==
  ASSUME TypeOK, Record(past), Counting, NEW h \in Hosts, NEW R \in Seq(Request), NEW kwargs,
         Call(h, R, kwargs), NEW c, c = made
  PROVE  InOrder(c, R)'
<1> DEFINE lo == Len(sent[h])
           k == Len(R)
<1>1. /\ sent[h] \in Seq(Request) /\ DOMAIN sent[h] = 1 .. lo /\ lo \in Nat
      /\ k \in Nat /\ DOMAIN R = 1 .. k
  <2>1. sent[h] \in Seq(Request)
    BY DEF TypeOK
  <2> QED
    BY <2>1
<1>2. past'.pushed = past.pushed /\ past'.cut = past.cut
  BY DEF Call, Record
<1>3. ASSUME NEW n \in Names PROVE Of(c, n)' = {}
  <2>1. past.pushed \in [Names -> SUBSET [value : Values, call : Nat, nth : Nat]] /\ made \in Nat
    BY DEF TypeOK
  <2>2. \A p \in past.pushed[n] : p.call \in Nat /\ p.call < made
    BY <2>1 DEF Counting
  <2>3. \A p \in past.pushed[n] : p.call # c
    BY <2>1, <2>2
  <2> QED
    BY <1>2, <2>3 DEF Of
<1>4. Effect(c, R, 0, <<>>)'
  <2>1. 1 .. 0 = {} /\ <<>> \in [{} -> Nat]
    OBVIOUS
  <2>2. \A n : PushesTo(R, 0, n) = {}
    BY <2>1 DEF PushesTo
  <2> QED
    BY <1>3, <2>1, <2>2 DEF Effect
<1>5. ASSUME NEW f \in Hosts, NEW i \in DOMAIN sent'[f], sent'[f][i].call = c
      PROVE  f = h /\ \E j \in 1 .. k : i = lo + j
  <2>1. CASE i \in DOMAIN sent[f] /\ sent'[f][i] = sent[f][i]
    <3>1. sent[f] \in Seq(Request) /\ made \in Nat
      BY DEF TypeOK
    <3>2. sent[f][i].call \in Nat /\ sent[f][i].call < made
      <4>1. sent[f][i] \in Request
        BY <2>1, <3>1
      <4> QED
        BY <2>1, <4>1, RequestTypes DEF Counting
    <3> QED
      BY <1>5, <2>1, <3>1, <3>2
  <2>2. CASE f = h /\ i \notin DOMAIN sent[f]
    BY <1>1, <2>2, CallSends
  <2>3. CASE f # h
    BY <2>1, <2>3, CallSends
  <2>4. CASE f = h /\ i \in DOMAIN sent[f]
    BY <2>1, <2>4, CallSends
  <2> QED
    BY <2>2, <2>3, <2>4
<1>6. ASSUME NEW start \in Nat, start = lo
      PROVE  Waits(c, R, 0, h, start, k)'
  <2>1. start + k <= Len(sent'[h])
    BY <1>1, <1>6, CallSends
  <2>2. ASSUME NEW j \in 1 .. k PROVE sent'[h][start + j] = R[0 + j]
    BY <1>1, <1>6, CallSends
  <2>3. ASSUME NEW f \in Hosts, NEW i \in DOMAIN sent'[f], sent'[f][i].call = c
        PROVE  f = h /\ i \in start + 1 .. start + k
    <3>1. PICK j \in 1 .. k : i = start + j
      BY <1>5, <1>6, <2>3
    <3> QED
      BY <1>1, <1>5, <2>3, <3>1
  <2> QED
    BY <1>1, <2>1, <2>2, <2>3 DEF Waits
<1>7. PICK start \in Nat : start = lo
  BY <1>1
<1>8. Waits(c, R, 0, h, start, k)'
  BY <1>6, <1>7
<1> QED
  BY <1>1, <1>4, <1>8 DEF InOrder

\* A crash cuts off the last of the requests.
LEMMA InOrderKeptByCrash ==
  ASSUME TypeOK, Record(past), NEW h0 \in Hosts, NEW m \in 0 .. Len(sent[h0]), CrashHost(h0, m),
         NEW c, NEW R \in Seq(Request), \A e \in DOMAIN R : R[e].call = c, InOrder(c, R)
  PROVE  InOrder(c, R)'
<1>1. PICK h \in Hosts : \E d, lo, k \in Nat : Waits(c, R, d, h, lo, k) /\ \E g : Effect(c, R, d, g)
  BY DEF InOrder
<1>2. PICK d \in Nat, lo \in Nat, k \in Nat : Waits(c, R, d, h, lo, k) /\ \E g : Effect(c, R, d, g)
  BY <1>1
<1>3. PICK g : Effect(c, R, d, g)
  BY <1>2
<1>4. /\ past'.pushed = past.pushed
      /\ past'.cut = past.cut \cup {sent[h0][i].call : i \in m + 1 .. Len(sent[h0])}
  BY DEF CrashHost, Record
<1>5. Effect(c, R, d, g)'
  BY <1>3, <1>4, EffectStays DEF Of
<1>6. /\ d + k <= Len(R) /\ lo + k <= Len(sent[h])
      /\ \A j \in 1 .. k : sent[h][lo + j] = R[d + j]
      /\ \A f \in Hosts : \A i \in DOMAIN sent[f] :
           sent[f][i].call = c => f = h /\ i \in lo + 1 .. lo + k
      /\ d + k = Len(R) \/ c \in past.cut
  BY <1>2 DEF Waits
<1>7. /\ \A f \in Hosts \ {h0} : sent'[f] = sent[f]
      /\ m \in Nat /\ Len(sent[h0]) \in Nat /\ m <= Len(sent[h0])
      /\ DOMAIN sent[h0] = 1 .. Len(sent[h0]) /\ DOMAIN sent'[h0] = 1 .. m /\ Len(sent'[h0]) = m
      /\ \A i \in 1 .. m : sent'[h0][i] = sent[h0][i]
  <2>1. sent[h0] \in Seq(Request) /\ sent'[h0] \in Seq(Request)
    BY CrashLeaves
  <2>2. DOMAIN sent[h0] = 1 .. Len(sent[h0]) /\ DOMAIN sent'[h0] = 1 .. Len(sent'[h0])
    BY <2>1
  <2> QED
    BY <2>1, <2>2, CrashLeaves
\* What is left of the others, and of what a host has sent before.
<1>8. ASSUME NEW f \in Hosts, NEW i \in DOMAIN sent'[f], sent'[f][i].call = c
       PROVE  f = h /\ i \in lo + 1 .. lo + k
  <2>1. i \in DOMAIN sent[f] /\ sent'[f][i] = sent[f][i]
    BY <1>7
  <2> QED
    BY <1>6, <1>8, <2>1
<1>9. CASE h # h0
  <2>1. sent'[h] = sent[h]
    BY <1>7, <1>9
  <2>2. Waits(c, R, d, h, lo, k)'
    BY <1>4, <1>6, <1>8, <2>1 DEF Waits
  <2> QED
    BY <1>5, <2>2 DEF InOrder
<1>10. CASE h = h0 /\ lo + k <= m
  <2>1. ASSUME NEW j \in 1 .. k PROVE sent'[h][lo + j] = R[d + j]
    <3>1. lo + j \in 1 .. m
      BY <1>7, <1>10
    <3> QED
      BY <1>6, <1>7, <1>10, <3>1
  <2>2. lo + k <= Len(sent'[h])
    BY <1>7, <1>10
  <2>3. Waits(c, R, d, h, lo, k)'
    BY <1>4, <1>6, <1>8, <2>1, <2>2 DEF Waits
  <2> QED
    BY <1>5, <2>3 DEF InOrder
\* What is cut off belongs to the call, unless all of it is later.
<1>11. CASE h = h0 /\ m < lo + k
  <2> DEFINE low == IF m < lo THEN m ELSE lo
             left == IF m < lo THEN 0 ELSE m - lo
  <2>1. low \in Nat /\ left \in Nat /\ low + left = m /\ low <= lo /\ left <= k
        /\ (left # 0 => low = lo)
    BY <1>7, <1>11
  <2> HIDE DEF low, left
  <2>2. c \in past'.cut \/ k = 0
    <3>1. SUFFICES ASSUME k # 0 PROVE c \in past'.cut
      OBVIOUS
    <3>2. lo + k \in m + 1 .. Len(sent[h0])
      BY <1>6, <1>7, <1>11, <3>1
    <3>3. sent[h][lo + k] = R[d + k] /\ d + k \in DOMAIN R
      <4>1. k \in 1 .. k /\ d + k \in 1 .. Len(R)
        BY <1>6, <3>1
      <4> QED
        BY <1>6, <4>1
    <3> QED
      BY <1>4, <1>11, <3>2, <3>3
  <2>3. ASSUME NEW j \in 1 .. left PROVE sent'[h][low + j] = R[d + j]
    <3>1. low = lo /\ lo + j \in 1 .. m /\ j \in 1 .. k
      BY <1>7, <2>1
    <3> QED
      BY <1>6, <1>7, <1>11, <3>1
  <2>4. ASSUME NEW f \in Hosts, NEW i \in DOMAIN sent'[f], sent'[f][i].call = c
        PROVE  f = h /\ i \in low + 1 .. low + left
    <3>1. CASE f # h0
      BY <1>6, <1>7, <1>11, <2>4, <3>1
    <3>2. CASE f = h0
      <4>1. i \in 1 .. m /\ i \in DOMAIN sent[h0] /\ sent[h0][i].call = c
        BY <1>7, <2>4, <3>2
      <4>2. i \in lo + 1 .. lo + k
        BY <1>6, <4>1
      <4> QED
        BY <1>7, <1>11, <2>1, <3>2, <4>1, <4>2
    <3> QED
      BY <3>1, <3>2
  <2>5. d + left <= Len(R) /\ (d + left = Len(R) \/ c \in past'.cut)
    <3>1. k = 0 => left = 0
      BY <2>1
    <3>2. c \in past.cut => c \in past'.cut
      BY <1>4
    <3>3. Len(R) \in Nat
      OBVIOUS
    <3> QED
      BY <1>6, <2>1, <2>2, <3>1, <3>2, <3>3
  <2>6. Waits(c, R, d, h, low, left)'
    <3>1. low + left <= Len(sent'[h])
      BY <1>7, <1>11, <2>1
    <3> QED
      BY <2>3, <2>4, <2>5, <3>1 DEF Waits
  <2>7. \E l, n \in Nat : Waits(c, R, d, h, l, n)'
    BY <2>1, <2>6
  <2> QED
    BY <1>5, <2>7 DEF InOrder
<1>12. h # h0 \/ (h = h0 /\ lo + k <= m) \/ (h = h0 /\ m < lo + k)
  BY <1>7
<1> QED
  BY <1>9, <1>10, <1>11, <1>12

LEMMA CountingKeptByCall ==
  ASSUME OrderInv, NEW h \in Hosts, NEW requests \in Seq(Request), NEW kwargs \in Adds \cup {<<>>},
         Call(h, requests, kwargs), \A d \in DOMAIN requests : requests[d].call = made
  PROVE  /\ Counting' /\ made \in Nat /\ Record(past)
         /\ \A c \in 0 .. made - 1 : past'.args[c + 1] = past.args[c + 1]
         /\ past'.args[made + 1] = kwargs
<1> DEFINE args == past.args
<1>1. /\ Record(past) /\ made \in Nat /\ TypeOK
      /\ args \in Seq(Adds \cup {<<>>}) /\ Len(args) = made
  BY DEF OrderInv, Inv, Numbered, TypeOK, Counting
<1>2. /\ past'.args = Append(args, kwargs) /\ past'.pushed = past.pushed /\ past'.count = past.count
      /\ made' = made + 1
  BY <1>1 DEF Call, Record
<1> HIDE DEF args
<1>3. /\ past'.args \in Seq(Adds \cup {<<>>}) /\ Len(past'.args) = made'
      /\ past'.args[made + 1] = kwargs
      /\ \A c \in 0 .. made - 1 : past'.args[c + 1] = args[c + 1]
  <2> DEFINE A == Adds \cup {<<>>}
  <2>1. args \in Seq(A) /\ kwargs \in A
    BY <1>1
  <2> HIDE DEF A
  <2>2. /\ Append(args, kwargs) \in Seq(A) /\ Len(Append(args, kwargs)) = made + 1
        /\ \A i \in 1 .. made : Append(args, kwargs)[i] = args[i]
        /\ Append(args, kwargs)[made + 1] = kwargs
    BY <1>1, <2>1, AppendProperties
  <2>3. \A c \in 0 .. made - 1 : c + 1 \in 1 .. made
    BY <1>1
  <2> QED
    BY <1>2, <2>2, <2>3 DEF A
<1>4. ASSUME NEW n \in Names, NEW p \in past'.pushed[n]
      PROVE  p.nth <= past'.count[n] /\ p.call < made'
  <2>1. p.nth <= past.count[n] /\ p.call < made
    BY <1>2, <1>4 DEF OrderInv, Counting
  <2>2. p.call \in Nat
    BY <1>2, <1>4 DEF OrderInv, TypeOK
  <2> QED
    BY <1>1, <1>2, <2>1, <2>2
<1>5. ASSUME NEW f \in Hosts, NEW i \in DOMAIN sent'[f] PROVE sent'[f][i].call < made'
  <2>1. CASE i \in DOMAIN sent[f] /\ sent'[f][i] = sent[f][i]
    <3>1. sent[f] \in Seq(Request)
      BY <1>1 DEF TypeOK
    <3>2. sent[f][i] \in Request
      BY <2>1, <3>1
    <3>3. sent[f][i].call \in Nat /\ sent[f][i].call < made
      BY <2>1, <3>2, RequestTypes DEF OrderInv, Counting
    <3> QED
      BY <1>1, <1>2, <2>1, <3>3
  <2>2. CASE f = h /\ i \notin DOMAIN sent[f]
    <3>1. PICK d \in DOMAIN requests : i = Len(sent[h]) + d
      BY <1>1, <2>2, CallSends
    <3>2. sent'[h][i] = requests[d]
      BY <1>1, <3>1, CallSends
    <3> QED
      BY <1>1, <1>2, <2>2, <3>2
  <2>3. CASE f # h
    BY <1>1, <2>1, <2>3, CallSends
  <2>4. CASE f = h /\ i \in DOMAIN sent[f]
    BY <1>1, <2>1, <2>4, CallSends
  <2> QED
    BY <2>2, <2>3, <2>4
<1> QED
  BY <1>1, <1>3, <1>4, <1>5 DEF Counting, args

LEMMA CountingKeptByArrive ==
  ASSUME OrderInv, NEW h \in Hosts, Arrive(h)
  PROVE  Counting'
<1> DEFINE r == Head(sent[h])
           nth == past.count[r.list] + 1
<1>1. /\ TypeOK /\ Inv /\ past.count \in [Names -> Nat]
      /\ past.pushed \in [Names -> SUBSET [value : Values, call : Nat, nth : Nat]]
  BY DEF OrderInv, TypeOK
<1>2. /\ past'.args = past.args /\ made' = made
      /\ r.kind = "push" =>
           /\ r.list \in Names /\ nth \in Nat
           /\ past'.count = [past.count EXCEPT ![r.list] = nth]
           /\ past'.pushed = [past.pushed EXCEPT ![r.list] = past.pushed[r.list] \cup
                {[value |-> r.value, call |-> r.call, nth |-> nth]}]
      /\ r.kind # "push" => past'.count = past.count /\ past'.pushed = past.pushed
  BY <1>1, ArriveRecords
<1>3. r.call < made
  BY <1>1, ArriveTakes DEF OrderInv, Counting
<1>4. ASSUME NEW n \in Names, NEW p \in past'.pushed[n]
      PROVE  p.nth <= past'.count[n] /\ p.call < made'
  <2>1. ASSUME p \in past.pushed[n]
        PROVE  p.nth <= past.count[n] /\ p.call < made' /\ p.nth \in Nat
    BY <1>1, <1>2, <2>1 DEF OrderInv, Counting
  <2>2. CASE r.kind = "push" /\ r.list = n
    <3>1. past'.count[n] = past.count[n] + 1 /\ past.count[n] \in Nat /\ nth = past.count[n] + 1
      BY <1>1, <1>2, <2>2
    <3>2. p \in past.pushed[n] \/ (p.nth = nth /\ p.call = r.call)
      BY <1>1, <1>2, <1>4, <2>2
    <3> HIDE DEF nth, r
    <3>3. CASE p \in past.pushed[n]
      BY <2>1, <3>1, <3>3
    <3>4. CASE p.nth = nth /\ p.call = r.call
      BY <1>2, <1>3, <3>1, <3>4
    <3> QED
      BY <3>2, <3>3, <3>4
  <2>3. CASE ~(r.kind = "push" /\ r.list = n)
    <3>1. past'.count[n] = past.count[n] /\ past'.pushed[n] = past.pushed[n]
      BY <1>1, <1>2, <2>3
    <3> QED
      BY <1>4, <2>1, <3>1
  <2> QED
    BY <2>2, <2>3
<1>5. ASSUME NEW f \in Hosts, NEW i \in DOMAIN sent'[f] PROVE sent'[f][i].call < made'
  <2>1. CASE f # h
    BY <1>1, <1>2, <2>1, ArriveTakes DEF OrderInv, Counting
  <2>2. CASE f = h
    <3>1. sent[h] \in Seq(Request) /\ sent'[h] \in Seq(Request) /\ Len(sent'[h]) = Len(sent[h]) - 1
      BY <1>1, ArriveTakes
    <3>2. i \in 1 .. Len(sent[h]) - 1 /\ i + 1 \in DOMAIN sent[h]
      BY <2>2, <3>1
    <3>3. sent'[h][i] = sent[h][i + 1]
      BY <1>1, <3>2, ArriveTakes
    <3> QED
      BY <1>2, <2>2, <3>2, <3>3 DEF OrderInv, Counting
  <2> QED
    BY <2>1, <2>2
<1> QED
  BY <1>2, <1>4, <1>5 DEF OrderInv, Counting

LEMMA OrderInvKept ==
  ASSUME OrderInv, [Next]_vars
  PROVE  OrderInv'
<1> SUFFICES Counting' /\ Orders'
  BY StepInv, TypesKept DEF OrderInv
<1>1. Record(past) /\ made \in Nat /\ Inv /\ TypeOK /\ Counting
  BY DEF OrderInv, Inv, Numbered, TypeOK
\* A call, which leaves the additions before it in their order.
<1>2. ASSUME NEW h \in Hosts, NEW requests \in Seq(Request), NEW kwargs \in Adds \cup {<<>>},
             Call(h, requests, kwargs), \A d \in DOMAIN requests : requests[d].call = made,
             kwargs # <<>> => kwargs \in Adds /\ requests = AddRequests(made, kwargs)
      PROVE  Counting' /\ Orders'
  <2>1. Counting'
    BY <1>2, CountingKeptByCall
  <2>2. ASSUME NEW c \in Nat, NEW k \in Adds, c < made', past'.args[c + 1] = k, k # <<>>
        PROVE  InOrder(c, AddRequests(c, k))'
    <3>1. made' = made + 1
      BY <1>2 DEF Call
    <3>2. CASE c = made
      <4>1. k = kwargs
        BY <1>2, <2>2, <3>2, CountingKeptByCall
      <4>2. requests = AddRequests(c, k)
        BY <1>2, <2>2, <3>2, <4>1
      <4> QED
        BY <1>1, <1>2, <3>2, <4>2, InOrderBegins
    <3>3. CASE c # made
      <4>1. c \in 0 .. made - 1 /\ c < made
        BY <1>1, <2>2, <3>1, <3>3
      <4>2. past.args[c + 1] = k
        BY <1>2, <2>2, <4>1, CountingKeptByCall
      <4>3. InOrder(c, AddRequests(c, k))
        BY <2>2, <4>1, <4>2 DEF OrderInv, Orders
      <4>4. \A e \in DOMAIN requests : requests[e].call # c
        BY <1>2, <3>3
      <4> QED
        BY <1>1, <1>2, <4>3, <4>4, InOrderKeptByCall
    <3> QED
      BY <3>2, <3>3
  <2> QED
    BY <2>1, <2>2 DEF Orders
\* A step that is no call.
<1>3. ASSUME made' = made, past'.args = past.args,
             \A c \in Nat : \A k \in Adds :
               InOrder(c, AddRequests(c, k)) => InOrder(c, AddRequests(c, k))'
      PROVE  Orders'
  BY <1>3 DEF OrderInv, Orders
<1>4. ASSUME NEW h \in Hosts, NEW kwargs \in Adds, Add(h, kwargs) PROVE Counting' /\ Orders'
  BY <1>1, <1>2, <1>4, AddRequestsAre DEF Add
<1>5. ASSUME NEW h \in Hosts, NEW kwargs \in Removals, Remove(h, kwargs) PROVE Counting' /\ Orders'
  BY <1>1, <1>2, <1>5, RemoveRequestsAre DEF Remove
<1>6. ASSUME NEW h \in Hosts, NEW count \in DOMAIN IndexName, Flush(h, count)
      PROVE  Counting' /\ Orders'
  BY <1>1, <1>2, <1>6, FlushRequestsAre DEF Flush
<1>7. ASSUME NEW h \in Hosts, UpdateMarkers(h) PROVE Counting' /\ Orders'
  <2>1. <<>> \in Seq(Request) /\ DOMAIN <<>> = {}
    OBVIOUS
  <2> QED
    BY <1>2, <1>7, <2>1 DEF UpdateMarkers
<1>8. ASSUME NEW h \in Hosts, Arrive(h) PROVE Counting' /\ Orders'
  <2>1. past'.args = past.args /\ made' = made
    BY <1>1, <1>8, ArriveRecords
  <2>2. ASSUME NEW c \in Nat, NEW k \in Adds, InOrder(c, AddRequests(c, k))
        PROVE  InOrder(c, AddRequests(c, k))'
    <3>1. /\ AddRequests(c, k) \in Seq(Request)
          /\ \A e \in DOMAIN AddRequests(c, k) : AddRequests(c, k)[e].call = c
      BY AddRequestsAre
    <3> QED
      BY <1>1, <1>8, <2>2, <3>1, InOrderKeptByArrive
  <2>3. Counting'
    BY <1>8, CountingKeptByArrive
  <2> QED
    BY <1>3, <2>1, <2>2, <2>3
<1>9. ASSUME NEW h \in Hosts, NEW m \in 0 .. Len(sent[h]), CrashHost(h, m)
      PROVE  Counting' /\ Orders'
  <2>1. past'.args = past.args /\ made' = made /\ past'.pushed = past.pushed
        /\ past'.count = past.count
    BY <1>1, <1>9 DEF CrashHost, Record
  <2>2. ASSUME NEW c \in Nat, NEW k \in Adds, InOrder(c, AddRequests(c, k))
        PROVE  InOrder(c, AddRequests(c, k))'
    <3>1. /\ AddRequests(c, k) \in Seq(Request)
          /\ \A e \in DOMAIN AddRequests(c, k) : AddRequests(c, k)[e].call = c
      BY AddRequestsAre
    <3> QED
      BY <1>1, <1>9, <2>2, <3>1, InOrderKeptByCrash
  <2>3. ASSUME NEW f \in Hosts, NEW i \in DOMAIN sent'[f]
        PROVE  sent'[f][i].call < made'
    <3>1. i \in DOMAIN sent[f] /\ sent'[f][i] = sent[f][i]
      <4>1. CASE f # h
        BY <1>1, <1>9, <4>1, CrashLeaves
      <4>2. CASE f = h
        <5>1. sent[h] \in Seq(Request) /\ sent'[h] \in Seq(Request) /\ Len(sent'[h]) = m
          BY <1>1, <1>9, CrashLeaves
        <5>2. i \in 1 .. m /\ i \in DOMAIN sent[h]
          BY <4>2, <5>1
        <5> QED
          BY <1>1, <1>9, <4>2, <5>2, CrashLeaves
      <4> QED
        BY <4>1, <4>2
    <3> QED
      BY <1>1, <2>1, <3>1 DEF Counting
  <2>4. Counting'
    BY <1>1, <2>1, <2>3 DEF Counting
  <2> QED
    BY <1>3, <2>1, <2>2, <2>4
<1>10. CASE UNCHANGED vars
  <2>1. sent' = sent /\ made' = made /\ past' = past
    BY <1>10 DEF vars
  <2>2. ASSUME NEW c, NEW R, InOrder(c, R) PROVE InOrder(c, R)'
    <3>1. \A n : Of(c, n)' = Of(c, n)
      BY <2>1 DEF Of
    <3>2. \A d, g : Effect(c, R, d, g) => Effect(c, R, d, g)'
      BY <3>1 DEF Effect
    <3>3. \A d, h, lo, k : Waits(c, R, d, h, lo, k) => Waits(c, R, d, h, lo, k)'
      BY <2>1 DEF Waits
    <3> QED
      BY <2>2, <3>2, <3>3 DEF InOrder
  <2>3. Counting'
    BY <1>1, <2>1 DEF Counting
  <2> QED
    BY <1>3, <2>1, <2>2, <2>3
<1> QED
  BY <1>4, <1>5, <1>6, <1>7, <1>8, <1>9, <1>10 DEF Next

-----------------------------------------------------------------------------
(* What the order says of an addition *)

\* Records under growing numbers: there are as many as numbers, and the rank of each is
\* its place.
LEMMA Ranked ==
  ASSUME NEW q \in Nat, NEW rec, \A j \in 1 .. q : rec[j].nth \in Nat,
         \A i, j \in 1 .. q : i < j => rec[i].nth < rec[j].nth
  PROVE  LET P == {rec[j] : j \in 1 .. q} IN
         /\ Cardinality(P) = q
         /\ \A j \in 1 .. q : Cardinality({p \in P : p.nth <= rec[j].nth}) = j
<1> DEFINE P == {rec[j] : j \in 1 .. q}
           upTo(j) == {rec[i] : i \in 1 .. j}
<1>1. ASSUME NEW j \in 0 .. q PROVE Cardinality(upTo(j)) = j
  <2> DEFINE f == [i \in 1 .. j |-> rec[i]]
  <2>1. f \in Bijection(1 .. j, upTo(j))
    <3>1. ASSUME NEW i \in 1 .. j, NEW k \in 1 .. j, rec[i] = rec[k] PROVE i = k
      <4>1. i \in 1 .. q /\ k \in 1 .. q /\ ~(i < k) /\ ~(k < i)
        <5>1. i \in 1 .. q /\ k \in 1 .. q /\ rec[i].nth = rec[k].nth /\ rec[i].nth \in Nat
          BY <3>1
        <5> QED
          BY <5>1
      <4> QED
        BY <4>1
    <3>2. f \in [1 .. j -> upTo(j)]
      OBVIOUS
    <3>3. \A y \in upTo(j) : \E i \in 1 .. j : f[i] = y
      OBVIOUS
    <3> HIDE DEF upTo
    <3> QED
      BY <3>1, <3>2, <3>3 DEF Bijection, Injection, Surjection, IsInjective
  <2>2. IsFiniteSet(1 .. j) /\ Cardinality(1 .. j) = j
    <3>1. IsFiniteSet(1 .. j) /\ Cardinality(1 .. j) = IF 1 > j THEN 0 ELSE j - 1 + 1
      BY FS_Interval
    <3> QED
      BY <3>1
  <2> HIDE DEF f, upTo
  <2>3. ExistsBijection(1 .. j, upTo(j))
    BY <2>1 DEF ExistsBijection
  <2> QED
    BY <2>2, <2>3, FS_Bijection
<1>2. Cardinality(P) = q
  <2>1. q \in 0 .. q /\ P = upTo(q)
    OBVIOUS
  <2> HIDE DEF P, upTo
  <2> QED
    BY <1>1, <2>1
<1>3. ASSUME NEW j \in 1 .. q PROVE {p \in P : p.nth <= rec[j].nth} = upTo(j)
  <2>1. \A i \in 1 .. q : rec[i].nth <= rec[j].nth <=> i \in 1 .. j
    <3> TAKE i \in 1 .. q
    <3>1. rec[i].nth \in Nat /\ rec[j].nth \in Nat
      OBVIOUS
    <3>2. CASE i < j
      BY <3>1, <3>2
    <3>3. CASE i = j
      BY <3>1, <3>3
    <3>4. CASE i > j
      <4>1. rec[j].nth < rec[i].nth
        BY <3>4
      <4> QED
        BY <3>1, <3>4, <4>1
    <3> QED
      BY <3>2, <3>3, <3>4
  <2>2. 1 .. j \subseteq 1 .. q
    OBVIOUS
  <2> QED
    BY <2>1, <2>2
<1>4. \A j \in 1 .. q : j \in 0 .. q
  OBVIOUS
<1> HIDE DEF upTo
<1>5. \A j \in 1 .. q : Cardinality({p \in P : p.nth <= rec[j].nth}) = j
  BY <1>1, <1>3, <1>4
<1> QED
  BY <1>2, <1>5

\* Of values, for list n, call c has pushed the first q, in their order: none unless the
\* request behind the first o has taken effect, all if the next ones for them have.
PushedFirst(c, n, values, o, d) ==
  \E q \in 0 .. Len(values) :
    /\ Cardinality(Of(c, n)) = q
    /\ \A p \in Of(c, n) : \E j \in 1 .. q :
         /\ p.value = values[j]
         /\ Cardinality({x \in Of(c, n) : x.nth <= p.nth}) = j
    /\ Of(c, n) # {} => o < d
    /\ o + Len(values) <= d => q = Len(values)

\* Of the values for the i-th list the first are pushed when the first d requests have taken
\* effect.
LEMMA PushedOf ==
  ASSUME TypeOK, NEW c \in Nat, NEW kwargs \in Adds, NEW d \in Nat, NEW g, NEW off,
         Effect(c, AddRequests(c, kwargs), d, g), d <= Len(AddRequests(c, kwargs)),
         Laid(AddRequests(c, kwargs), AddParts(c, kwargs), Len(kwargs), off),
         NEW i \in DOMAIN kwargs
  PROVE  /\ Len(kwargs[i].values) \in Nat /\ off[i] \in Nat
         /\ PushedFirst(c, kwargs[i].list, kwargs[i].values, off[i], d)
<1> DEFINE R == AddRequests(c, kwargs)
           parts == AddParts(c, kwargs)
           n == kwargs[i].list
           values == kwargs[i].values
           m == Len(values)
           q == IF d <= off[i] THEN 0 ELSE IF off[i] + m <= d THEN m ELSE d - off[i]
           rec == [j \in 1 .. q |-> [value |-> values[j], call |-> c, nth |-> g[off[i] + j]]]
<1>1. /\ kwargs \in Seq([list : Names, values : Seq(Values)]) /\ DOMAIN kwargs = 1 .. Len(kwargs)
      /\ \A a, b \in DOMAIN kwargs : kwargs[a].list = kwargs[b].list => a = b
  <2>1. kwargs \in Seq([list : Names, values : Seq(Values)])
    BY ListsAssumption
  <2> QED
    BY <2>1, ListsAssumption
<1>2. ASSUME NEW a \in DOMAIN kwargs
      PROVE  /\ Len(kwargs[a].values) \in Nat
             /\ Len(parts[a]) = Len(kwargs[a].values) + 1
             /\ parts[a][Len(kwargs[a].values) + 1].kind = "trim"
             /\ \A j \in 1 .. Len(kwargs[a].values) :
                  /\ parts[a][j].kind = "push" /\ parts[a][j].list = kwargs[a].list
                  /\ parts[a][j].value = kwargs[a].values[j]
  <2> DEFINE l == Len(kwargs[a].values)
             trim == [kind |-> "trim", call |-> c, list |-> kwargs[a].list]
             push(j) == [kind |-> "push", call |-> c, list |-> kwargs[a].list,
                         value |-> kwargs[a].values[j]]
  <2>1. /\ l \in Nat /\ Len(parts[a]) = l + 1 /\ parts[a][l + 1] = trim
        /\ \A j \in 1 .. l : parts[a][j] = push(j)
    <3>1. LET part == AddParts(c, kwargs)[a] IN
          /\ l \in Nat /\ Len(part) = l + 1 /\ part[l + 1] = trim
          /\ \A j \in 1 .. l : part[j] = push(j)
      BY AddPartsAre, Zenon
    <3> QED
      BY <3>1, Zenon
  <2>2. /\ trim.kind = "trim"
        /\ \A j : /\ push(j).kind = "push" /\ push(j).list = kwargs[a].list
                  /\ push(j).value = kwargs[a].values[j]
    OBVIOUS
  <2> HIDE DEF l, trim, push, parts
  <2>3. /\ l \in Nat /\ Len(parts[a]) = l + 1 /\ parts[a][l + 1].kind = "trim"
        /\ \A j \in 1 .. l :
             /\ parts[a][j].kind = "push" /\ parts[a][j].list = kwargs[a].list
             /\ parts[a][j].value = kwargs[a].values[j]
    BY <2>1, <2>2
  <2> QED
    BY <2>3 DEF l
<1>3. ASSUME NEW a \in DOMAIN kwargs
      PROVE  /\ off[a] \in Nat /\ off[a] + Len(parts[a]) <= Len(R)
             /\ \A j \in 1 .. Len(parts[a]) : R[off[a] + j] = parts[a][j]
  BY <1>1 DEF Laid
<1>4. \A e \in 1 .. Len(R) : \E a \in DOMAIN kwargs : \E j \in 1 .. Len(parts[a]) : e = off[a] + j
  BY <1>1 DEF Laid
<1>5. n \in Names /\ m \in Nat /\ off[i] \in Nat /\ Len(R) \in Nat
  <2>1. n \in Names
    BY AddPartsAre
  <2>2. Len(R) \in Nat
    BY AddRequestsAre
  <2> QED
    BY <1>2, <1>3, <2>1, <2>2
<1> HIDE DEF R, parts
<1>6. /\ q \in 0 .. m /\ (off[i] + q <= d \/ q = 0)
      /\ \A j \in 1 .. m : off[i] + j <= d <=> j <= q
      /\ q # 0 => off[i] < d
      /\ off[i] + m <= d => q = m
  <2>1. CASE d <= off[i]
    BY <1>5, <2>1
  <2>2. CASE d > off[i] /\ off[i] + m <= d
    BY <1>5, <2>2
  <2>3. CASE d > off[i] /\ d < off[i] + m
    BY <1>5, <2>3
  <2> QED
    BY <1>5, <2>1, <2>2, <2>3
<1>7. q \in 0 .. m
  BY <1>5
<1> HIDE DEF q
<1>8. ASSUME NEW j \in 1 .. q
      PROVE  /\ j \in 1 .. m /\ off[i] + j \in 1 .. d
             /\ R[off[i] + j].kind = "push" /\ R[off[i] + j].list = n /\ R[off[i] + j].value = values[j]
  <2>1. j \in 1 .. m /\ off[i] + j \in 1 .. d
    BY <1>5, <1>6, <1>7
  <2>2. j \in 1 .. Len(parts[i])
    BY <1>2, <1>5, <2>1
  <2>3. R[off[i] + j] = parts[i][j]
    BY <1>3, <2>2
  <2> QED
    BY <1>2, <2>1, <2>3
\* The pushes to the list are those of its values.
<1>9. ASSUME NEW e \in PushesTo(R, d, n) PROVE \E j \in 1 .. q : e = off[i] + j
  <2>1. e \in 1 .. Len(R) /\ e <= d /\ R[e].kind = "push" /\ R[e].list = n
    BY <1>5 DEF PushesTo, R
  <2>2. PICK a \in DOMAIN kwargs : \E j \in 1 .. Len(parts[a]) : e = off[a] + j
    BY <1>4, <2>1
  <2>3. PICK j \in 1 .. Len(parts[a]) : e = off[a] + j
    BY <2>2
  <2>4. R[e] = parts[a][j]
    BY <1>3, <2>3
  <2>5. j \in 1 .. Len(kwargs[a].values)
    <3>1. j # Len(kwargs[a].values) + 1
      BY <1>2, <2>1, <2>4
    <3> QED
      BY <1>2, <3>1
  <2>6. a = i
    <3>1. parts[a][j].list = kwargs[a].list
      BY <1>2, <2>5
    <3>2. kwargs[a].list = kwargs[i].list
      BY <2>1, <2>4, <3>1
    <3> QED
      BY <1>1, <3>2
  <2>7. j \in 1 .. q
    BY <1>5, <1>6, <1>7, <2>1, <2>3, <2>5, <2>6
  <2> QED
    BY <2>3, <2>6, <2>7
<1>10. Of(c, n) = {rec[j] : j \in 1 .. q}
  <2>1. Of(c, n) = {[value |-> R[e].value, call |-> c, nth |-> g[e]] : e \in PushesTo(R, d, n)}
    BY <1>5 DEF Effect, R
  <2>2. ASSUME NEW e \in PushesTo(R, d, n)
        PROVE  \E j \in 1 .. q : [value |-> R[e].value, call |-> c, nth |-> g[e]] = rec[j]
    <3>1. PICK j \in 1 .. q : e = off[i] + j
      BY <1>9
    <3> QED
      BY <1>8, <3>1
  <2>3. ASSUME NEW j \in 1 .. q
        PROVE  /\ off[i] + j \in PushesTo(R, d, n)
               /\ rec[j] = [value |-> R[off[i] + j].value, call |-> c, nth |-> g[off[i] + j]]
    BY <1>8 DEF PushesTo
  <2> HIDE DEF rec
  <2>4. Of(c, n) \subseteq {rec[j] : j \in 1 .. q}
    BY <2>1, <2>2
  <2>5. {rec[j] : j \in 1 .. q} \subseteq Of(c, n)
    BY <2>1, <2>3
  <2> QED
    BY <2>4, <2>5
<1>11. /\ \A j \in 1 .. q : rec[j].nth \in Nat /\ rec[j].value = values[j]
       /\ \A a, b \in 1 .. q : a < b => rec[a].nth < rec[b].nth
  <2>1. ASSUME NEW j \in 1 .. q
        PROVE  rec[j].nth = g[off[i] + j] /\ g[off[i] + j] \in Nat /\ rec[j].value = values[j]
    BY <1>8 DEF Effect
  <2>2. ASSUME NEW a \in 1 .. q, NEW b \in 1 .. q, a < b PROVE g[off[i] + a] < g[off[i] + b]
    <3>1. off[i] + a < off[i] + b
      BY <1>5, <2>2
    <3> QED
      BY <1>8, <3>1 DEF Effect, R
  <2> HIDE DEF rec
  <2> QED
    BY <2>1, <2>2
<1> HIDE DEF rec
<1>12. /\ Cardinality(Of(c, n)) = q
       /\ \A j \in 1 .. q : Cardinality({x \in Of(c, n) : x.nth <= rec[j].nth}) = j
  <2>1. q \in Nat
    BY <1>5, <1>7
  <2> DEFINE P == {rec[j] : j \in 1 .. q}
  <2>2. Cardinality(P) = q /\ \A j \in 1 .. q : Cardinality({x \in P : x.nth <= rec[j].nth}) = j
    BY <1>11, <2>1, Ranked
  <2>3. P = Of(c, n)
    BY <1>10
  <2> HIDE DEF P
  <2> QED
    BY <2>2, <2>3
<1>13. \A p \in Of(c, n) : \E j \in 1 .. q :
         p.value = values[j] /\ Cardinality({x \in Of(c, n) : x.nth <= p.nth}) = j
  BY <1>10, <1>11, <1>12
<1>14. Of(c, n) # {} => off[i] < d
  <2>1. q = 0 => 1 .. q = {}
    OBVIOUS
  <2> QED
    BY <1>6, <1>10, <2>1
<1>15. off[i] + m <= d => q = m
  BY <1>6
<1>16. PushedFirst(c, n, values, off[i], d)
  <2>1. m = Len(values)
    OBVIOUS
  <2> HIDE DEF n, values, m
  <2> QED
    BY <1>7, <1>12, <1>13, <1>14, <1>15, <2>1 DEF PushedFirst
<1> QED
  BY <1>5, <1>16

\* What AddsInOrder says of the i-th list of call c.
LEMMA AdditionInOrder ==
  ASSUME TypeOK, NEW c \in Nat, NEW kwargs \in Adds, InOrder(c, AddRequests(c, kwargs)),
         NEW i \in DOMAIN kwargs
  PROVE  LET pushed(a) == Of(c, kwargs[a].list)
             rank(p) == Cardinality({q \in pushed(i) : q.nth <= p.nth})
             complete(a) == Cardinality(pushed(a)) = Len(kwargs[a].values)
         IN /\ \A p \in pushed(i) : /\ rank(p) <= Len(kwargs[i].values)
                                    /\ p.value = kwargs[i].values[rank(p)]
            /\ pushed(i) # {} => \A j \in 1 .. i - 1 : complete(j)
            /\ complete(i) \/ UnderWay(c) \/ c \in past.cut
<1> DEFINE R == AddRequests(c, kwargs)
           parts == AddParts(c, kwargs)
           pushed(a) == Of(c, kwargs[a].list)
           rank(a, p) == Cardinality({q \in pushed(a) : q.nth <= p.nth})
           complete(a) == Cardinality(pushed(a)) = Len(kwargs[a].values)
<1>1. PICK h \in Hosts : \E d, lo, k \in Nat : Waits(c, R, d, h, lo, k) /\ \E g : Effect(c, R, d, g)
  BY DEF InOrder
<1>2. PICK d \in Nat, lo \in Nat, k \in Nat : Waits(c, R, d, h, lo, k) /\ \E g : Effect(c, R, d, g)
  BY <1>1
<1>3. PICK g : Effect(c, R, d, g)
  BY <1>2
<1>4. PICK off : Laid(R, parts, Len(kwargs), off)
  BY AddRequestsAre
<1>5. /\ Len(R) \in Nat /\ d + k <= Len(R) /\ d <= Len(R)
      /\ \A e \in 1 .. Len(R) : R[e].call = c
  <2>1. R \in Seq(Request) /\ \A e \in DOMAIN R : R[e].call = c
    BY AddRequestsAre
  <2>2. d + k <= Len(R)
    BY <1>2 DEF Waits
  <2>3. Len(R) \in Nat /\ DOMAIN R = 1 .. Len(R)
    BY <2>1
  <2> HIDE DEF R
  <2> QED
    BY <2>1, <2>2, <2>3
<1>6. kwargs \in Seq([list : Names, values : Seq(Values)]) /\ Len(kwargs) \in Nat
      /\ DOMAIN kwargs = 1 .. Len(kwargs)
  <2>1. kwargs \in Seq([list : Names, values : Seq(Values)])
    BY ListsAssumption
  <2> QED
    BY <2>1
\* Of each list so many values are pushed, in their order.
<1>7. ASSUME NEW a \in DOMAIN kwargs
      PROVE  /\ Len(kwargs[a].values) \in Nat /\ off[a] \in Nat
             /\ \E q \in 0 .. Len(kwargs[a].values) :
                  /\ Cardinality(pushed(a)) = q
                  /\ \A p \in pushed(a) : \E j \in 1 .. q :
                       p.value = kwargs[a].values[j] /\ rank(a, p) = j
                  /\ pushed(a) # {} => off[a] < d
                  /\ off[a] + Len(kwargs[a].values) <= d => q = Len(kwargs[a].values)
  <2>1. Len(kwargs[a].values) \in Nat /\ off[a] \in Nat
        /\ PushedFirst(c, kwargs[a].list, kwargs[a].values, off[a], d)
    BY <1>3, <1>4, <1>5, PushedOf
  <2> QED
    BY <2>1 DEF PushedFirst
\* The part of a list ends before that of the next begins.
<1>8. ASSUME NEW a \in DOMAIN kwargs
      PROVE  /\ off[a] + Len(kwargs[a].values) <= Len(R)
             /\ \A b \in 1 .. a - 1 : b \in DOMAIN kwargs /\ off[b] + Len(kwargs[b].values) <= off[a]
  <2>1. ASSUME NEW b \in DOMAIN kwargs PROVE Len(parts[b]) = Len(kwargs[b].values) + 1
    <3>1. LET part == AddParts(c, kwargs)[b]
              n == Len(kwargs[b].values)
          IN Len(part) = n + 1
      BY AddPartsAre, Zenon
    <3> QED
      BY <3>1, Zenon
  <2>2. /\ off[a] + Len(parts[a]) <= Len(R)
        /\ \A b \in 1 .. Len(kwargs) : b < a => off[b] + Len(parts[b]) <= off[a]
    BY <1>4, <1>6 DEF Laid
  <2>3. \A b \in 1 .. a - 1 : b \in 1 .. Len(kwargs) /\ b < a
    BY <1>6
  <2> HIDE DEF R, parts
  <2>4. ASSUME NEW b \in 1 .. a - 1 PROVE off[b] + Len(kwargs[b].values) <= off[a]
    <3>1. off[b] + Len(parts[b]) <= off[a] /\ Len(parts[b]) = Len(kwargs[b].values) + 1
      BY <1>6, <2>1, <2>2, <2>3
    <3>2. off[a] \in Nat /\ off[b] \in Nat /\ Len(kwargs[b].values) \in Nat
      BY <1>6, <1>7, <2>3
    <3> HIDE DEF pushed, rank
    <3> QED
      BY <3>1, <3>2
  <2>5. off[a] + Len(kwargs[a].values) <= Len(R)
    BY <1>5, <1>7, <2>1, <2>2
  <2> QED
    BY <1>6, <2>3, <2>4, <2>5
<1> HIDE DEF R, parts, pushed, rank
<1>9. ASSUME NEW p \in pushed(i)
      PROVE  rank(i, p) <= Len(kwargs[i].values) /\ p.value = kwargs[i].values[rank(i, p)]
  <2>1. PICK q \in 0 .. Len(kwargs[i].values) :
          \E j \in 1 .. q : p.value = kwargs[i].values[j] /\ rank(i, p) = j
    BY <1>7
  <2> QED
    BY <1>7, <2>1
<1>10. ASSUME pushed(i) # {}, NEW j \in 1 .. i - 1 PROVE complete(j)
  <2>1. off[i] < d /\ off[i] \in Nat
    BY <1>7, <1>10
  <2>2. j \in DOMAIN kwargs /\ off[j] + Len(kwargs[j].values) <= off[i]
    BY <1>8
  <2>3. Len(kwargs[j].values) \in Nat /\ off[j] \in Nat
    BY <1>7, <2>2
  <2>4. off[j] + Len(kwargs[j].values) <= d
    BY <2>1, <2>2, <2>3
  <2> QED
    BY <1>7, <2>2, <2>4
\* Of what has not taken effect the first request is under way.
<1>11. complete(i) \/ UnderWay(c) \/ c \in past.cut
  <2>1. CASE d + k # Len(R)
    BY <1>2, <2>1 DEF Waits
  <2>2. CASE k = 0 /\ d + k = Len(R)
    <3>1. off[i] + Len(kwargs[i].values) <= d
      BY <1>5, <1>8, <2>2
    <3> QED
      BY <1>7, <3>1
  <2>3. CASE k # 0 /\ d + k = Len(R)
    <3>1. lo + k <= Len(sent[h]) /\ sent[h][lo + 1] = R[d + 1]
      <4>1. 1 \in 1 .. k
        BY <2>3
      <4> QED
        BY <1>2, <4>1 DEF Waits
    <3>2. R[d + 1].call = c
      BY <1>5, <2>3
    <3>3. lo + 1 \in DOMAIN sent[h]
      <4>1. sent[h] \in Seq(Request)
        BY DEF TypeOK
      <4> QED
        BY <2>3, <3>1, <4>1
    <3> QED
      BY <3>1, <3>2, <3>3 DEF UnderWay
  <2> QED
    BY <2>1, <2>2, <2>3
<1> QED
  BY <1>9, <1>10, <1>11, Zenon DEF pushed, rank

\* An addition takes effect value by value and list by list, whatever requests of other
\* hosts come in between, and does not stop before its end unless a crash has cut it off.
THEOREM AdditionsAreInOrder == Spec => []AddsInOrder
<1>1. Init => OrderInv
  <2> SUFFICES ASSUME Init PROVE OrderInv
    OBVIOUS
  <2>1. TypeOK
    BY DEF Init, TypeOK
  <2>2. Counting
    <3>1. past.args = <<>> /\ made = 0 /\ \A n \in Names : past.pushed[n] = {}
      BY DEF Init
    <3>2. \A h \in Hosts : sent[h] = <<>>
      BY DEF Init
    <3> QED
      BY <3>1, <3>2 DEF Counting
  <2>3. Orders
    BY DEF Init, Orders
  <2> QED
    BY <2>1, <2>2, <2>3, InitInv DEF OrderInv
<1>2. OrderInv /\ [Next]_vars => OrderInv'
  BY OrderInvKept
<1>3. OrderInv => AddsInOrder
  <2> SUFFICES ASSUME OrderInv, NEW c \in DOMAIN past.args PROVE
        LET kwargs == past.args[c]
            pushed(i) == {p \in past.pushed[kwargs[i].list] : p.call = c - 1}
            rank(i, p) == Cardinality({q \in pushed(i) : q.nth <= p.nth})
            complete(i) == Cardinality(pushed(i)) = Len(kwargs[i].values)
        IN \A i \in DOMAIN kwargs :
             /\ \A p \in pushed(i) : /\ rank(i, p) <= Len(kwargs[i].values)
                                     /\ p.value = kwargs[i].values[rank(i, p)]
             /\ pushed(i) # {} => \A j \in 1 .. i - 1 : complete(j)
             /\ complete(i) \/ UnderWay(c - 1) \/ c - 1 \in past.cut
    BY DEF AddsInOrder
  <2> DEFINE kwargs == past.args[c]
  <2>1. /\ c - 1 \in Nat /\ c - 1 < made /\ c - 1 + 1 = c
        /\ kwargs \in Adds \cup {<<>>}
    <3>1. past.args \in Seq(Adds \cup {<<>>}) /\ Len(past.args) = made
      BY DEF OrderInv, Counting
    <3> QED
      BY <3>1
  <2>2. CASE kwargs = <<>>
    <3>1. DOMAIN kwargs = {}
      BY <2>2
    <3> QED
      BY <3>1
  <2>3. CASE kwargs # <<>>
    <3>1. kwargs \in Adds
      BY <2>1, <2>3
    <3>2. InOrder(c - 1, AddRequests(c - 1, kwargs))
      BY <2>1, <2>3, <3>1 DEF OrderInv, Orders
    <3>3. TypeOK
      BY DEF OrderInv
    <3> HIDE DEF kwargs
    <3>4. ASSUME NEW i \in DOMAIN kwargs
          PROVE  LET pushed(a) == Of(c - 1, kwargs[a].list)
                     rank(p) == Cardinality({q \in pushed(i) : q.nth <= p.nth})
                     complete(a) == Cardinality(pushed(a)) = Len(kwargs[a].values)
                 IN /\ \A p \in pushed(i) : /\ rank(p) <= Len(kwargs[i].values)
                                            /\ p.value = kwargs[i].values[rank(p)]
                    /\ pushed(i) # {} => \A j \in 1 .. i - 1 : complete(j)
                    /\ complete(i) \/ UnderWay(c - 1) \/ c - 1 \in past.cut
      BY <2>1, <3>1, <3>2, <3>3, AdditionInOrder
    <3> QED
      BY <3>4, Zenon DEF Of, kwargs
  <2> QED
    BY <2>2, <2>3
<1> QED
  BY <1>1, <1>2, <1>3, PTL DEF Spec
=============================================================================
