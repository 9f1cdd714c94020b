-------------------------- MODULE BatchImportProofs --------------------------
(***************************************************************************)
(* What holds of imports for any users, activities, hosts, imports, sizes  *)
(* of chunks and zAdds, and crashes.                                       *)
(***************************************************************************)
EXTENDS BatchImport, SequenceTheorems, TLAPS

-----------------------------------------------------------------------------
(* What a call sends *)

\* A piece of a sequence: its elements are those of the sequence, moved.
LEMMA PieceFacts ==
  ASSUME NEW S, NEW s \in Seq(S), NEW m \in Nat \ {0}, NEW n \in Nat
  PROVE  /\ Piece(s, m, n) \in Seq(S)
         /\ DOMAIN Piece(s, m, n) = 1 .. Len(Piece(s, m, n)) /\ Len(Piece(s, m, n)) \in Nat
         /\ m <= n /\ m <= Len(s) => Piece(s, m, n) # <<>>
         /\ \A i \in 1 .. Len(Piece(s, m, n)) :
              m + i - 1 \in DOMAIN s /\ Piece(s, m, n)[i] = s[m + i - 1]
<1> DEFINE last == IF n < Len(s) THEN n ELSE Len(s)
           piece == SubSeq(s, m, last)
<1>1. last \in Int /\ last <= Len(s) /\ Len(s) \in Nat /\ DOMAIN s = 1 .. Len(s)
  BY LenProperties
<1>2. \A i \in m .. last : s[i] \in S
  BY <1>1, ElementOfSeq
<1> HIDE DEF last
<1>3. /\ piece \in Seq(S)
      /\ Len(piece) = IF m <= last THEN last - m + 1 ELSE 0
      /\ \A i \in 1 .. last - m + 1 : piece[i] = s[m + i - 1]
  BY <1>1, <1>2, SubSeqProperties
<1>4. DOMAIN piece = 1 .. Len(piece)
  BY <1>3, LenProperties
<1>5. ASSUME NEW i \in DOMAIN piece
      PROVE  m + i - 1 \in DOMAIN s /\ piece[i] = s[m + i - 1]
  BY <1>1, <1>3, <1>4
<1>6. m <= last => piece # <<>>
  BY <1>1, <1>3, <1>4, LenProperties, Len(<<>>) = 0
<1>7. Piece(s, m, n) = piece
  BY DEF Piece, last
<1>8. m <= n /\ m <= Len(s) => m <= last
  BY DEF last
<1> HIDE DEF piece
<1>9. Len(piece) \in Nat
  BY <1>3, LenProperties
<1> QED
  BY <1>3, <1>4, <1>5, <1>6, <1>7, <1>8, <1>9

LEMMA ElementOf == ASSUME NEW s, NEW i \in DOMAIN s PROVE s[i] \in Elements(s)
  BY DEF Elements

LEMMA StepOfType ==
  ASSUME ImportAssumption, NEW job PROVE StepOf(job) \in Nat \ {0}
  BY DEF ImportAssumption, StepOf

\* A sequence split after its first n elements: nothing is lost, and all but the first
\* element of the whole are behind another one.
LEMMA SplitFacts ==
  ASSUME NEW S, NEW s \in Seq(S), s # <<>>, NEW n \in Nat \ {0}
  PROVE  /\ Piece(s, 1, n) \in Seq(S) /\ Piece(s, 1, n) # <<>>
         /\ SubSeq(s, n + 1, Len(s)) \in Seq(S)
         /\ Elements(Piece(s, 1, n)) \cup Elements(SubSeq(s, n + 1, Len(s))) = Elements(s)
         /\ Elements(SubSeq(s, n + 1, Len(s))) \subseteq Elements(Tail(s))
         /\ \A a \in Elements(Piece(s, 1, n)) : a = s[1] \/ a \in Elements(Tail(s))
         /\ s[1] \in Elements(Piece(s, 1, n))
<1> DEFINE now == Piece(s, 1, n)
           rest == SubSeq(s, n + 1, Len(s))
<1>1. n \in Nat \ {0} /\ Len(s) \in Nat \ {0} /\ DOMAIN s = 1 .. Len(s)
  BY LenProperties, EmptySeq
<1>2. rest = Piece(s, n + 1, Len(s)) /\ n + 1 \in Nat \ {0}
  BY <1>1 DEF Piece
<1>3. /\ now \in Seq(S) /\ now # <<>>
      /\ \A i \in DOMAIN now : i \in DOMAIN s /\ now[i] = s[i]
  <2>1. ASSUME NEW m, m \in Nat \ {0}
        PROVE  /\ Piece(s, m, n) \in Seq(S)
               /\ DOMAIN Piece(s, m, n) = 1 .. Len(Piece(s, m, n)) /\ Len(Piece(s, m, n)) \in Nat
               /\ (m <= n /\ m <= Len(s) => Piece(s, m, n) # <<>>)
               /\ \A i \in 1 .. Len(Piece(s, m, n)) :
                    m + i - 1 \in DOMAIN s /\ Piece(s, m, n)[i] = s[m + i - 1]
    <3>1. n \in Nat
      BY <1>1
    <3> QED
      BY <2>1, <3>1, PieceFacts
  <2>2. /\ now \in Seq(S) /\ DOMAIN now = 1 .. Len(now) /\ Len(now) \in Nat
        /\ 1 <= n /\ 1 <= Len(s) => now # <<>>
        /\ \A i \in DOMAIN now : 1 + i - 1 \in DOMAIN s /\ now[i] = s[1 + i - 1]
    <3>1. 1 \in Nat \ {0}
      OBVIOUS
    <3> QED
      BY <2>1, <3>1
  <2> HIDE DEF now
  <2>3. \A i \in DOMAIN now : 1 + i - 1 = i
    BY <2>2
  <2> QED
    BY <1>1, <2>2, <2>3
<1>4. /\ rest \in Seq(S)
      /\ \A i \in DOMAIN rest : n + i \in DOMAIN s /\ rest[i] = s[n + i]
  <2>1. /\ Piece(s, n + 1, Len(s)) \in Seq(S)
        /\ DOMAIN Piece(s, n + 1, Len(s)) = 1 .. Len(Piece(s, n + 1, Len(s)))
        /\ \A i \in DOMAIN Piece(s, n + 1, Len(s)) :
             /\ (n + 1) + i - 1 \in DOMAIN s
             /\ Piece(s, n + 1, Len(s))[i] = s[(n + 1) + i - 1]
    <3>1. ASSUME NEW m, NEW k, m \in Nat \ {0}, k \in Nat
          PROVE  /\ Piece(s, m, k) \in Seq(S)
                 /\ DOMAIN Piece(s, m, k) = 1 .. Len(Piece(s, m, k)) /\ Len(Piece(s, m, k)) \in Nat
                 /\ \A i \in 1 .. Len(Piece(s, m, k)) :
                      m + i - 1 \in DOMAIN s /\ Piece(s, m, k)[i] = s[m + i - 1]
      BY <3>1, PieceFacts
    <3> QED
      BY <1>1, <1>2, <3>1
  <2> HIDE DEF rest
  <2>2. \A i \in DOMAIN rest : i \in Nat
    BY <1>2, <2>1
  <2>3. \A i \in Nat : (n + 1) + i - 1 = n + i
    BY <1>1
  <2> QED
    BY <1>2, <2>1, <2>2, <2>3
<1>5. /\ DOMAIN now = 1 .. (IF n < Len(s) THEN n ELSE Len(s))
      /\ DOMAIN rest = 1 .. (IF n < Len(s) THEN Len(s) - n ELSE 0)
  <2>1. \A i \in 1 .. Len(s) : s[i] \in S
    BY <1>1, ElementOfSeq
  <2>2. Len(now) = IF n < Len(s) THEN n ELSE Len(s)
    BY <1>1, <2>1, SubSeqProperties DEF Piece
  <2>3. Len(rest) = IF n < Len(s) THEN Len(s) - n ELSE 0
    BY <1>1, <2>1, SubSeqProperties
  <2> HIDE DEF now, rest
  <2> QED
    BY <1>3, <1>4, <2>2, <2>3, LenProperties
<1>6. /\ DOMAIN Tail(s) = 1 .. Len(s) - 1
      /\ \A i \in 1 .. Len(s) - 1 : Tail(s)[i] = s[i + 1]
  BY <1>1, HeadTailProperties, LenProperties
<1> HIDE DEF now, rest
<1>7. ASSUME NEW i \in DOMAIN s, i # 1 PROVE s[i] \in Elements(Tail(s))
  <2>1. i - 1 \in DOMAIN Tail(s) /\ Tail(s)[i - 1] = s[i]
    BY <1>1, <1>6, <1>7
  <2> QED
    BY <2>1 DEF Elements
<1>8. ASSUME NEW i \in DOMAIN s PROVE s[i] \in Elements(now) \cup Elements(rest)
  <2>1. CASE i <= n
    <3>1. i \in DOMAIN now /\ now[i] = s[i]
      BY <1>1, <1>3, <1>5, <2>1
    <3> QED
      BY <3>1, ElementOf, Zenon
  <2>2. CASE i > n
    <3>1. i - n \in DOMAIN rest /\ n + (i - n) = i
      <4>1. i \in Nat /\ n \in Nat /\ Len(s) \in Nat /\ i <= Len(s) /\ n < Len(s)
        BY <1>1, <2>2
      <4>2. DOMAIN rest = 1 .. Len(s) - n
        BY <1>5, <4>1
      <4>3. i - n \in 1 .. Len(s) - n /\ n + (i - n) = i
        BY <2>2, <4>1
      <4> QED
        BY <4>2, <4>3
    <3>2. rest[i - n] = s[i]
      BY <1>4, <3>1
    <3> QED
      BY <3>1, <3>2, ElementOf, Zenon
  <2> QED
    BY <1>1, <2>1, <2>2
<1>9. Elements(now) \subseteq Elements(s) /\ Elements(rest) \subseteq Elements(s)
  BY <1>3, <1>4 DEF Elements
<1>10. Elements(rest) \subseteq Elements(Tail(s))
  <2>1. \A i \in DOMAIN rest : n + i # 1
    BY <1>1, <1>5
  <2>2. \A i \in DOMAIN rest : rest[i] \in Elements(Tail(s))
    BY <1>4, <1>7, <2>1
  <2> QED
    BY <2>2 DEF Elements
<1>11. \A a \in Elements(now) : a = s[1] \/ a \in Elements(Tail(s))
  BY <1>3, <1>7 DEF Elements
<1>12. s[1] \in Elements(now)
  <2>1. 1 \in DOMAIN now
    BY <1>1, <1>5
  <2>2. now[1] = s[1]
    BY <1>3, <2>1
  <2> QED
    BY <2>1, <2>2, ElementOf, Zenon
<1>13. Elements(now) \cup Elements(rest) = Elements(s)
  BY <1>8, <1>9 DEF Elements
<1> QED
  BY <1>3, <1>4, <1>10, <1>11, <1>12, <1>13 DEF now, rest

\* What an insertion has to send is in its next request and what is left after it.
LEMMA RequestFacts ==
  ASSUME ImportAssumption, NEW call \in Nat, NEW job \in Jobs, NEW feed \in Users,
         NEW s \in Seq(Activities), s # <<>>
  PROVE  LET r == NextRequest(call, job, feed, s) IN
         /\ r \in Request /\ r.job = job /\ r.feed = feed
         /\ Elements(r.now) \cup Elements(r.rest) = Elements(s)
         /\ Elements(r.rest) \subseteq Elements(Tail(s))
         /\ \A a \in Elements(r.now) : a = s[1] \/ a \in Elements(Tail(s))
         /\ s[1] \in Elements(r.now)
<1> DEFINE n == StepOf(job)
           now == Piece(s, 1, n)
           rest == SubSeq(s, n + 1, Len(s))
<1>1. n \in Nat \ {0}
  BY StepOfType
<1>2. NextRequest(call, job, feed, s)
        = [call |-> call, job |-> job, feed |-> feed, now |-> now, rest |-> rest]
  BY DEF NextRequest
<1> HIDE DEF n
<1>3. /\ now \in Seq(Activities) /\ now # <<>> /\ rest \in Seq(Activities)
      /\ Elements(now) \cup Elements(rest) = Elements(s)
      /\ Elements(rest) \subseteq Elements(Tail(s))
      /\ \A a \in Elements(now) : a = s[1] \/ a \in Elements(Tail(s))
      /\ s[1] \in Elements(now)
  BY <1>1, SplitFacts
<1> HIDE DEF now, rest
<1>4. NextRequest(call, job, feed, s) \in Request
  BY <1>2, <1>3 DEF Request
<1> DEFINE r == NextRequest(call, job, feed, s)
<1>5. r.job = job /\ r.feed = feed /\ r.now = now /\ r.rest = rest
  BY <1>2
<1>6. /\ r \in Request /\ r.job = job /\ r.feed = feed
      /\ Elements(r.now) \cup Elements(r.rest) = Elements(s)
      /\ Elements(r.rest) \subseteq Elements(Tail(s))
      /\ \A a \in Elements(r.now) : a = s[1] \/ a \in Elements(Tail(s))
      /\ s[1] \in Elements(r.now)
  <2>1. r \in Request
    BY <1>4
  <2> HIDE DEF r
  <2> QED
    BY <1>3, <1>5, <2>1
<1> QED
  BY <1>6

LEMMA QuotientBound ==
  ASSUME NEW n \in Int, NEW c \in Nat, c > 0 PROVE c * (n \div c) <= n
  OBVIOUS

\* The chunks of an import: none is empty, and they hold nothing but what is imported.
LEMMA ChunksOf ==
  ASSUME NEW S, NEW s \in Seq(S), s # <<>>, NEW C \in Nat \ {0}
  PROVE  LET q == (Len(s) + C - 1) \div C IN
         /\ q \in Nat
         /\ \A i \in 1 .. q :
              LET chunk == Piece(s, (i - 1) * C + 1, i * C) IN
              chunk \in Seq(S) /\ chunk # <<>> /\ Elements(chunk) \subseteq Elements(s)
<1> DEFINE total == Len(s) + C - 1
           q == total \div C
<1>1. Len(s) \in Nat \ {0} /\ total \in Int /\ total \in Nat
  BY LenProperties, EmptySeq
<1>2. C * q <= total
  <2> HIDE DEF total
  <2> QED
    BY <1>1, QuotientBound
<1>3. q \in Nat
  <2> HIDE DEF total
  <2> QED
    BY <1>1
<1>4. ASSUME NEW i \in 1 .. q
      PROVE  LET chunk == Piece(s, (i - 1) * C + 1, i * C) IN
             chunk \in Seq(S) /\ chunk # <<>> /\ Elements(chunk) \subseteq Elements(s)
  <2> DEFINE p == C * i
  <2>1. p \in Nat /\ p <= C * q
    <3> HIDE DEF q, total
    <3> QED
      BY <1>3
  <2>2. (i - 1) * C = p - C /\ i * C = p
    <3> HIDE DEF q, total
    <3>1. i \in Nat
      BY <1>3
    <3> QED
      BY <3>1
  <2>3. p <= Len(s) + C - 1
    <3> DEFINE r == C * q
    <3>1. r \in Nat /\ p \in Nat /\ p <= r /\ r <= total
      <4> HIDE DEF q, total
      <4> QED
        BY <1>2, <1>3, <2>1
    <3> HIDE DEF p, r
    <3> QED
      BY <1>1, <3>1
  <2>4. C <= p
    <3> HIDE DEF q, total
    <3>1. i \in Nat /\ i >= 1
      BY <1>3
    <3> QED
      BY <3>1
  <2> HIDE DEF p, q, total
  <2> DEFINE m == p - C + 1
  <2>5. m \in Nat \ {0} /\ m <= p /\ m <= Len(s)
    BY <1>1, <2>1, <2>3, <2>4
  <2> HIDE DEF m
  <2>6. /\ Piece(s, m, p) \in Seq(S)
        /\ (m <= p /\ m <= Len(s) => Piece(s, m, p) # <<>>)
        /\ \A k \in DOMAIN Piece(s, m, p) : \E j \in DOMAIN s : Piece(s, m, p)[k] = s[j]
    BY <2>1, <2>5, PieceFacts
  <2>7. Elements(Piece(s, m, p)) \subseteq Elements(s)
    BY <2>6 DEF Elements
  <2>8. Piece(s, (i - 1) * C + 1, i * C) = Piece(s, m, p)
    BY <2>2 DEF m
  <2> QED
    BY <2>5, <2>6, <2>7, <2>8
<1> QED
  BY <1>3, <1>4

LEMMA ChunkFacts ==
  ASSUME ImportAssumption, NEW s \in Seq(Activities), s # <<>>
  PROVE  /\ ChunkCount(s) \in Nat
         /\ \A i \in 1 .. ChunkCount(s) :
              /\ ChunkOf(s, i) \in Seq(Activities) /\ ChunkOf(s, i) # <<>>
              /\ Elements(ChunkOf(s, i)) \subseteq Elements(s)
<1>1. ChunkSize \in Nat \ {0}
  BY DEF ImportAssumption
<1> QED
  BY <1>1, ChunksOf DEF ChunkCount, ChunkOf

\* The activities of an import that are not the first of their chunk.
Behind(s) == UNION {Elements(Tail(ChunkOf(s, i))) : i \in 1 .. ChunkCount(s)}

\* What the insertions of an import send first: those into the feed and those into the
\* storage carry the same, chunk by chunk, and the first request into the storage holds
\* the first of the chunk.
LEMMA InsertionFacts ==
  ASSUME ImportAssumption, made["import"] \in Nat, NEW u \in Users,
         NEW s \in Seq(Activities), s # <<>>
  PROVE  LET F == Insertions("store", u, s)
             L == Insertions("refer", u, s)
         IN
         /\ F \in Seq(Request) /\ L \in Seq(Request) /\ DOMAIN F = DOMAIN L
         /\ \A k \in DOMAIN F : F[k].job = "store"
         /\ \A k \in DOMAIN L :
              /\ L[k].feed = u
              /\ Elements(L[k].now) \cup Elements(L[k].rest) \subseteq Elements(s)
              /\ Elements(L[k].now) \cup Elements(L[k].rest)
                   = Elements(F[k].now) \cup Elements(F[k].rest)
              /\ Elements(L[k].rest) \subseteq Behind(s)
              /\ \A a \in Elements(L[k].now) : a \in Behind(s) \/ a \in Elements(F[k].now)
<1> DEFINE n == ChunkCount(s)
           F == Insertions("store", u, s)
           L == Insertions("refer", u, s)
<1>1. /\ n \in Nat
      /\ \A i \in 1 .. n : /\ ChunkOf(s, i) \in Seq(Activities) /\ ChunkOf(s, i) # <<>>
                           /\ Elements(ChunkOf(s, i)) \subseteq Elements(s)
  BY ChunkFacts
<1> HIDE DEF n
<1>2. ASSUME NEW job \in Jobs
      PROVE  /\ Insertions(job, u, s) \in Seq(Request) /\ DOMAIN Insertions(job, u, s) = 1 .. n
             /\ \A k \in 1 .. n :
                  LET r == Insertions(job, u, s)[k] IN
                  /\ r.job = job /\ r.feed = u
                  /\ Elements(r.now) \cup Elements(r.rest) = Elements(ChunkOf(s, k))
                  /\ Elements(r.rest) \subseteq Elements(Tail(ChunkOf(s, k)))
                  /\ \A a \in Elements(r.now) :
                       a = ChunkOf(s, k)[1] \/ a \in Elements(Tail(ChunkOf(s, k)))
                  /\ ChunkOf(s, k)[1] \in Elements(r.now)
  <2> DEFINE I == Insertions(job, u, s)
  <2>1. /\ DOMAIN I = 1 .. n
        /\ I = [k \in 1 .. n |-> I[k]]
        /\ \A k \in 1 .. n : I[k] = NextRequest(made["import"], job, u, ChunkOf(s, k))
    BY DEF Insertions, n
  <2> HIDE DEF I
  <2>2. ASSUME NEW k \in 1 .. n
        PROVE  LET r == I[k] IN
               /\ r \in Request /\ r.job = job /\ r.feed = u
               /\ Elements(r.now) \cup Elements(r.rest) = Elements(ChunkOf(s, k))
               /\ Elements(r.rest) \subseteq Elements(Tail(ChunkOf(s, k)))
               /\ \A a \in Elements(r.now) :
                    a = ChunkOf(s, k)[1] \/ a \in Elements(Tail(ChunkOf(s, k)))
               /\ ChunkOf(s, k)[1] \in Elements(r.now)
    <3> DEFINE chunk == ChunkOf(s, k)
    <3>1. chunk \in Seq(Activities) /\ chunk # <<>>
      BY <1>1
    <3>2. I[k] = NextRequest(made["import"], job, u, chunk)
      BY <2>1
    <3> HIDE DEF chunk
    <3> DEFINE r == NextRequest(made["import"], job, u, chunk)
    <3>3. /\ r \in Request /\ r.job = job /\ r.feed = u
          /\ Elements(r.now) \cup Elements(r.rest) = Elements(chunk)
          /\ Elements(r.rest) \subseteq Elements(Tail(chunk))
          /\ \A a \in Elements(r.now) : a = chunk[1] \/ a \in Elements(Tail(chunk))
          /\ chunk[1] \in Elements(r.now)
      BY <3>1, RequestFacts
    <3> HIDE DEF r
    <3>4. I[k] = r
      BY <3>2 DEF r
    <3> QED
      BY <3>3, <3>4 DEF chunk
  <2>3. I \in Seq(Request)
    <3>1. I \in [1 .. n -> Request]
      BY <2>1, <2>2
    <3> QED
      BY <1>1, <3>1, SeqDef
  <2> QED
    BY <2>1, <2>2, <2>3 DEF I
<1>3. "store" \in Jobs /\ "refer" \in Jobs
  BY DEF Jobs
<1>4. /\ F \in Seq(Request) /\ DOMAIN F = 1 .. n
      /\ \A k \in 1 .. n :
           /\ F[k].job = "store"
           /\ Elements(F[k].now) \cup Elements(F[k].rest) = Elements(ChunkOf(s, k))
           /\ ChunkOf(s, k)[1] \in Elements(F[k].now)
  BY <1>2, <1>3
<1>5. /\ L \in Seq(Request) /\ DOMAIN L = 1 .. n
      /\ \A k \in 1 .. n :
           /\ L[k].feed = u
           /\ Elements(L[k].now) \cup Elements(L[k].rest) = Elements(ChunkOf(s, k))
           /\ Elements(L[k].rest) \subseteq Elements(Tail(ChunkOf(s, k)))
           /\ \A a \in Elements(L[k].now) :
                a = ChunkOf(s, k)[1] \/ a \in Elements(Tail(ChunkOf(s, k)))
  BY <1>2, <1>3
<1> HIDE DEF F, L
<1>6. \A k \in 1 .. n : Elements(Tail(ChunkOf(s, k))) \subseteq Behind(s)
  BY DEF Behind, n
<1>7. ASSUME NEW k \in 1 .. n
      PROVE  /\ L[k].feed = u
             /\ Elements(L[k].now) \cup Elements(L[k].rest) \subseteq Elements(s)
             /\ Elements(L[k].now) \cup Elements(L[k].rest)
                  = Elements(F[k].now) \cup Elements(F[k].rest)
             /\ Elements(L[k].rest) \subseteq Behind(s)
             /\ \A a \in Elements(L[k].now) : a \in Behind(s) \/ a \in Elements(F[k].now)
  BY <1>1, <1>4, <1>5, <1>6
<1> QED
  BY <1>4, <1>5, <1>7 DEF F, L

-----------------------------------------------------------------------------
(* The invariant *)

\* Activity a is stored, or an import has still to store it, or a crash has kept it
\* from being stored.
Owed(a) == a \in store \/ ToBeStored(a) \/ a \in past.lost

Held(u, a) == <<u, a>> \in past.imported /\ Owed(a)

\* What a timeline may refer to.
Good(u, a) == a \in store \/ (Held(u, a) /\ <<u, a>> \in past.inner)

\* Request i of connection q: what it puts into a feed is owed; and what is not behind
\* another activity of its chunk is stored, or an earlier request will store it.
Fine(q, i) ==
  q[i].job = "refer" =>
    /\ \A a \in Elements(q[i].now) \cup Elements(q[i].rest) : Held(q[i].feed, a)
    /\ \A a \in Elements(q[i].rest) : <<q[i].feed, a>> \in past.inner
    /\ \A a \in Elements(q[i].now) :
         \/ a \in store \/ <<q[i].feed, a>> \in past.inner
         \/ \E j \in 1 .. i - 1 : q[j].job = "store" /\ a \in Elements(q[j].now)

\* A request on the connection of host h will store a.
Sending(h, a) ==
  \E j \in DOMAIN sent[h] : sent[h][j].job = "store" /\ a \in Elements(sent[h][j].now)

\* The same of a request r that host h has begun and not yet sent: all that is on the
\* connection is before it.
FineStart(h, r) ==
  r.job = "refer" =>
    /\ \A a \in Elements(r.now) \cup Elements(r.rest) : Held(r.feed, a)
    /\ \A a \in Elements(r.rest) : <<r.feed, a>> \in past.inner
    /\ \A a \in Elements(r.now) :
         a \in store \/ <<r.feed, a>> \in past.inner \/ Sending(h, a)

FineReply(p) ==
  p.job = "refer" =>
    \A a \in Elements(p.rest) : Held(p.feed, a) /\ <<p.feed, a>> \in past.inner

References ==
  /\ \A h \in Hosts : \A i \in DOMAIN sent[h] : Fine(sent[h], i)
  /\ \A h \in Hosts : \A i \in DOMAIN starting[h] : FineStart(h, starting[h][i])
  /\ \A p \in replied : FineReply(p)
  /\ \A c \in copies : c.found \subseteq store
  /\ \A u \in Users : \A a \in timeline[u] : Good(u, a)

Inv == TypeOK /\ References

LEMMA InvImplies == Inv => DanglingExplained /\ HeadsStored
  BY DEF Inv, References, Good, Held, Owed, DanglingExplained, HeadsStored

LEMMA InitInv == ImportAssumption /\ Init => Inv
<1> SUFFICES ASSUME ImportAssumption, Init PROVE Inv
  OBVIOUS
<1>1. TypeOK
  BY DEF Init, TypeOK, ImportAssumption
<1>2. References
  BY DEF Init, References
<1> QED
  BY <1>1, <1>2 DEF Inv

\* What is owed, held or good stays so while the store and the history grow.
Grows ==
  /\ store \subseteq store'
  /\ past.imported \subseteq past'.imported /\ past.inner \subseteq past'.inner
  /\ \A a : Owed(a) => Owed(a)'

LEMMA Lasts ==
  ASSUME Grows
  PROVE  \A u, a : (Held(u, a) => Held(u, a)') /\ (Good(u, a) => Good(u, a)')
  BY DEF Grows, Held, Good

LEMMA FineLasts ==
  ASSUME Grows, NEW h \in Hosts, NEW i, sent'[h] = sent[h], Fine(sent[h], i)
  PROVE  Fine(sent[h], i)'
  BY Lasts DEF Grows, Fine

\* What a host has begun stays as it was while what its connection held is there or stored.
LEMMA StartLasts ==
  ASSUME Grows, NEW h \in Hosts, \A a : Sending(h, a) => Sending(h, a)' \/ a \in store'
  PROVE  \A r : FineStart(h, r) => FineStart(h, r)'
<1> SUFFICES ASSUME NEW r, FineStart(h, r), r.job = "refer"
             PROVE  /\ \A a \in Elements(r.now) \cup Elements(r.rest) : Held(r.feed, a)'
                    /\ \A a \in Elements(r.rest) : <<r.feed, a>> \in past'.inner
                    /\ \A a \in Elements(r.now) :
                         a \in store' \/ <<r.feed, a>> \in past'.inner \/ Sending(h, a)'
  BY DEF FineStart
<1>1. /\ \A a \in Elements(r.now) \cup Elements(r.rest) : Held(r.feed, a)
      /\ \A a \in Elements(r.rest) : <<r.feed, a>> \in past.inner
      /\ \A a \in Elements(r.now) :
           a \in store \/ <<r.feed, a>> \in past.inner \/ Sending(h, a)
  BY DEF FineStart
<1> QED
  BY <1>1, Lasts DEF Grows

LEMMA FineReplyLasts ==
  ASSUME Grows, NEW p, FineReply(p) PROVE FineReply(p)'
  BY Lasts DEF Grows, FineReply

\* A step of a copy, or one that starts something that has sent nothing.
LEMMA QuietStep ==
  ASSUME Inv, hash' = hash, sent' = sent, starting' = starting, replied' = replied,
         past' = past,
         TypeOK',
         \A c \in copies' : c.found \subseteq store,
         \A u \in Users : timeline'[u] \ timeline[u] \subseteq store
  PROVE  Inv'
<1>1. store' = store
  BY DEF store
<1>2. \A a : Owed(a)' <=> Owed(a)
  BY <1>1 DEF Owed, ToBeStored
<1>3. /\ \A u, a : (Held(u, a)' <=> Held(u, a)) /\ (Good(u, a)' <=> Good(u, a))
  BY <1>1, <1>2 DEF Held, Good
<1>4. \A h \in Hosts : \A i \in DOMAIN sent'[h] : Fine(sent[h], i)'
  BY <1>1, <1>3 DEF Inv, References, Fine
<1>5. \A p \in replied' : FineReply(p)'
  BY <1>3 DEF Inv, References, FineReply
<1>6. \A u \in Users : \A a \in timeline'[u] : Good(u, a)'
  BY <1>3 DEF Inv, References, Good
<1>7. \A h \in Hosts : \A i \in DOMAIN starting'[h] : FineStart(h, starting[h][i])'
  BY <1>1, <1>3 DEF Inv, References, FineStart, Sending
<1> QED
  BY <1>1, <1>4, <1>5, <1>6, <1>7 DEF Inv, References

-----------------------------------------------------------------------------
(* followFeed *)

LEMMA StepFollowFeed ==
  ASSUME ImportAssumption, Inv, NEW from, NEW to, FollowFeed(from, to) PROVE Inv'
<1> DEFINE c == [call |-> made["follow"], from |-> from, to |-> to, at |-> "page",
                 left |-> {}, found |-> {}]
<1>1. from \in Users /\ to \in Users /\ made["follow"] \in Nat
  BY DEF FollowFeed, ImportAssumption, Inv, TypeOK
<1>2. c \in Copy
  BY <1>1 DEF Copy
<1>3. copies' = copies \cup {c} /\ c.found = {}
  BY DEF FollowFeed
<1>4. made' \in [{"import", "follow"} -> Nat]
  BY DEF FollowFeed, Inv, TypeOK
<1> HIDE DEF c
<1>5. TypeOK'
  BY <1>2, <1>3, <1>4 DEF Inv, TypeOK, FollowFeed
<1>6. \A d \in copies' : d.found \subseteq store
  BY <1>3 DEF Inv, References
<1> QED
  BY <1>5, <1>6, QuietStep DEF FollowFeed

LEMMA StepReadPage ==
  ASSUME Inv, NEW c \in copies, ReadPage(c) PROVE Inv'
<1> DEFINE page == Newest(timeline[c.from], FollowLimit)
           d == [c EXCEPT !.at = "look", !.left = page]
<1>1. c \in Copy /\ c.from \in Users /\ c.found \subseteq store
  BY DEF Inv, TypeOK, References, Copy
<1>2. page \subseteq Activities
  BY <1>1 DEF Newest, Inv, TypeOK
<1> HIDE DEF page
<1>3. d \in Copy /\ d.found = c.found
  BY <1>1, <1>2 DEF Copy
<1>4. copies' \subseteq copies \cup {d}
  BY DEF ReadPage, page
<1> HIDE DEF d
<1>5. TypeOK'
  BY <1>3, <1>4 DEF Inv, TypeOK, ReadPage
<1>6. \A e \in copies' : e.found \subseteq store
  BY <1>1, <1>3, <1>4 DEF Inv, References
<1> QED
  BY <1>5, <1>6, QuietStep DEF ReadPage

LEMMA StepLookUp ==
  ASSUME Inv, NEW c \in copies, NEW a \in c.left, LookUp(c, a) PROVE Inv'
<1> DEFINE d == [c EXCEPT !.left = @ \ {a}, !.found = @ \cup {a},
                          !.at = IF c.left = {a} THEN "write" ELSE "look"]
<1>1. c \in Copy /\ c.found \subseteq store /\ c.left \subseteq Activities
  BY DEF Inv, TypeOK, References, Copy
<1>2. d \in Copy /\ d.found = c.found \cup {a}
  BY <1>1 DEF Copy
<1>3. copies' \subseteq copies \/ (copies' \subseteq copies \cup {d} /\ Found(a))
  BY DEF LookUp
<1>4. Found(a) => a \in store
  BY <1>1 DEF Found, store
<1> HIDE DEF d
<1>5. TypeOK'
  BY <1>2, <1>3 DEF Inv, TypeOK, LookUp
<1>6. \A e \in copies' : e.found \subseteq store
  BY <1>1, <1>2, <1>3, <1>4 DEF Inv, References
<1> QED
  BY <1>5, <1>6, QuietStep DEF LookUp

LEMMA StepWriteCopies ==
  ASSUME Inv, NEW c \in copies, NEW members, WriteCopies(c, members) PROVE Inv'
<1> DEFINE d == [c EXCEPT !.found = @ \ members]
<1>1. c \in Copy /\ c.found \subseteq store /\ c.found \subseteq Activities /\ c.to \in Users
  BY DEF Inv, TypeOK, References, Copy
<1>2. d \in Copy /\ d.found \subseteq c.found
  BY <1>1 DEF Copy
<1>3. copies' \subseteq copies \cup {d}
  BY DEF WriteCopies
<1>4. members \subseteq store /\ members \subseteq Activities
  BY <1>1 DEF WriteCopies
<1>5. timeline' \in [Users -> SUBSET Activities]
  BY <1>1, <1>4 DEF WriteCopies, Inv, TypeOK
<1>6. \A u \in Users : timeline'[u] \ timeline[u] \subseteq store
  BY <1>1, <1>4 DEF WriteCopies, Inv, TypeOK
<1> HIDE DEF d
<1>7. TypeOK'
  BY <1>2, <1>3, <1>5 DEF Inv, TypeOK, WriteCopies
<1>8. \A e \in copies' : e.found \subseteq store
  BY <1>1, <1>2, <1>3 DEF Inv, References
<1> QED
  BY <1>6, <1>7, <1>8, QuietStep DEF WriteCopies

-----------------------------------------------------------------------------
(* batchImport *)

\* Three sequences one behind the other.
LEMMA Joined ==
  ASSUME NEW S, NEW h \in Seq(S), NEW c \in Seq(S), NEW t \in Seq(S)
  PROVE  /\ Len((h \o c) \o t) = Len(h) + Len(c) + Len(t)
         /\ \A i \in 1 .. Len(h) : ((h \o c) \o t)[i] = h[i]
         /\ \A i \in 1 .. Len(c) : ((h \o c) \o t)[Len(h) + i] = c[i]
<1> DEFINE both == h \o c
           all == both \o t
<1>1. Len(h) \in Nat /\ Len(c) \in Nat /\ Len(t) \in Nat
  BY LenProperties
<1>2. /\ both \in Seq(S) /\ Len(both) = Len(h) + Len(c)
      /\ \A i \in 1 .. Len(h) : both[i] = h[i]
      /\ \A i \in 1 .. Len(c) : both[Len(h) + i] = c[i]
  OBVIOUS
<1>3. both \in Seq(S)
  OBVIOUS
<1> HIDE DEF both
<1>4. /\ all \in Seq(S) /\ Len(all) = Len(both) + Len(t)
      /\ \A i \in 1 .. Len(both) : all[i] = both[i]
  BY <1>3
<1> HIDE DEF all
<1>5. \A i \in 1 .. Len(h) : i \in 1 .. Len(both)
  BY <1>1, <1>2
<1>6. \A i \in 1 .. Len(c) : Len(h) + i \in 1 .. Len(both)
  BY <1>1, <1>2
<1>7. \A i \in 1 .. Len(h) : all[i] = h[i]
  BY <1>2, <1>4, <1>5
<1>8. \A i \in 1 .. Len(c) : all[Len(h) + i] = c[i]
  BY <1>2, <1>4, <1>6
<1> QED
  BY <1>2, <1>4, <1>7, <1>8 DEF all, both

\* The parts of a serialized activity.
LEMMA DumpsFacts ==
  ASSUME ImportAssumption, NEW a \in Activities
  PROVE  /\ Dumps(a) # <<>>
         /\ Dumps(a)[1] = <<"id", a>> /\ Dumps(a)[2] = <<"actor", a>>
         /\ Dumps(a)[3] = <<"verb", a>> /\ Dumps(a)[4] = <<"object", a>>
         /\ Dumps(a)[5] = IF a \in HasTarget THEN <<"target", a>> ELSE <<"null">>
         /\ ContextParts[a] = 1 => Dumps(a)[6] = <<"context", a, 1>>
<1> DEFINE n == ContextParts[a]
           target == IF a \in HasTarget THEN <<"target", a>> ELSE <<"null">>
           head == <<<<"id", a>>, <<"actor", a>>, <<"verb", a>>, <<"object", a>>, target>>
           context == [i \in 1 .. n |-> <<"context", a, i>>]
           time == <<<<"time", a>>>>
           parts == {head[i] : i \in 1 .. 5} \cup {context[i] : i \in 1 .. n} \cup {<<"time", a>>}
<1>1. n \in Nat
  BY DEF ImportAssumption
<1>2. Len(head) = 5
  OBVIOUS
<1>3. head \in Seq(parts)
  <2>1. /\ head[1] \in parts /\ head[2] \in parts /\ head[3] \in parts
        /\ head[4] \in parts /\ head[5] \in parts
    OBVIOUS
  <2>2. \A x1, x2, x3, x4, x5 \in parts : <<x1, x2, x3, x4, x5>> \in Seq(parts)
    <3> HIDE DEF parts
    <3> QED
      OBVIOUS
  <2>3. head = <<head[1], head[2], head[3], head[4], head[5]>>
    OBVIOUS
  <2>4. Len(head) = 5
    OBVIOUS
  <2> HIDE DEF head, parts
  <2>5. <<head[1], head[2], head[3], head[4], head[5]>> \in Seq(parts)
    BY <2>1, <2>2
  <2>6. head \in Seq(parts)
    BY <2>3, <2>5, Zenon
  <2> QED
    BY <2>4, <2>6, Zenon
<1>4. context \in Seq(parts) /\ Len(context) = n
  <2>1. context \in [1 .. n -> parts]
    OBVIOUS
  <2>2. DOMAIN context = 1 .. n
    OBVIOUS
  <2> HIDE DEF context, parts, n
  <2>3. context \in Seq(parts)
    BY <1>1, <2>1, SeqDef
  <2> QED
    BY <1>1, <2>2, <2>3, LenProperties
<1>5. time \in Seq(parts)
  OBVIOUS
<1>6. /\ head[1] = <<"id", a>> /\ head[2] = <<"actor", a>> /\ head[3] = <<"verb", a>>
      /\ head[4] = <<"object", a>> /\ head[5] = target
      /\ n = 1 => context[1] = <<"context", a, 1>>
  OBVIOUS
<1>7. Dumps(a) = (head \o context) \o time
  BY DEF Dumps
<1> HIDE DEF head, context, time, parts, n
<1>8. context \in Seq(parts)
  BY <1>4
<1>9. /\ Len((head \o context) \o time) = Len(head) + Len(context) + Len(time)
      /\ \A i \in 1 .. Len(head) : ((head \o context) \o time)[i] = head[i]
      /\ \A i \in 1 .. Len(context) : ((head \o context) \o time)[Len(head) + i] = context[i]
  BY <1>5, <1>3, <1>8, Joined, SMTT(60)
<1>10. /\ Len(Dumps(a)) = Len(head) + Len(context) + Len(time)
       /\ \A i \in 1 .. Len(head) : Dumps(a)[i] = head[i]
       /\ \A i \in 1 .. Len(context) : Dumps(a)[Len(head) + i] = context[i]
  BY <1>7, <1>9, Zenon
<1>11. \A i \in 1 .. 5 : i \in 1 .. Len(head)
  BY <1>2
<1>12. n = 1 => 1 \in 1 .. Len(context) /\ Len(head) + 1 = 6
  BY <1>1, <1>4, <1>2
<1>13. /\ Dumps(a)[1] = head[1] /\ Dumps(a)[2] = head[2] /\ Dumps(a)[3] = head[3]
       /\ Dumps(a)[4] = head[4] /\ Dumps(a)[5] = head[5]
  BY <1>10, <1>11
<1>14. n = 1 => Dumps(a)[6] = context[1]
  BY <1>10, <1>12
<1>15. Len(Dumps(a)) # 0
  BY <1>1, <1>4, <1>5, <1>10, <1>2, LenProperties
<1>16. Dumps(a) # <<>>
  BY <1>15
<1> QED
  BY <1>6, <1>13, <1>14, <1>16 DEF n

\* What the next request of an insertion that has had a reply carries.
LEMMA ReplyFacts ==
  ASSUME ImportAssumption, NEW p \in Reply
  PROVE  LET r == NextRequest(p.call, p.job, p.feed, p.rest) IN
         /\ r \in Request /\ r.job = p.job /\ r.feed = p.feed
         /\ Elements(r.now) \cup Elements(r.rest) = Elements(p.rest)
<1> DEFINE c == p.call
           j == p.job
           f == p.feed
           e == p.rest
           r == NextRequest(c, j, f, e)
<1>1. c \in Nat /\ j \in Jobs /\ f \in Users /\ e \in Seq(Activities) /\ e # <<>>
  BY DEF Reply
<1> HIDE DEF c, j, f, e
<1>2. /\ r \in Request /\ r.job = j /\ r.feed = f
      /\ Elements(r.now) \cup Elements(r.rest) = Elements(e)
  BY <1>1, RequestFacts, SMTT(60)
<1> QED
  BY <1>2 DEF c, j, f, e

\* The elements of a sequence are its head and those of its tail, which move up by one.
LEMMA TailFacts ==
  ASSUME NEW S, NEW q \in Seq(S), q # <<>>
  PROVE  /\ Head(q) = q[1] /\ 1 \in DOMAIN q /\ q[1] \in S /\ Tail(q) \in Seq(S)
         /\ \A i \in DOMAIN Tail(q) : i + 1 \in DOMAIN q /\ Tail(q)[i] = q[i + 1] /\ i \in Nat
         /\ \A i \in DOMAIN q : i # 1 =>
              i - 1 \in DOMAIN Tail(q) /\ Tail(q)[i - 1] = q[i] /\ i \in Nat
<1>1. /\ Len(q) \in Nat \ {0} /\ DOMAIN q = 1 .. Len(q)
  BY LenProperties, EmptySeq
<1>2. Head(q) = q[1] /\ q[1] \in S
  BY <1>1, ElementOfSeq
<1>3. /\ Tail(q) \in Seq(S) /\ Len(Tail(q)) = Len(q) - 1
      /\ \A i \in 1 .. Len(Tail(q)) : Tail(q)[i] = q[i + 1]
  BY HeadTailProperties
<1>4. DOMAIN Tail(q) = 1 .. Len(q) - 1
  BY <1>3, LenProperties
<1>5. ASSUME NEW i \in 1 .. Len(q) - 1
      PROVE  i + 1 \in 1 .. Len(q) /\ Tail(q)[i] = q[i + 1] /\ i \in Nat
  BY <1>1, <1>3
<1>6. ASSUME NEW i \in 1 .. Len(q), i # 1
      PROVE  i - 1 \in 1 .. Len(q) - 1 /\ Tail(q)[i - 1] = q[i] /\ i \in Nat
  <2>1. i - 1 \in 1 .. Len(q) - 1 /\ (i - 1) + 1 = i /\ i \in Nat
    BY <1>1, <1>6
  <2> QED
    BY <1>5, <2>1
<1> QED
  BY <1>1, <1>2, <1>3, <1>4, <1>5, <1>6

\* One more request on the connection of host h.
LEMMA Appended ==
  ASSUME Inv, NEW h \in Hosts, NEW r \in Request,
         sent' = [sent EXCEPT ![h] = Append(@, r)]
  PROVE  /\ sent' \in [Hosts -> Seq(Request)]
         /\ \A g \in Hosts : \A i \in DOMAIN sent[g] :
              i \in DOMAIN sent'[g] /\ sent'[g][i] = sent[g][i]
         /\ Len(sent[h]) + 1 \in DOMAIN sent'[h] /\ sent'[h][Len(sent[h]) + 1] = r
         /\ \A g \in Hosts : \A i \in DOMAIN sent'[g] :
              \/ g = h /\ i = Len(sent[h]) + 1
              \/ i \in DOMAIN sent[g] /\ i \in Nat /\ \A j \in 1 .. i : j \in DOMAIN sent[g]
         /\ \A g \in Hosts : \A a : Sending(g, a) => Sending(g, a)'
<1> DEFINE q == sent[h]
<1>1. sent \in [Hosts -> Seq(Request)] /\ q \in Seq(Request)
  BY DEF Inv, TypeOK
<1>2. sent'[h] = Append(q, r) /\ \A g \in Hosts \ {h} : sent'[g] = sent[g]
  BY <1>1
<1>3. /\ Append(q, r) \in Seq(Request)
      /\ DOMAIN q = 1 .. Len(q) /\ Len(q) \in Nat /\ DOMAIN Append(q, r) = 1 .. Len(q) + 1
      /\ \A i \in 1 .. Len(q) : Append(q, r)[i] = q[i]
      /\ Append(q, r)[Len(q) + 1] = r
  BY <1>1, AppendProperties, LenProperties
<1>4. sent' \in [Hosts -> Seq(Request)]
  BY <1>1, <1>3
<1> HIDE DEF q
<1>5. /\ Len(q) + 1 \in DOMAIN sent'[h] /\ sent'[h][Len(q) + 1] = r
  BY <1>2, <1>3
<1>6. \A g \in Hosts : \A i \in DOMAIN sent[g] :
        i \in DOMAIN sent'[g] /\ sent'[g][i] = sent[g][i]
  <2> SUFFICES ASSUME NEW g \in Hosts, NEW i \in DOMAIN sent[g]
               PROVE  i \in DOMAIN sent'[g] /\ sent'[g][i] = sent[g][i]
    OBVIOUS
  <2>1. CASE g = h
    <3>1. i \in 1 .. Len(q) /\ i \in 1 .. Len(q) + 1
      BY <1>3, <2>1 DEF q
    <3> QED
      BY <1>2, <1>3, <2>1, <3>1 DEF q
  <2> QED
    BY <1>2, <2>1
<1>7. \A g \in Hosts : \A i \in DOMAIN sent'[g] :
        \/ g = h /\ i = Len(q) + 1
        \/ i \in DOMAIN sent[g] /\ i \in Nat /\ \A j \in 1 .. i : j \in DOMAIN sent[g]
  <2> SUFFICES ASSUME NEW g \in Hosts, NEW i \in DOMAIN sent'[g],
                      ~ (g = h /\ i = Len(q) + 1)
               PROVE  i \in DOMAIN sent[g] /\ i \in Nat /\ \A j \in 1 .. i : j \in DOMAIN sent[g]
    OBVIOUS
  <2>1. DOMAIN sent[g] = 1 .. Len(sent[g]) /\ Len(sent[g]) \in Nat
    BY <1>1, LenProperties
  <2>2. i \in DOMAIN sent[g]
    <3>1. CASE g = h
      <4>1. i \in 1 .. Len(q) + 1 /\ i # Len(q) + 1
        BY <1>2, <1>3, <3>1
      <4> QED
        BY <1>3, <3>1, <4>1 DEF q
    <3> QED
      BY <1>2, <3>1
  <2> QED
    BY <2>1, <2>2
<1>8. \A g \in Hosts : \A a : Sending(g, a) => Sending(g, a)'
  BY <1>6 DEF Sending
<1> QED
  BY <1>4, <1>5, <1>6, <1>7, <1>8 DEF q

\* The first request of a sequence goes to the end of another one.
LEMMA StepSendFirst ==
  ASSUME Inv, NEW h \in Hosts, SendFirst(h) PROVE Inv'
<1> DEFINE b == starting[h]
           n == Len(sent[h])
<1>0. PICK r : r = b[1]
  OBVIOUS
<1>1. /\ starting \in [Hosts -> Seq(Request)] /\ b \in Seq(Request) /\ b # <<>>
  BY DEF SendFirst, Inv, TypeOK
<1>2. /\ Head(b) = r /\ 1 \in DOMAIN b /\ r \in Request /\ Tail(b) \in Seq(Request)
      /\ \A i \in DOMAIN Tail(b) : i + 1 \in DOMAIN b /\ Tail(b)[i] = b[i + 1]
  BY <1>0, <1>1, TailFacts
<1>3. /\ sent' = [sent EXCEPT ![h] = Append(@, r)]
      /\ starting' = [starting EXCEPT ![h] = Tail(b)]
      /\ UNCHANGED <<hash, timeline, replied, copies, made, crashes, past>>
  BY <1>2 DEF SendFirst
<1>4. FineStart(h, r)
  BY <1>0, <1>2 DEF Inv, References
<1>5. /\ sent' \in [Hosts -> Seq(Request)]
      /\ \A g \in Hosts : \A i \in DOMAIN sent[g] :
           i \in DOMAIN sent'[g] /\ sent'[g][i] = sent[g][i]
      /\ n + 1 \in DOMAIN sent'[h] /\ sent'[h][n + 1] = r
      /\ \A g \in Hosts : \A i \in DOMAIN sent'[g] :
           \/ g = h /\ i = n + 1
           \/ i \in DOMAIN sent[g] /\ i \in Nat /\ \A j \in 1 .. i : j \in DOMAIN sent[g]
      /\ \A g \in Hosts : \A a : Sending(g, a) => Sending(g, a)'
  BY <1>2, <1>3, Appended
<1>6. DOMAIN sent[h] = 1 .. n /\ n \in Nat
  <2>1. sent[h] \in Seq(Request)
    BY DEF Inv, TypeOK
  <2> QED
    BY <2>1, LenProperties
<1> HIDE DEF b, n
<1>7. /\ starting'[h] = Tail(b) /\ starting[h] = b
      /\ \A g \in Hosts \ {h} : starting'[g] = starting[g]
  BY <1>1, <1>3 DEF b
<1>8. TypeOK'
  <2>1. starting' \in [Hosts -> Seq(Request)]
    BY <1>1, <1>2, <1>3
  <2> QED
    BY <1>3, <1>5, <2>1 DEF Inv, TypeOK
<1>9. store' = store /\ past' = past
  BY <1>3 DEF store
<1>10. ASSUME NEW a, ToBeStored(a) PROVE ToBeStored(a)'
  BY <1>3, <1>5, <1>10 DEF ToBeStored
<1>11. Grows
  BY <1>9, <1>10 DEF Grows, Owed
<1>12. ASSUME NEW g \in Hosts, NEW i \in DOMAIN sent'[g] PROVE Fine(sent[g], i)'
  <2>1. CASE g = h /\ i = n + 1
    <3> SUFFICES ASSUME r.job = "refer"
                 PROVE  /\ \A a \in Elements(r.now) \cup Elements(r.rest) : Held(r.feed, a)'
                        /\ \A a \in Elements(r.rest) : <<r.feed, a>> \in past'.inner
                        /\ \A a \in Elements(r.now) :
                             \/ a \in store' \/ <<r.feed, a>> \in past'.inner
                             \/ \E j \in 1 .. i - 1 :
                                  sent'[h][j].job = "store" /\ a \in Elements(sent'[h][j].now)
      BY <1>5, <2>1 DEF Fine
    <3>1. i - 1 = n
      BY <1>6, <2>1
    <3>2. \A j \in 1 .. n : sent'[h][j] = sent[h][j]
      BY <1>5, <1>6
    <3>3. ASSUME NEW a \in Elements(r.now)
          PROVE  \/ a \in store' \/ <<r.feed, a>> \in past'.inner
                 \/ \E j \in 1 .. n :
                      sent'[h][j].job = "store" /\ a \in Elements(sent'[h][j].now)
      <4>1. a \in store \/ <<r.feed, a>> \in past.inner \/ Sending(h, a)
        BY <1>4 DEF FineStart
      <4> QED
        BY <1>6, <1>9, <3>2, <4>1 DEF Sending
    <3>4. \A a \in Elements(r.now) \cup Elements(r.rest) : Held(r.feed, a)'
      BY <1>4, <1>11, Lasts DEF FineStart
    <3>5. \A a \in Elements(r.rest) : <<r.feed, a>> \in past'.inner
      BY <1>4, <1>9 DEF FineStart
    <3> QED
      BY <3>1, <3>3, <3>4, <3>5
  <2>2. CASE ~ (g = h /\ i = n + 1)
    <3>1. /\ i \in DOMAIN sent[g] /\ i \in Nat
          /\ \A j \in 1 .. i : sent'[g][j] = sent[g][j]
      BY <1>5, <2>2
    <3>2. Fine(sent[g], i) /\ sent'[g][i] = sent[g][i]
      BY <1>5, <3>1 DEF Inv, References
    <3>3. \A j \in 1 .. i - 1 : sent'[g][j] = sent[g][j]
      BY <3>1
    <3> QED
      BY <1>9, <1>11, <3>2, <3>3, Lasts DEF Fine
  <2> QED
    BY <2>1, <2>2
<1>13. \A g \in Hosts : \A x : FineStart(g, x) => FineStart(g, x)'
  BY <1>5, <1>11, StartLasts
<1>14. \A g \in Hosts : \A i \in DOMAIN starting'[g] : FineStart(g, starting[g][i])'
  <2> SUFFICES ASSUME NEW g \in Hosts, NEW i \in DOMAIN starting'[g]
               PROVE  FineStart(g, starting[g][i])'
    OBVIOUS
  <2>1. PICK k \in DOMAIN starting[g] : starting'[g][i] = starting[g][k]
    BY <1>2, <1>7
  <2>2. PICK x : x = starting'[g][i]
    OBVIOUS
  <2>3. FineStart(g, x)'
    BY <1>13, <2>1, <2>2 DEF Inv, References
  <2> QED
    BY <2>2, <2>3 DEF FineStart
<1>15. \A p \in replied' : FineReply(p)'
  BY <1>3, <1>11, FineReplyLasts DEF Inv, References
<1>16. References'
  BY <1>3, <1>9, <1>11, <1>12, <1>14, <1>15, Lasts DEF Inv, References
<1> QED
  BY <1>8, <1>16 DEF Inv

LEMMA StepContinue ==
  ASSUME ImportAssumption, Inv, NEW p \in replied, Continue(p) PROVE Inv'
<1> DEFINE r == NextRequest(p.call, p.job, p.feed, p.rest)
           q == sent[p.host]
<1>1. /\ p.call \in Nat /\ p.host \in Hosts /\ p.job \in Jobs /\ p.feed \in Users
      /\ p.rest \in Seq(Activities) /\ p.rest # <<>> /\ q \in Seq(Request)
  BY DEF Inv, TypeOK, Reply
<1>2. /\ r \in Request /\ r.job = p.job /\ r.feed = p.feed
      /\ Elements(r.now) \cup Elements(r.rest) = Elements(p.rest)
  <2>1. p \in Reply
    BY DEF Inv, TypeOK
  <2> QED
    BY <2>1, ReplyFacts
<1>3. sent' = [sent EXCEPT ![p.host] = Append(q, r)] /\ replied' = replied \ {p}
  BY DEF Continue
<1> HIDE DEF r, q
<1>4. /\ Append(q, r) \in Seq(Request)
      /\ DOMAIN q = 1 .. Len(q) /\ Len(q) \in Nat /\ DOMAIN Append(q, r) = 1 .. Len(q) + 1
      /\ \A i \in 1 .. Len(q) : Append(q, r)[i] = q[i]
      /\ Append(q, r)[Len(q) + 1] = r
  BY <1>1, <1>2, AppendProperties, LenProperties
<1>5. /\ sent'[p.host] = Append(q, r) /\ sent[p.host] = q
      /\ \A g \in Hosts \ {p.host} : sent'[g] = sent[g]
  BY <1>1, <1>3 DEF Inv, TypeOK, q
<1>6. TypeOK'
  <2>1. sent' \in [Hosts -> Seq(Request)]
    BY <1>1, <1>3, <1>4 DEF Inv, TypeOK
  <2>2. replied' \in SUBSET Reply
    BY <1>3 DEF Inv, TypeOK
  <2> QED
    BY <2>1, <2>2 DEF Inv, TypeOK, Continue
<1>7. store' = store /\ past' = past
  BY DEF store, Continue
<1>8. ASSUME NEW a, ToBeStored(a) PROVE ToBeStored(a)'
  <2>1. CASE \E h \in Hosts : \E i \in DOMAIN sent[h] :
               /\ sent[h][i].job = "store"
               /\ a \in Elements(sent[h][i].now) \cup Elements(sent[h][i].rest)
    <3>1. PICK h \in Hosts : \E i \in DOMAIN sent[h] :
               /\ sent[h][i].job = "store"
               /\ a \in Elements(sent[h][i].now) \cup Elements(sent[h][i].rest)
      BY <2>1
    <3>2. \A i \in DOMAIN sent[h] : i \in DOMAIN sent'[h] /\ sent'[h][i] = sent[h][i]
      <4>1. CASE h = p.host
        <5>1. \A i \in 1 .. Len(q) : i \in 1 .. Len(q) + 1
          BY <1>4
        <5> QED
          BY <1>4, <1>5, <4>1, <5>1
      <4> QED
        BY <1>5, <4>1
    <3> QED
      BY <3>1, <3>2 DEF ToBeStored
  <2>2. CASE \E o \in replied : o.job = "store" /\ a \in Elements(o.rest)
    <3>1. PICK o \in replied : o.job = "store" /\ a \in Elements(o.rest)
      BY <2>2
    <3>2. CASE o = p
      <4>1. /\ Len(q) + 1 \in DOMAIN sent'[p.host] /\ sent'[p.host][Len(q) + 1] = r
        BY <1>4, <1>5
      <4>2. r.job = "store" /\ a \in Elements(r.now) \cup Elements(r.rest)
        BY <1>2, <3>1, <3>2
      <4> QED
        BY <1>1, <4>1, <4>2 DEF ToBeStored
    <3> QED
      BY <1>3, <3>1, <3>2 DEF ToBeStored
  <2> QED
    BY <1>8, <2>1, <2>2 DEF ToBeStored
<1>9. \A u, a : /\ Held(u, a) => Held(u, a)'
                /\ Good(u, a) => Good(u, a)'
  BY <1>7, <1>8 DEF Held, Good, Owed
<1>10. ASSUME NEW h \in Hosts, NEW i \in DOMAIN sent'[h] PROVE Fine(sent[h], i)'
  <2>1. CASE h = p.host /\ i = Len(q) + 1
    <3>1. sent'[h][i] = r
      BY <1>4, <1>5, <2>1
    <3>2. FineReply(p)
      BY DEF Inv, References
    <3>3. r.job = "refer" => \A a \in Elements(p.rest) :
            Held(r.feed, a)' /\ <<r.feed, a>> \in past'.inner
      BY <1>2, <1>7, <1>9, <3>2 DEF FineReply
    <3> QED
      BY <1>2, <3>1, <3>3 DEF Fine
  <2>2. CASE ~ (h = p.host /\ i = Len(q) + 1)
    <3>1. i \in DOMAIN sent[h] /\ DOMAIN sent[h] = 1 .. Len(sent[h]) /\ Len(sent[h]) \in Nat
      <4>1. sent[h] \in Seq(Request)
        BY DEF Inv, TypeOK
      <4>2. DOMAIN sent[h] = 1 .. Len(sent[h]) /\ Len(sent[h]) \in Nat
        BY <4>1, LenProperties
      <4>3. CASE h = p.host
        <5>1. i \in 1 .. Len(q) + 1 /\ i # Len(q) + 1
          BY <1>4, <1>5, <2>2, <4>3
        <5> QED
          BY <1>4, <1>5, <4>2, <4>3, <5>1
      <4> QED
        BY <1>5, <4>2, <4>3
    <3>2. \A j \in 1 .. i : sent'[h][j] = sent[h][j]
      <4>1. CASE h = p.host
        <5>1. \A j \in 1 .. i : j \in 1 .. Len(q)
          BY <1>5, <3>1, <4>1
        <5> QED
          BY <1>4, <1>5, <4>1, <5>1
      <4> QED
        BY <1>5, <4>1
    <3>3. Fine(sent[h], i)
      BY <3>1 DEF Inv, References
    <3>4. sent'[h][i] = sent[h][i] /\ 1 .. i - 1 \subseteq 1 .. i
      <4> DEFINE n == Len(sent[h])
      <4>1. i \in 1 .. n /\ n \in Nat
        BY <3>1
      <4> HIDE DEF n
      <4>2. i \in 1 .. i /\ 1 .. i - 1 \subseteq 1 .. i
        BY <4>1
      <4> QED
        BY <3>2, <4>2
    <3> QED
      BY <1>7, <1>9, <3>2, <3>3, <3>4 DEF Fine
  <2> QED
    BY <2>1, <2>2
<1>11. \A o \in replied' : FineReply(o)'
  BY <1>3, <1>7, <1>9 DEF Inv, References, FineReply
<1>12. \A h \in Hosts : \A i \in DOMAIN starting'[h] : FineStart(h, starting[h][i])'
  <2>1. starting' = starting
    BY DEF Continue
  <2>2. Grows
    BY <1>7, <1>8 DEF Grows, Owed
  <2>3. sent' = [sent EXCEPT ![p.host] = Append(@, r)]
    BY <1>3 DEF q
  <2>4. \A h \in Hosts : \A a : Sending(h, a) => Sending(h, a)'
    BY <1>1, <1>2, <2>3, Appended
  <2>5. \A h \in Hosts : \A x : FineStart(h, x) => FineStart(h, x)'
    BY <2>2, <2>4, StartLasts
  <2> QED
    BY <2>1, <2>5 DEF Inv, References
<1>13. References'
  BY <1>7, <1>9, <1>10, <1>11, <1>12 DEF Inv, References, Continue
<1> QED
  BY <1>6, <1>13 DEF Inv

LEMMA ImportTypes ==
  ASSUME ImportAssumption, NEW u, NEW s, <<u, s>> \in Imports
  PROVE  /\ u \in Users /\ s \in Seq(Activities) /\ s # <<>>
         /\ Elements(s) \subseteq Activities /\ Behind(s) \subseteq Activities
<1>1. u \in Users /\ s \in Seq(Activities) /\ s # <<>>
  BY DEF ImportAssumption
<1>2. \A i \in 1 .. ChunkCount(s) :
        ChunkOf(s, i) \in Seq(Activities) /\ ChunkOf(s, i) # <<>>
  BY <1>1, ChunkFacts
<1>3. ASSUME NEW t, t \in Seq(Activities) PROVE Elements(t) \subseteq Activities
  BY <1>3, ElementOfSeq, LenProperties DEF Elements
<1>4. \A i \in 1 .. ChunkCount(s) : Tail(ChunkOf(s, i)) \in Seq(Activities)
  BY <1>2, HeadTailProperties
<1>5. \A i \in 1 .. ChunkCount(s) : Elements(Tail(ChunkOf(s, i))) \subseteq Activities
  BY <1>3, <1>4
<1> QED
  BY <1>1, <1>3, <1>5 DEF Behind

LEMMA StepImport ==
  ASSUME ImportAssumption, Inv, NEW h \in Hosts, NEW u, NEW s, BatchImport(h, u, s)
  PROVE  Inv'
<1> DEFINE F == Insertions("store", u, s)
           L == Insertions("refer", u, s)
           b == starting[h]
           q == sent[h]
           m == Len(q)
<1>1. /\ u \in Users /\ s \in Seq(Activities) /\ s # <<>>
      /\ Elements(s) \subseteq Activities /\ Behind(s) \subseteq Activities
  BY ImportTypes DEF BatchImport, Import
<1>2. made["import"] \in Nat /\ q \in Seq(Request) /\ b \in Seq(Request)
  BY DEF Inv, TypeOK
<1>3. /\ F \in Seq(Request) /\ L \in Seq(Request) /\ DOMAIN F = DOMAIN L
      /\ \A k \in DOMAIN F : F[k].job = "store"
      /\ \A k \in DOMAIN L :
           /\ L[k].feed = u
           /\ Elements(L[k].now) \cup Elements(L[k].rest) \subseteq Elements(s)
           /\ Elements(L[k].now) \cup Elements(L[k].rest)
                = Elements(F[k].now) \cup Elements(F[k].rest)
           /\ Elements(L[k].rest) \subseteq Behind(s)
           /\ \A a \in Elements(L[k].now) : a \in Behind(s) \/ a \in Elements(F[k].now)
  BY <1>1, <1>2, InsertionFacts
<1>4. /\ sent' = [sent EXCEPT ![h] = q \o F]
      /\ starting' = [starting EXCEPT ![h] = b \o L]
      /\ made' = [made EXCEPT !["import"] = @ + 1]
      /\ past' = [past EXCEPT !.imported = @ \cup {<<u, a>> : a \in Elements(s)},
                              !.inner = @ \cup {<<u, a>> : a \in Behind(s)}]
      /\ UNCHANGED <<hash, timeline, replied, copies, crashes>>
  BY DEF BatchImport, Import, Behind
<1> HIDE DEF F, L, b, q
<1>5. q \o F \in Seq(Request) /\ b \o L \in Seq(Request)
  BY <1>2, <1>3
<1>6. /\ Len(q \o F) = Len(q) + Len(F)
      /\ \A i \in 1 .. Len(q) : (q \o F)[i] = q[i]
      /\ \A i \in 1 .. Len(F) : (q \o F)[Len(q) + i] = F[i]
  <2>1. q \in Seq(Request) /\ F \in Seq(Request)
    BY <1>2, <1>3
  <2> QED
    BY <2>1
<1>7. /\ m \in Nat /\ Len(F) \in Nat /\ DOMAIN q = 1 .. m /\ DOMAIN F = 1 .. Len(F)
      /\ DOMAIN (q \o F) = 1 .. m + Len(F)
  BY <1>2, <1>3, <1>5, <1>6, LenProperties
<1>8. /\ sent'[h] = q \o F /\ sent[h] = q
      /\ \A g \in Hosts \ {h} : sent'[g] = sent[g]
  BY <1>4 DEF Inv, TypeOK, q
<1>9. TypeOK'
  <2>1. sent' \in [Hosts -> Seq(Request)]
    BY <1>4, <1>5 DEF Inv, TypeOK
  <2>4. starting' \in [Hosts -> Seq(Request)]
    BY <1>4, <1>5 DEF Inv, TypeOK
  <2>2. made' \in [{"import", "follow"} -> Nat]
    BY <1>2, <1>4 DEF Inv, TypeOK
  <2>3. past' \in [imported : SUBSET (Users \X Activities),
                   inner : SUBSET (Users \X Activities), lost : SUBSET Activities]
    <3> DEFINE X == {<<u, a>> : a \in Elements(s)}
               Y == {<<u, a>> : a \in Behind(s)}
    <3>1. X \subseteq Users \X Activities /\ Y \subseteq Users \X Activities
      BY <1>1
    <3> HIDE DEF X, Y
    <3>2. past' = [past EXCEPT !.imported = @ \cup X, !.inner = @ \cup Y]
      BY <1>4 DEF X, Y
    <3> QED
      BY <3>1, <3>2 DEF Inv, TypeOK
  <2> QED
    BY <1>4, <2>1, <2>2, <2>3, <2>4 DEF Inv, TypeOK
<1>10. /\ past'.imported = past.imported \cup {<<u, a>> : a \in Elements(s)}
       /\ past'.inner = past.inner \cup {<<u, a>> : a \in Behind(s)}
       /\ past'.lost = past.lost /\ store' = store
  BY <1>4 DEF Inv, TypeOK, store
<1>11. \A g \in Hosts : \A i \in DOMAIN sent[g] :
         i \in DOMAIN sent'[g] /\ sent'[g][i] = sent[g][i]
  <2> SUFFICES ASSUME NEW g \in Hosts, NEW i \in DOMAIN sent[g]
               PROVE  i \in DOMAIN sent'[g] /\ sent'[g][i] = sent[g][i]
    OBVIOUS
  <2>1. CASE g = h
    <3>1. i \in 1 .. m /\ i \in 1 .. m + Len(F)
      BY <1>7, <1>8, <2>1
    <3> QED
      BY <1>6, <1>7, <1>8, <2>1, <3>1
  <2> QED
    BY <1>8, <2>1
<1>12. ASSUME NEW a, ToBeStored(a) PROVE ToBeStored(a)'
  <2>1. CASE \E p \in replied : p.job = "store" /\ a \in Elements(p.rest)
    BY <1>4, <2>1 DEF ToBeStored
  <2>2. CASE \E g \in Hosts : \E i \in DOMAIN sent[g] :
               /\ sent[g][i].job = "store"
               /\ a \in Elements(sent[g][i].now) \cup Elements(sent[g][i].rest)
    <3>1. PICK g \in Hosts : \E i \in DOMAIN sent[g] :
               /\ sent[g][i].job = "store"
               /\ a \in Elements(sent[g][i].now) \cup Elements(sent[g][i].rest)
      BY <2>2
    <3> QED
      BY <1>11, <3>1 DEF ToBeStored
  <2> QED
    BY <1>12, <2>1, <2>2 DEF ToBeStored
<1>13. Grows
  BY <1>10, <1>12 DEF Grows, Owed
<1>14. ASSUME NEW k \in 1 .. Len(F), NEW i, i = m + k PROVE Fine(sent[h], i)'
  <2>1. sent'[h][i] = F[k]
    BY <1>6, <1>8, <1>14
  <2> QED
    BY <1>3, <1>7, <2>1 DEF Fine
<1>15. ASSUME NEW i \in 1 .. m PROVE Fine(sent[h], i)'
  <2>1. Fine(sent[h], i)
    BY <1>7, <1>8 DEF Inv, References
  <2>2. sent'[h][i] = sent[h][i] /\ \A j \in 1 .. i - 1 : sent'[h][j] = sent[h][j]
    <3>1. \A j \in 1 .. i - 1 : j \in 1 .. m
      BY <1>7
    <3> QED
      BY <1>6, <1>8, <3>1
  <2> QED
    BY <1>13, <2>1, <2>2, Lasts DEF Fine, Grows
<1>16. ASSUME NEW i \in DOMAIN sent'[h] PROVE Fine(sent[h], i)'
  <2>1. i \in 1 .. m + Len(F)
    BY <1>7, <1>8
  <2>2. CASE i <= m
    <3>1. i \in 1 .. m
      BY <1>7, <2>1, <2>2
    <3> QED
      BY <1>15, <3>1
  <2>3. CASE i > m
    <3>1. i - m \in 1 .. Len(F) /\ m + (i - m) = i
      BY <1>7, <2>1, <2>3
    <3> DEFINE k == i - m
    <3> HIDE DEF k
    <3>2. k \in 1 .. Len(F) /\ m + k = i
      BY <3>1 DEF k
    <3> QED
      BY <1>14, <3>2
  <2> QED
    BY <1>7, <2>1, <2>2, <2>3
<1>17. \A g \in Hosts : \A i \in DOMAIN sent'[g] : Fine(sent[g], i)'
  <2> SUFFICES ASSUME NEW g \in Hosts, NEW i \in DOMAIN sent'[g] PROVE Fine(sent[g], i)'
    OBVIOUS
  <2>1. CASE g = h
    BY <1>16, <2>1
  <2>2. CASE g # h
    <3>1. sent'[g] = sent[g] /\ Fine(sent[g], i)
      BY <1>8, <2>2 DEF Inv, References
    <3> QED
      BY <1>13, <3>1, FineLasts
  <2> QED
    BY <2>1, <2>2
<1>18. \A p \in replied' : FineReply(p)'
  BY <1>4, <1>13, FineReplyLasts DEF Inv, References
<1>19. ASSUME NEW k \in DOMAIN L, NEW r, r = L[k] PROVE FineStart(h, r)'
  <2>1. /\ r.feed = u
        /\ Elements(r.now) \cup Elements(r.rest) \subseteq Elements(s)
        /\ Elements(r.now) \cup Elements(r.rest)
             = Elements(F[k].now) \cup Elements(F[k].rest)
        /\ Elements(r.rest) \subseteq Behind(s)
        /\ \A a \in Elements(r.now) : a \in Behind(s) \/ a \in Elements(F[k].now)
        /\ F[k].job = "store" /\ k \in 1 .. Len(F)
    BY <1>3, <1>7, <1>19
  <2>2. m + k \in DOMAIN sent'[h] /\ sent'[h][m + k] = F[k]
    <3>1. m + k \in 1 .. m + Len(F) /\ (q \o F)[m + k] = F[k]
      BY <1>6, <1>7, <2>1
    <3> QED
      BY <1>7, <1>8, <3>1
  <2>3. ASSUME NEW a \in Elements(r.now) \cup Elements(r.rest) PROVE Held(u, a)'
    <3>1. ToBeStored(a)'
      BY <2>1, <2>2, <2>3 DEF ToBeStored
    <3>2. <<u, a>> \in past'.imported
      BY <1>10, <2>1, <2>3
    <3> QED
      BY <3>1, <3>2 DEF Held, Owed
  <2>4. \A a \in Elements(r.rest) : <<u, a>> \in past'.inner
    BY <1>10, <2>1
  <2>5. \A a \in Elements(r.now) : <<u, a>> \in past'.inner \/ Sending(h, a)'
    BY <1>10, <2>1, <2>2 DEF Sending
  <2> QED
    BY <2>1, <2>3, <2>4, <2>5 DEF FineStart
<1>20. \A g \in Hosts : \A x : FineStart(g, x) => FineStart(g, x)'
  <2>1. \A g \in Hosts : \A a : Sending(g, a) => Sending(g, a)'
    BY <1>11 DEF Sending
  <2> QED
    BY <1>13, <2>1, StartLasts
<1>21. \A g \in Hosts : \A i \in DOMAIN starting'[g] : FineStart(g, starting[g][i])'
  <2>1. starting'[h] = b \o L /\ \A g \in Hosts \ {h} : starting'[g] = starting[g]
    BY <1>4 DEF Inv, TypeOK
  <2>2. ASSUME NEW i \in DOMAIN (b \o L)
        PROVE  \/ i \in DOMAIN b /\ (b \o L)[i] = b[i]
               \/ \E k \in DOMAIN L : (b \o L)[i] = L[k]
    <3>1. b \in Seq(Request) /\ L \in Seq(Request)
      BY <1>2, <1>3
    <3>2. /\ Len(b \o L) = Len(b) + Len(L) /\ Len(b) \in Nat /\ Len(L) \in Nat
          /\ DOMAIN b = 1 .. Len(b) /\ DOMAIN L = 1 .. Len(L)
          /\ DOMAIN (b \o L) = 1 .. Len(b \o L)
          /\ \A j \in 1 .. Len(b) : (b \o L)[j] = b[j]
          /\ \A j \in 1 .. Len(L) : (b \o L)[Len(b) + j] = L[j]
      BY <1>5, <3>1, LenProperties
    <3>3. CASE i \in 1 .. Len(b)
      BY <3>2, <3>3
    <3>4. CASE i \notin 1 .. Len(b)
      <4>1. i - Len(b) \in 1 .. Len(L) /\ Len(b) + (i - Len(b)) = i
        BY <3>2, <3>4
      <4> QED
        BY <3>2, <4>1
    <3> QED
      BY <3>3, <3>4
  <2> SUFFICES ASSUME NEW g \in Hosts, NEW i \in DOMAIN starting'[g]
               PROVE  FineStart(g, starting[g][i])'
    OBVIOUS
  <2>3. PICK x : x = starting'[g][i]
    OBVIOUS
  <2>4. FineStart(g, x)'
    <3>1. \A j \in DOMAIN starting[g] : x = starting[g][j] => FineStart(g, x)'
      BY <1>20 DEF Inv, References
    <3>2. CASE g # h
      BY <2>1, <2>3, <3>1, <3>2
    <3>3. CASE g = h
      BY <1>19, <2>1, <2>2, <2>3, <3>1, <3>3 DEF b
    <3> QED
      BY <3>2, <3>3
  <2> QED
    BY <2>3, <2>4 DEF FineStart
<1>22. References'
  BY <1>4, <1>10, <1>13, <1>17, <1>18, <1>21, Lasts DEF Inv, References
<1> QED
  BY <1>9, <1>22 DEF Inv

LEMMA RequestTypes ==
  ASSUME NEW r \in Request
  PROVE  /\ r.job \in Jobs /\ r.feed \in Users /\ r.call \in Nat
         /\ r.now \in Seq(Activities) /\ r.rest \in Seq(Activities)
         /\ Elements(r.now) \subseteq Activities /\ Elements(r.rest) \subseteq Activities
<1>1. /\ r.job \in Jobs /\ r.feed \in Users /\ r.call \in Nat
      /\ r.now \in Seq(Activities) /\ r.rest \in Seq(Activities)
  BY DEF Request
<1>2. ASSUME NEW t, t \in Seq(Activities) PROVE Elements(t) \subseteq Activities
  BY <1>2, ElementOfSeq, LenProperties DEF Elements
<1> QED
  BY <1>1, <1>2

LEMMA StepArrive ==
  ASSUME ImportAssumption, Inv, NEW h \in Hosts, Arrive(h) PROVE Inv'
<1> DEFINE q == sent[h]
           r == q[1]
           w == [call |-> r.call, host |-> h, job |-> r.job, feed |-> r.feed,
                 rest |-> r.rest]
<1>1. q \in Seq(Request) /\ q # <<>>
  BY DEF Arrive, Inv, TypeOK
<1>2. /\ Head(q) = r /\ 1 \in DOMAIN q /\ r \in Request /\ Tail(q) \in Seq(Request)
      /\ \A i \in DOMAIN Tail(q) : i + 1 \in DOMAIN q /\ Tail(q)[i] = q[i + 1] /\ i \in Nat
      /\ \A i \in DOMAIN q : i # 1 =>
           i - 1 \in DOMAIN Tail(q) /\ Tail(q)[i - 1] = q[i] /\ i \in Nat
  BY <1>1, TailFacts
<1>3. /\ r.job \in Jobs /\ r.feed \in Users /\ r.call \in Nat
      /\ r.now \in Seq(Activities) /\ r.rest \in Seq(Activities)
      /\ Elements(r.now) \subseteq Activities /\ Elements(r.rest) \subseteq Activities
  BY <1>2, RequestTypes
<1>4. /\ r.job = "store" =>
           /\ hash' = [a \in Activities |-> IF a \in Elements(r.now) THEN Dumps(a) ELSE hash[a]]
           /\ timeline' = timeline
      /\ r.job # "store" =>
           /\ timeline' = [timeline EXCEPT ![r.feed] = @ \cup Elements(r.now)]
           /\ hash' = hash
      /\ replied' = replied \cup Waits(h, r)
      /\ sent' = [sent EXCEPT ![h] = Tail(q)]
      /\ UNCHANGED <<starting, copies, made, crashes, past>>
  BY <1>2 DEF Arrive
<1>5. /\ r.rest # <<>> => w \in Reply /\ replied' = replied \cup {w}
      /\ r.rest = <<>> => replied' = replied
      /\ w.job = r.job /\ w.rest = r.rest /\ w.feed = r.feed
  BY <1>3, <1>4 DEF Waits, Reply
<1> HIDE DEF q, r, w
<1>6. /\ sent'[h] = Tail(q) /\ sent[h] = q
      /\ \A g \in Hosts \ {h} : sent'[g] = sent[g]
  BY <1>4 DEF Inv, TypeOK, q
<1>7. \A a \in Activities : Dumps(a) # <<>>
  BY DumpsFacts
<1>8. store \subseteq store' /\ (r.job = "store" => Elements(r.now) \subseteq store')
  BY <1>3, <1>4, <1>7 DEF store, Missing
<1>9. TypeOK'
  <2>1. /\ \A a \in Activities : hash'[a] \in {Missing, Dumps(a)}
        /\ DOMAIN hash' = Activities
    <3>1. /\ \A a \in Activities : hash[a] \in {Missing, Dumps(a)}
          /\ DOMAIN hash = Activities
      BY DEF Inv, TypeOK
    <3>2. CASE r.job = "store"
      BY <1>4, <3>1, <3>2
    <3>3. CASE r.job # "store"
      BY <1>4, <3>1, <3>3
    <3> QED
      BY <3>2, <3>3
  <2>2. timeline' \in [Users -> SUBSET Activities]
    <3>1. timeline \in [Users -> SUBSET Activities]
      BY DEF Inv, TypeOK
    <3>2. CASE r.job = "store"
      BY <1>4, <3>1, <3>2
    <3>3. CASE r.job # "store"
      BY <1>3, <1>4, <3>1, <3>3
    <3> QED
      BY <3>2, <3>3
  <2>3. sent' \in [Hosts -> Seq(Request)]
    BY <1>2, <1>4 DEF Inv, TypeOK
  <2>4. replied' \in SUBSET Reply
    BY <1>5 DEF Inv, TypeOK
  <2> QED
    BY <1>4, <2>1, <2>2, <2>3, <2>4 DEF Inv, TypeOK
<1>10. past' = past
  BY <1>4
<1>11. ASSUME NEW a, ToBeStored(a) PROVE ToBeStored(a)' \/ a \in store'
  <2>1. CASE \E p \in replied : p.job = "store" /\ a \in Elements(p.rest)
    BY <1>4, <2>1 DEF ToBeStored
  <2>2. CASE \E g \in Hosts : \E i \in DOMAIN sent[g] :
               /\ sent[g][i].job = "store"
               /\ a \in Elements(sent[g][i].now) \cup Elements(sent[g][i].rest)
    <3>1. PICK g \in Hosts : \E i \in DOMAIN sent[g] :
               /\ sent[g][i].job = "store"
               /\ a \in Elements(sent[g][i].now) \cup Elements(sent[g][i].rest)
      BY <2>2
    <3>2. PICK i \in DOMAIN sent[g] :
               /\ sent[g][i].job = "store"
               /\ a \in Elements(sent[g][i].now) \cup Elements(sent[g][i].rest)
      BY <3>1
    <3>3. CASE g # h
      BY <1>6, <3>2, <3>3 DEF ToBeStored
    <3>4. CASE g = h /\ i # 1
      <4>1. i - 1 \in DOMAIN sent'[h] /\ sent'[h][i - 1] = sent[g][i]
        BY <1>2, <1>6, <3>4
      <4> QED
        BY <3>2, <4>1 DEF ToBeStored
    <3>5. CASE g = h /\ i = 1
      <4>1. sent[g][i] = r
        BY <1>6, <3>5 DEF r
      <4>2. CASE a \in Elements(r.now)
        BY <1>8, <3>2, <4>1, <4>2
      <4>3. CASE a \in Elements(r.rest)
        <5>1. r.rest # <<>>
          BY <4>3 DEF Elements
        <5> QED
          BY <1>5, <3>2, <4>1, <4>3, <5>1 DEF ToBeStored
      <4> QED
        BY <3>2, <4>1, <4>2, <4>3
    <3> QED
      BY <3>3, <3>4, <3>5
  <2> QED
    BY <1>11, <2>1, <2>2 DEF ToBeStored
<1>12. Grows
  BY <1>8, <1>10, <1>11 DEF Grows, Owed
<1>13. Fine(q, 1)
  BY <1>2, <1>6 DEF Inv, References
<1>14. r.job = "refer" =>
         /\ \A a \in Elements(r.now) \cup Elements(r.rest) : Held(r.feed, a)
         /\ \A a \in Elements(r.rest) : <<r.feed, a>> \in past.inner
         /\ \A a \in Elements(r.now) : a \in store \/ <<r.feed, a>> \in past.inner
  <2>1. \A j \in 1 .. 1 - 1 : FALSE
    OBVIOUS
  <2> QED
    BY <1>13, <2>1 DEF Fine, r
<1>15. ASSUME NEW i \in DOMAIN sent'[h] PROVE Fine(sent[h], i)'
  <2>1. i + 1 \in DOMAIN q /\ sent'[h][i] = q[i + 1] /\ i \in Nat
    BY <1>2, <1>6
  <2>2. Fine(q, i + 1)
    BY <1>6, <2>1 DEF Inv, References
  <2>3. CASE q[i + 1].job # "refer"
    BY <2>1, <2>3 DEF Fine
  <2>4. CASE q[i + 1].job = "refer"
    <3>0. PICK d : d = q[i + 1]
      OBVIOUS
    <3>1. /\ \A a \in Elements(d.now) \cup Elements(d.rest) : Held(d.feed, a)
          /\ \A a \in Elements(d.rest) : <<d.feed, a>> \in past.inner
          /\ \A a \in Elements(d.now) :
               \/ a \in store \/ <<d.feed, a>> \in past.inner
               \/ \E j \in 1 .. i : q[j].job = "store" /\ a \in Elements(q[j].now)
      <4>1. (i + 1) - 1 = i
        BY <2>1
      <4> QED
        BY <2>2, <2>4, <3>0, <4>1 DEF Fine
    <3>2. ASSUME NEW a \in Elements(d.now)
          PROVE  \/ a \in store' \/ <<d.feed, a>> \in past'.inner
                 \/ \E j \in 1 .. i - 1 :
                      sent'[h][j].job = "store" /\ a \in Elements(sent'[h][j].now)
      <4>1. CASE a \in store \/ <<d.feed, a>> \in past.inner
        BY <1>8, <1>10, <4>1
      <4>2. CASE \E j \in 1 .. i : q[j].job = "store" /\ a \in Elements(q[j].now)
        <5>1. PICK j \in 1 .. i : q[j].job = "store" /\ a \in Elements(q[j].now)
          BY <4>2
        <5>2. CASE j = 1
          BY <1>8, <5>1, <5>2 DEF r
        <5>3. CASE j # 1
          <6>1. j \in DOMAIN q
            <7>1. DOMAIN q = 1 .. Len(q) /\ Len(q) \in Nat
              BY <1>1, LenProperties DEF q
            <7> QED
              BY <2>1, <7>1
          <6>2. j - 1 \in 1 .. i - 1 /\ sent'[h][j - 1] = q[j]
            BY <1>2, <1>6, <2>1, <5>3, <6>1
          <6> QED
            BY <5>1, <6>2
        <5> QED
          BY <5>2, <5>3
      <4> QED
        BY <3>1, <4>1, <4>2
    <3>3. sent'[h][i] = d /\ d.job = "refer"
      BY <2>1, <2>4, <3>0
    <3>4. \A a \in Elements(d.now) \cup Elements(d.rest) : Held(d.feed, a)'
      BY <1>12, <3>1, Lasts
    <3>5. \A a \in Elements(d.rest) : <<d.feed, a>> \in past'.inner
      BY <1>10, <3>1
    <3> QED
      BY <3>2, <3>3, <3>4, <3>5 DEF Fine
  <2> QED
    BY <2>3, <2>4
<1>16. \A g \in Hosts : \A i \in DOMAIN sent'[g] : Fine(sent[g], i)'
  <2> SUFFICES ASSUME NEW g \in Hosts, NEW i \in DOMAIN sent'[g] PROVE Fine(sent[g], i)'
    OBVIOUS
  <2>1. CASE g = h
    BY <1>15, <2>1
  <2>2. CASE g # h
    <3>1. sent'[g] = sent[g] /\ Fine(sent[g], i)
      BY <1>6, <2>2 DEF Inv, References
    <3> QED
      BY <1>12, <3>1, FineLasts
  <2> QED
    BY <2>1, <2>2
<1>17. ASSUME NEW p \in replied' PROVE FineReply(p)'
  <2>1. CASE p \in replied
    BY <1>12, <2>1, FineReplyLasts DEF Inv, References
  <2>2. CASE p \notin replied
    <3>1. p = w /\ r.rest # <<>>
      BY <1>5, <2>2
    <3> QED
      BY <1>5, <1>10, <1>12, <1>14, <3>1, Lasts DEF FineReply
  <2> QED
    BY <2>1, <2>2
<1>18. ASSUME NEW u \in Users, NEW a \in timeline'[u] PROVE Good(u, a)'
  <2>1. CASE a \in timeline[u]
    BY <1>12, <2>1, Lasts DEF Inv, References
  <2>2. CASE a \notin timeline[u]
    <3>1. r.job = "refer" /\ u = r.feed /\ a \in Elements(r.now)
      BY <1>3, <1>4, <2>2 DEF Inv, TypeOK, Jobs
    <3>2. Good(u, a)
      BY <1>14, <3>1 DEF Good
    <3> QED
      BY <1>12, <3>2, Lasts
  <2> QED
    BY <2>1, <2>2
<1>19. \A c \in copies' : c.found \subseteq store'
  BY <1>4, <1>8 DEF Inv, References
<1>20. \A g \in Hosts : \A i \in DOMAIN starting'[g] : FineStart(g, starting[g][i])'
  <2>1. ASSUME NEW g \in Hosts, NEW a, Sending(g, a) PROVE Sending(g, a)' \/ a \in store'
    <3>1. PICK i \in DOMAIN sent[g] : sent[g][i].job = "store" /\ a \in Elements(sent[g][i].now)
      BY <2>1 DEF Sending
    <3>2. CASE g # h
      BY <1>6, <3>1, <3>2 DEF Sending
    <3>3. CASE g = h /\ i # 1
      <4>1. i - 1 \in DOMAIN sent'[h] /\ sent'[h][i - 1] = sent[g][i]
        BY <1>2, <1>6, <3>3
      <4> QED
        BY <3>1, <3>3, <4>1 DEF Sending
    <3>4. CASE g = h /\ i = 1
      BY <1>6, <1>8, <3>1, <3>4 DEF r
    <3> QED
      BY <3>2, <3>3, <3>4
  <2>2. \A g \in Hosts : \A x : FineStart(g, x) => FineStart(g, x)'
    BY <1>12, <2>1, StartLasts
  <2> QED
    BY <1>4, <2>2 DEF Inv, References
<1>21. References'
  BY <1>16, <1>17, <1>18, <1>19, <1>20 DEF References
<1> QED
  BY <1>9, <1>21 DEF Inv

-----------------------------------------------------------------------------
(* Crashes *)

LEMMA ReplyTypes ==
  ASSUME NEW p \in Reply PROVE Elements(p.rest) \subseteq Activities
<1>1. p.rest \in Seq(Activities)
  BY DEF Reply
<1> QED
  BY <1>1, ElementOfSeq, LenProperties DEF Elements

LEMMA UnfollowedFacts ==
  ASSUME NEW r \in Request
  PROVE  /\ Unfollowed(r) \in Request /\ Unfollowed(r).job = r.job
         /\ Unfollowed(r).feed = r.feed /\ Unfollowed(r).now = r.now
         /\ Unfollowed(r).rest = <<>>
<1>1. <<>> \in Seq(Activities)
  OBVIOUS
<1>2. [r EXCEPT !.rest = <<>>] \in Request
  BY <1>1 DEF Request
<1>3. Unfollowed(r) = [r EXCEPT !.rest = <<>>]
  BY DEF Unfollowed
<1>4. /\ [r EXCEPT !.rest = <<>>].job = r.job /\ [r EXCEPT !.rest = <<>>].feed = r.feed
      /\ [r EXCEPT !.rest = <<>>].now = r.now /\ [r EXCEPT !.rest = <<>>].rest = <<>>
  BY DEF Request
<1> QED
  BY <1>2, <1>3, <1>4, Zenon

LEMMA StepCrash ==
  ASSUME Inv, NEW h \in Hosts, NEW k \in 0 .. Len(sent[h]), CrashHost(h, k) PROVE Inv'
<1> DEFINE q == sent[h]
           kept == [i \in 1 .. k |-> Unfollowed(q[i])]
           dead == Unstored(h, k)
<1>1. q \in Seq(Request) /\ replied \in SUBSET Reply
  BY DEF Inv, TypeOK
<1>2. /\ DOMAIN q = 1 .. Len(q) /\ Len(q) \in Nat /\ k \in Nat /\ k <= Len(q)
      /\ \A i \in 1 .. Len(q) : q[i] \in Request
  BY <1>1, LenProperties, ElementOfSeq
<1>3. ASSUME NEW i \in 1 .. k
      PROVE  /\ Unfollowed(q[i]) \in Request /\ Unfollowed(q[i]).job = q[i].job
             /\ Unfollowed(q[i]).feed = q[i].feed /\ Unfollowed(q[i]).now = q[i].now
             /\ Unfollowed(q[i]).rest = <<>>
  <2>1. q[i] \in Request
    BY <1>2
  <2> QED
    BY <2>1, UnfollowedFacts
<1>4. dead \subseteq Activities
  BY DEF Unstored
<1>5. /\ sent' = [sent EXCEPT ![h] = kept] /\ starting' = [starting EXCEPT ![h] = <<>>]
      /\ replied' = {p \in replied : p.host # h}
      /\ past' = [past EXCEPT !.lost = @ \cup dead] /\ crashes' = crashes + 1
      /\ UNCHANGED <<hash, timeline, copies, made>>
  BY DEF CrashHost
<1>6. /\ \A i \in k + 1 .. Len(q) : q[i].job = "store" => Elements(q[i].now) \subseteq dead
      /\ \A i \in DOMAIN q : q[i].job = "store" => Elements(q[i].rest) \subseteq dead
      /\ \A p \in replied : p.host = h /\ p.job = "store" => Elements(p.rest) \subseteq dead
  <2>1. \A i \in DOMAIN q : Elements(q[i].now) \subseteq Activities
                            /\ Elements(q[i].rest) \subseteq Activities
    BY <1>2, RequestTypes
  <2>2. \A p \in replied : Elements(p.rest) \subseteq Activities
    BY <1>1, ReplyTypes
  <2>3. k + 1 .. Len(q) \subseteq DOMAIN q
    BY <1>2
  <2> QED
    BY <2>1, <2>2, <2>3 DEF Unstored
<1>7. DOMAIN kept = 1 .. k /\ \A i \in 1 .. k : kept[i] = Unfollowed(q[i])
  OBVIOUS
<1>8. kept \in Seq(Request)
  BY <1>2, <1>3, SeqDef
<1> HIDE DEF q, kept, dead
<1>10. /\ sent'[h] = kept /\ sent[h] = q
       /\ \A g \in Hosts \ {h} : sent'[g] = sent[g]
  BY <1>5 DEF Inv, TypeOK, q
<1>11. TypeOK'
  <2>1. sent' \in [Hosts -> Seq(Request)]
    BY <1>5, <1>8 DEF Inv, TypeOK
  <2>4. starting' \in [Hosts -> Seq(Request)]
    <3>1. <<>> \in Seq(Request)
      OBVIOUS
    <3> QED
      BY <1>5, <3>1 DEF Inv, TypeOK
  <2>2. past' \in [imported : SUBSET (Users \X Activities),
                   inner : SUBSET (Users \X Activities), lost : SUBSET Activities]
    BY <1>4, <1>5 DEF Inv, TypeOK
  <2>3. replied' \in SUBSET Reply /\ crashes' \in Nat
    BY <1>1, <1>5 DEF Inv, TypeOK
  <2> QED
    BY <1>5, <2>1, <2>2, <2>3, <2>4 DEF Inv, TypeOK
<1>12. /\ store' = store /\ past'.imported = past.imported /\ past'.inner = past.inner
       /\ past'.lost = past.lost \cup dead
  BY <1>5 DEF Inv, TypeOK, store
<1>13. ASSUME NEW a, ToBeStored(a) PROVE ToBeStored(a)' \/ a \in past'.lost
  <2>1. CASE \E p \in replied : p.job = "store" /\ a \in Elements(p.rest)
    BY <1>5, <1>6, <1>12, <2>1 DEF ToBeStored
  <2>2. CASE \E g \in Hosts : \E i \in DOMAIN sent[g] :
               /\ sent[g][i].job = "store"
               /\ a \in Elements(sent[g][i].now) \cup Elements(sent[g][i].rest)
    <3>1. PICK g \in Hosts : \E i \in DOMAIN sent[g] :
               /\ sent[g][i].job = "store"
               /\ a \in Elements(sent[g][i].now) \cup Elements(sent[g][i].rest)
      BY <2>2
    <3>2. PICK i \in DOMAIN sent[g] :
               /\ sent[g][i].job = "store"
               /\ a \in Elements(sent[g][i].now) \cup Elements(sent[g][i].rest)
      BY <3>1
    <3>3. CASE g # h
      BY <1>10, <3>2, <3>3 DEF ToBeStored
    <3>4. CASE g = h /\ a \in Elements(sent[g][i].rest)
      BY <1>6, <1>10, <1>12, <3>2, <3>4
    <3>5. CASE g = h /\ a \in Elements(sent[g][i].now)
      <4>1. i \in 1 .. k \/ i \in k + 1 .. Len(q)
        BY <1>2, <1>10, <3>5
      <4>2. CASE i \in 1 .. k
        <5>1. i \in DOMAIN sent'[h] /\ sent'[h][i] = Unfollowed(q[i])
          BY <1>7, <1>10, <4>2
        <5>2. /\ sent'[h][i].job = "store"
              /\ a \in Elements(sent'[h][i].now) \cup Elements(sent'[h][i].rest)
          BY <1>3, <1>10, <3>2, <3>5, <4>2, <5>1
        <5> QED
          BY <5>1, <5>2 DEF ToBeStored
      <4>3. CASE i \in k + 1 .. Len(q)
        BY <1>6, <1>10, <1>12, <3>2, <3>5, <4>3
      <4> QED
        BY <4>1, <4>2, <4>3
    <3> QED
      BY <3>2, <3>3, <3>4, <3>5
  <2> QED
    BY <1>13, <2>1, <2>2 DEF ToBeStored
<1>14. Grows
  BY <1>12, <1>13 DEF Grows, Owed
<1>15. ASSUME NEW i \in 1 .. k PROVE Fine(sent[h], i)'
  <2>1. PICK d : d = q[i]
    OBVIOUS
  <2>2. Fine(q, i)
    <3>1. i \in DOMAIN sent[h]
      BY <1>2, <1>10
    <3> QED
      BY <1>10, <3>1 DEF Inv, References
  <2>3. CASE d.job # "refer"
    BY <1>3, <1>7, <1>10, <2>1, <2>3 DEF Fine
  <2>4. CASE d.job = "refer"
    <3>1. /\ \A a \in Elements(d.now) : Held(d.feed, a)
          /\ \A a \in Elements(d.now) :
               \/ a \in store \/ <<d.feed, a>> \in past.inner
               \/ \E j \in 1 .. i - 1 : q[j].job = "store" /\ a \in Elements(q[j].now)
      BY <2>1, <2>2, <2>4 DEF Fine
    <3>2. /\ sent'[h][i].job = "refer" /\ sent'[h][i].feed = d.feed
          /\ sent'[h][i].now = d.now /\ sent'[h][i].rest = <<>>
      BY <1>3, <1>7, <1>10, <2>1, <2>4
    <3>3. \A j \in 1 .. i - 1 : sent'[h][j].job = q[j].job /\ sent'[h][j].now = q[j].now
      <4>1. \A j \in 1 .. i - 1 : j \in 1 .. k
        BY <1>2
      <4> QED
        BY <1>3, <1>7, <1>10, <4>1
    <3>4. \A a \in Elements(d.now) : Held(d.feed, a)'
      BY <1>14, <3>1, Lasts
    <3>5. \A a \in Elements(d.now) :
            \/ a \in store' \/ <<d.feed, a>> \in past'.inner
            \/ \E j \in 1 .. i - 1 :
                 sent'[h][j].job = "store" /\ a \in Elements(sent'[h][j].now)
      BY <1>12, <3>1, <3>3
    <3>6. Elements(<<>>) = {}
      BY DEF Elements
    <3> QED
      BY <3>2, <3>4, <3>5, <3>6 DEF Fine
  <2> QED
    BY <2>3, <2>4
<1>16. \A g \in Hosts : \A i \in DOMAIN sent'[g] : Fine(sent[g], i)'
  <2> SUFFICES ASSUME NEW g \in Hosts, NEW i \in DOMAIN sent'[g] PROVE Fine(sent[g], i)'
    OBVIOUS
  <2>1. CASE g = h
    BY <1>7, <1>10, <1>15, <2>1
  <2>2. CASE g # h
    <3>1. sent'[g] = sent[g] /\ Fine(sent[g], i)
      BY <1>10, <2>2 DEF Inv, References
    <3> QED
      BY <1>14, <3>1, FineLasts
  <2> QED
    BY <2>1, <2>2
<1>17. \A p \in replied' : FineReply(p)'
  BY <1>5, <1>14, FineReplyLasts DEF Inv, References
<1>18. \A g \in Hosts : \A i \in DOMAIN starting'[g] : FineStart(g, starting[g][i])'
  <2> SUFFICES ASSUME NEW g \in Hosts, NEW i \in DOMAIN starting'[g]
               PROVE  FineStart(g, starting[g][i])'
    OBVIOUS
  <2>1. starting'[h] = <<>> /\ \A f \in Hosts \ {h} : starting'[f] = starting[f]
    BY <1>5 DEF Inv, TypeOK
  <2>2. g # h
    BY <2>1
  <2>3. starting'[g] = starting[g] /\ sent'[g] = sent[g]
    BY <1>10, <2>1, <2>2
  <2>4. \A a : Sending(g, a) => Sending(g, a)'
    BY <2>3 DEF Sending
  <2>5. \A x : FineStart(g, x) => FineStart(g, x)'
    BY <1>14, <2>4, StartLasts
  <2>6. PICK x : x = starting'[g][i]
    OBVIOUS
  <2>7. FineStart(g, x)'
    BY <2>3, <2>5, <2>6 DEF Inv, References
  <2> QED
    BY <2>6, <2>7 DEF FineStart
<1>19. References'
  BY <1>5, <1>12, <1>14, <1>16, <1>17, <1>18, Lasts DEF Inv, References
<1> QED
  BY <1>11, <1>19 DEF Inv

-----------------------------------------------------------------------------
(* The theorems *)

LEMMA NextInv == ASSUME ImportAssumption, Inv, [Next]_vars PROVE Inv'
<1>1. CASE UNCHANGED vars
  <2>1. TypeOK'
    BY <1>1 DEF vars, Inv, TypeOK
  <2> QED
    BY <1>1, <2>1, QuietStep DEF vars, Inv, References
<1>2. CASE \E h \in Hosts : \E i \in Imports : BatchImport(h, i[1], i[2])
  BY <1>2, StepImport
<1>3. CASE \E f \in Follows : FollowFeed(f[1], f[2])
  BY <1>3, StepFollowFeed
<1>4. CASE Importing
  BY <1>4, StepSendFirst, StepArrive, StepContinue DEF Importing
<1>5. CASE Copying
  BY <1>5, StepReadPage, StepLookUp, StepWriteCopies DEF Copying
<1>6. CASE \E h \in Hosts : \E k \in 0 .. Len(sent[h]) : CrashHost(h, k)
  BY <1>6, StepCrash
<1> QED
  BY <1>1, <1>2, <1>3, <1>4, <1>5, <1>6 DEF Next

LEMMA Invariance == Spec => []Inv
<1>1. Init => Inv
  BY ImportAssumption, InitInv
<1>2. Inv /\ [Next]_vars => Inv'
  BY ImportAssumption, NextInv
<1> QED
  BY <1>1, <1>2, PTL DEF Spec

\* Every state an import reaches has its type (src/feedManagers/base.ts, batchImport
\* and followFeed over the storages of Redis).
THEOREM TypeCorrect == Spec => []TypeOK
<1>1. Inv => TypeOK
  BY DEF Inv
<1> QED
  BY <1>1, Invariance, PTL

\* A feed refers to an activity that is not stored only while an import into this feed
\* still stores it, or after a crash that stopped one: followFeed copies only what it
\* has found (src/feeds/base/base.ts, getItem).
THEOREM DanglingIsExplained == Spec => []DanglingExplained
  BY Invariance, InvImplies, PTL

\* The first activity of a chunk is stored before its feed refers to it: its hSet goes
\* out while batchImport runs, and addMany's for await lets go before the zAdd, which so
\* is sent later on the same connection (src/storage/redis/structures/hash.ts, setMany,
\* and sorted_set.ts, addMany).
THEOREM HeadsAreStored == Spec => []HeadsStored
  BY Invariance, InvImplies, PTL

\* What is read back of a stored activity is what was written, but for its time and a
\* context with a comma (src/serializers/ActivitySerializer.ts).
THEOREM ReadsBack == Spec => []ReadBack
<1>1. TypeOK => ReadBack
  <2> SUFFICES ASSUME TypeOK, NEW a \in store PROVE
        LET b == Loads(hash[a]) IN
        /\ b.id = <<"id", a>> /\ b.actor = <<"actor", a>>
        /\ b.verb = <<"verb", a>> /\ b.object = <<"object", a>>
        /\ b.target = IF a \in HasTarget THEN <<"target", a>> ELSE <<"null">>
        /\ ContextParts[a] = 1 => b.context = <<"context", a, 1>>
    BY DEF ReadBack
  <2>1. a \in Activities /\ hash[a] = Dumps(a)
    BY DEF TypeOK, store
  <2>2. /\ Dumps(a)[1] = <<"id", a>> /\ Dumps(a)[2] = <<"actor", a>>
        /\ Dumps(a)[3] = <<"verb", a>> /\ Dumps(a)[4] = <<"object", a>>
        /\ Dumps(a)[5] = IF a \in HasTarget THEN <<"target", a>> ELSE <<"null">>
        /\ ContextParts[a] = 1 => Dumps(a)[6] = <<"context", a, 1>>
    BY <2>1, ImportAssumption, DumpsFacts
  <2> QED
    BY <2>1, <2>2 DEF Loads
<1> QED
  BY <1>1, TypeCorrect, PTL

=============================================================================
