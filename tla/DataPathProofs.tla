---------------------------- MODULE DataPathProofs ----------------------------
(***************************************************************************)
(* Safety of the data path, for any number of processes and any capacity   *)
(* of the queues.  The proofs count: entries of a queue that belong to a   *)
(* process, to a work queue or to a kind of request.                       *)
(***************************************************************************)
EXTENDS DataPath, FiniteSetTheorems, SequenceTheorems, TLAPS

\* The number of entries of a queue that are in a set.
CountIn(s, E) == Cardinality({i \in 1 .. Len(s) : s[i] \in E})

WrAt(h)  == {w \in Wr : Host[w.proc] = h}
WrOf(p)  == {w \in Wr : w.proc = p}
SendWr   == {w \in Wr : w.op = "SEND"}
WcOf(p)  == {w \in Wc : w.proc = p}
WcIn(wq) == {w \in Wc : w.wq = wq}

\* A queue holds requests of the processes of its own host.
Types ==
  /\ sq \in [Hosts -> Seq(Wr)] /\ \A h \in Hosts : sq[h] \in Seq(WrAt(h))
  /\ rq \in [Hosts -> Seq(Procs)] /\ \A h \in Hosts : rq[h] \in Seq(ProcsOn(h))
  /\ acked \in [Hosts -> Seq(Procs)] /\ \A h \in Hosts : acked[h] \in Seq(ProcsOn(h))
  /\ cq \in [Hosts -> Seq(Wc)]
  /\ err \subseteq Hosts /\ overran \subseteq Hosts
  /\ sends \in [Procs -> 0 .. MaxPosts] /\ recvs \in [Procs -> 0 .. MaxPosts]
  /\ got \in [Procs -> Nat]
  /\ uncalled \subseteq Procs
  /\ landed \subseteq Procs \X Procs
  /\ stuck \in [Procs -> {"no", "post", "poll"}]

\* What the queues of its host hold of a process.
SqOf(p)    == CountIn(sq[Host[p]], WrOf(p))
RqOf(p)    == CountIn(rq[Host[p]], {p})
AckedOf(p) == CountIn(acked[Host[p]], {p})
CqOf(p)    == CountIn(cq[Host[p]], WcOf(p))
Own(p)     == SqOf(p) + RqOf(p) + AckedOf(p) + CqOf(p)

\* What they hold altogether, of each work queue's completions, and of SENDs.
SqLen(h)    == Len(sq[h])
RqLen(h)    == Len(rq[h])
AckedLen(h) == Len(acked[h])
CqLen(h)    == Len(cq[h])
Queued(h)   == SqLen(h) + RqLen(h) + AckedLen(h) + CqLen(h)
SqWcs(h)    == CountIn(cq[h], WcIn("sq"))
RqWcs(h)    == CountIn(cq[h], WcIn("rq"))
SendsIn(h)  == CountIn(sq[h], SendWr)

\* A process has posted, and was not handed back, at least what the queues hold
\* of it: whatever a completion is lost to, nothing is made up.
OwnInv == \A p \in Procs : Own(p) <= Outstanding(p) /\ Outstanding(p) <= MaxOut

\* No queue holds more than it has places for.
RoomInv ==
  \A h \in Hosts : /\ SqLen(h) + AckedLen(h) + SqWcs(h) <= MaxWr
                   /\ RqLen(h) + RqWcs(h) <= MaxWr
                   /\ CqLen(h) <= CqSize

BaseInv == Types /\ OwnInv /\ RoomInv

\* The completion queue cannot overflow: it has a place for every work request
\* that the queues of the QP take, or for every request that the processes of
\* its host keep outstanding.  The code's three sizes are equal (types.h:22-24),
\* so there it is up to the processes.
Roomy ==
  \/ CqSize >= 2 * MaxWr
  \/ \A h \in Hosts : Cardinality(ProcsOn(h)) * MaxOut <= CqSize

\* Each process of a host with the numbers up to its own, and up to m.
Numbered(o, h, m) == {r \in ProcsOn(h) \X (1 .. m) : r[2] <= o[r[1]]}

\* The receives that the processes of a host have posted, and the sends that
\* had a receive of their partner's posted before them.
Receives(h) == Numbered(recvs, h, MaxPosts)
Credited ==
  [p \in Procs |-> IF sends[p] <= recvs[Partner[p]] THEN sends[p] ELSE recvs[Partner[p]]]
Credits(h) == Numbered(Credited, h, MaxPosts)

\* As long as nobody sends what was not called for and no completion queue has
\* overflowed, the SENDs on their way and those that have taken a buffer of the
\* other host are no more than the credits.
CreditInv ==
  uncalled = {} /\ overran = {} =>
    /\ err = {}
    /\ \A h \in Hosts :
         SendsIn(h) + Cardinality(Receives(Other(h)))
           <= Cardinality(Credits(h)) + RqLen(Other(h))

-----------------------------------------------------------------------------
(* Counting the entries of a queue.                                         *)

\* A count is a natural number, no larger than the length.
LEMMA CountType ==
  ASSUME NEW S, NEW s \in Seq(S), NEW E
  PROVE  /\ IsFiniteSet({i \in 1 .. Len(s) : s[i] \in E})
         /\ CountIn(s, E) \in Nat
         /\ CountIn(s, E) <= Len(s)
  <1>1. Len(s) \in Nat
    BY LenProperties
  <1>2. IsFiniteSet(1 .. Len(s)) /\ Cardinality(1 .. Len(s)) = Len(s)
    BY <1>1, FS_Interval
  <1>3. {i \in 1 .. Len(s) : s[i] \in E} \in SUBSET (1 .. Len(s))
    OBVIOUS
  <1> QED
    BY <1>2, <1>3, FS_Subset, FS_CardinalityType DEF CountIn

\* Nothing is in the empty queue.
LEMMA CountEmpty == \A E : CountIn(<<>>, E) = 0
  <1> TAKE E
  <1>1. {i \in 1 .. Len(<<>>) : (<<>>)[i] \in E} = {}
    BY EmptySeq
  <1> QED
    BY <1>1, FS_EmptySet DEF CountIn

\* A new last entry counts if it is in the set.
LEMMA CountAppend ==
  ASSUME NEW S, NEW s \in Seq(S), NEW x \in S, NEW E
  PROVE  CountIn(Append(s, x), E) = CountIn(s, E) + (IF x \in E THEN 1 ELSE 0)
  <1> DEFINE P == {i \in 1 .. Len(s) : s[i] \in E}
  <1> DEFINE Q == {i \in 1 .. Len(Append(s, x)) : Append(s, x)[i] \in E}
  <1>1. /\ Len(s) \in Nat /\ Len(Append(s, x)) = Len(s) + 1
        /\ \A i \in 1 .. Len(s) : Append(s, x)[i] = s[i]
        /\ Append(s, x)[Len(s) + 1] = x
    BY LenProperties, AppendProperties
  <1>2. IsFiniteSet(P) /\ Cardinality(P) \in Nat
    BY CountType DEF CountIn
  <1>3. Q = IF x \in E THEN P \cup {Len(s) + 1} ELSE P
    BY <1>1
  <1>4. Len(s) + 1 \notin P
    BY <1>1
  <1>5. CountIn(s, E) = Cardinality(P) /\ CountIn(Append(s, x), E) = Cardinality(Q)
    BY DEF CountIn
  <1> HIDE DEF P, Q
  <1>6. Cardinality(P \cup {Len(s) + 1}) = Cardinality(P) + 1
    BY <1>2, <1>4, FS_AddElement
  <1> QED
    BY <1>2, <1>3, <1>5, <1>6

\* Without its first entry a queue has one less, if that was in the set.
LEMMA CountTail ==
  ASSUME NEW S, NEW s \in Seq(S), s # <<>>, NEW E
  PROVE  CountIn(Tail(s), E) = CountIn(s, E) - (IF Head(s) \in E THEN 1 ELSE 0)
  <1> DEFINE P == {i \in 1 .. Len(s) : s[i] \in E}
  <1> DEFINE Q == {i \in 1 .. Len(Tail(s)) : Tail(s)[i] \in E}
  <1> DEFINE f == [i \in Q |-> i + 1]
  <1>1. /\ Len(s) \in Nat \ {0} /\ Len(Tail(s)) = Len(s) - 1
        /\ \A i \in 1 .. Len(Tail(s)) : Tail(s)[i] = s[i + 1]
        /\ Head(s) = s[1]
    BY EmptySeq, HeadTailProperties
  <1>2. IsFiniteSet(P) /\ IsFiniteSet(Q) /\ Cardinality(P) \in Nat
    <2>1. Tail(s) \in Seq(S)
      BY HeadTailProperties
    <2> QED
      BY <2>1, CountType DEF CountIn
  <1>3. f \in Bijection(Q, P \ {1})
    <2>1. f \in [Q -> P \ {1}]
      BY <1>1
    <2>2. \A i \in Q : i \in Int /\ f[i] = i + 1
      BY <1>1
    <2>3. \A j \in P \ {1} : j \in Int /\ j - 1 \in Q
      BY <1>1
    <2> HIDE DEF P, Q, f
    <2>4. \A i, j \in Q : f[i] = f[j] => i = j
      BY <2>2
    <2>5. ASSUME NEW j \in P \ {1} PROVE \E i \in Q : f[i] = j
      <3>1. j - 1 \in Q /\ f[j - 1] = j
        BY <2>2, <2>3
      <3> QED
        BY <3>1
    <2>6. f \in Injection(Q, P \ {1})
      BY <2>1, <2>4 DEF Injection, IsInjective
    <2>7. f \in Surjection(Q, P \ {1})
      BY <2>1, <2>5 DEF Surjection
    <2> QED
      BY <2>6, <2>7 DEF Bijection
  <1>4. 1 \in P <=> Head(s) \in E
    BY <1>1
  <1>5. CountIn(s, E) = Cardinality(P) /\ CountIn(Tail(s), E) = Cardinality(Q)
    BY DEF CountIn
  <1> HIDE DEF P, Q, f
  <1>6. Cardinality(P \ {1}) = Cardinality(Q)
    BY <1>2, <1>3, FS_Bijection DEF ExistsBijection
  <1>7. Cardinality(P \ {1}) = IF 1 \in P THEN Cardinality(P) - 1 ELSE Cardinality(P)
    BY <1>2, FS_RemoveElement
  <1> QED
    BY <1>2, <1>4, <1>5, <1>6, <1>7

\* If every entry is in one of two sets, and none in both, the two counts sum
\* up to the length.
LEMMA CountSplit ==
  ASSUME NEW S, NEW s \in Seq(S), NEW E, NEW F, \A x \in S : x \in E <=> x \notin F
  PROVE  CountIn(s, E) + CountIn(s, F) = Len(s)
  <1> DEFINE P == {i \in 1 .. Len(s) : s[i] \in E}
  <1> DEFINE Q == {i \in 1 .. Len(s) : s[i] \in F}
  <1>0. Len(s) \in Nat
    BY LenProperties
  <1>1. \A i \in 1 .. Len(s) : s[i] \in S
    BY ElementOfSeq
  <1>2. P \cup Q = 1 .. Len(s) /\ P \cap Q = {}
    BY <1>0, <1>1
  <1>3. /\ IsFiniteSet(P) /\ IsFiniteSet(Q)
        /\ Cardinality(P) \in Nat /\ Cardinality(Q) \in Nat
    BY CountType DEF CountIn
  <1>4. Cardinality(P \cup Q) = Cardinality(P) + Cardinality(Q) - Cardinality(P \cap Q)
    BY <1>3, FS_Union
  <1>5. CountIn(s, E) = Cardinality(P) /\ CountIn(s, F) = Cardinality(Q)
    BY DEF CountIn
  <1> HIDE DEF P, Q
  <1>6. Cardinality(P \cup Q) = Len(s)
    <2> PICK n \in Nat : n = Len(s)
      BY <1>0
    <2>1. Cardinality(1 .. n) = n
      <3>1. 1 \in Int /\ n \in Int /\ n - 1 + 1 = n /\ (1 > n => n = 0)
        OBVIOUS
      <3>2. Cardinality(1 .. n) = IF 1 > n THEN 0 ELSE n - 1 + 1
        BY <3>1, FS_Interval, Zenon
      <3> QED
        BY <3>1, <3>2
    <2> QED
      BY <1>2, <2>1
  <1>7. Cardinality(P \cap Q) = 0
    BY <1>2, FS_EmptySet
  <1> QED
    BY <1>3, <1>4, <1>5, <1>6, <1>7

\* What taking the first entry off a queue does.
LEMMA Pop ==
  ASSUME NEW S, NEW s \in Seq(S), s # <<>>
  PROVE  /\ Head(s) \in S /\ Tail(s) \in Seq(S)
         /\ Len(s) \in Nat \ {0} /\ Len(Tail(s)) = Len(s) - 1
         /\ \A E : CountIn(Tail(s), E) = CountIn(s, E) - (IF Head(s) \in E THEN 1 ELSE 0)
  BY HeadTailProperties, EmptySeq, CountTail

\* What a new last entry does.
LEMMA Push ==
  ASSUME NEW S, NEW s \in Seq(S), NEW x \in S
  PROVE  /\ Append(s, x) \in Seq(S)
         /\ Len(s) \in Nat /\ Len(Append(s, x)) = Len(s) + 1
         /\ \A E : CountIn(Append(s, x), E) = CountIn(s, E) + (IF x \in E THEN 1 ELSE 0)
  BY AppendProperties, LenProperties, CountAppend

\* Lengths and counts of queues are natural numbers.
LEMMA QueueNat ==
  ASSUME NEW S, NEW q \in [Hosts -> Seq(S)], NEW h \in Hosts
  PROVE  /\ Len(q[h]) \in Nat
         /\ \A E : CountIn(q[h], E) \in Nat
  BY CountType, LenProperties

-----------------------------------------------------------------------------
(* Counting the requests of the processes of a host.                        *)

\* There are as many numbers as a process has requests.
LEMMA NumberedFinite ==
  ASSUME NEW o, NEW h, NEW m \in Nat
  PROVE  /\ IsFiniteSet(Numbered(o, h, m)) /\ Cardinality(Numbered(o, h, m)) \in Nat
         /\ Cardinality(Numbered(o, h, m)) <= Cardinality(ProcsOn(h)) * m
         /\ Cardinality(ProcsOn(h)) \in Nat
  <1>1. IsFiniteSet(ProcsOn(h)) /\ Cardinality(ProcsOn(h)) \in Nat
    <2>1. ProcsOn(h) \in SUBSET Procs
      BY DEF ProcsOn
    <2> QED
      BY <2>1, FS_Subset, FS_CardinalityType, DataPathAssumption
  <1>2. IsFiniteSet(1 .. m)
    BY FS_Interval
  <1>3. Cardinality(1 .. m) = m
    BY FS_Interval
  <1>4. /\ IsFiniteSet(ProcsOn(h) \X (1 .. m))
        /\ Cardinality(ProcsOn(h) \X (1 .. m)) = Cardinality(ProcsOn(h)) * m
    BY <1>1, <1>2, <1>3, FS_Product
  <1>5. Numbered(o, h, m) \in SUBSET (ProcsOn(h) \X (1 .. m))
    BY DEF Numbered
  <1> QED
    BY <1>1, <1>4, <1>5, FS_Subset, FS_CardinalityType

\* Larger numbers, no smaller set.
LEMMA NumberedMonotone ==
  ASSUME NEW m \in Nat, NEW o \in [Procs -> Int], NEW n \in [Procs -> Int],
         \A p \in Procs : o[p] <= n[p], NEW h
  PROVE  Cardinality(Numbered(o, h, m)) <= Cardinality(Numbered(n, h, m))
  <1>1. Numbered(o, h, m) \in SUBSET Numbered(n, h, m)
    <2> SUFFICES ASSUME NEW r \in ProcsOn(h) \X (1 .. m), r[2] <= o[r[1]]
                 PROVE  r[2] <= n[r[1]]
      BY DEF Numbered
    <2>1. r[1] \in Procs /\ r[2] \in Int
      BY DEF ProcsOn
    <2> QED
      BY <2>1
  <1> QED
    BY <1>1, NumberedFinite, FS_Subset

\* One more for one process is one more for its host.
LEMMA NumberedMore ==
  ASSUME NEW m \in Nat, NEW o \in [Procs -> Int], NEW p \in Procs,
         o[p] \in 0 .. m - 1, NEW h
  PROVE  Cardinality(Numbered([o EXCEPT ![p] = o[p] + 1], h, m)) =
           Cardinality(Numbered(o, h, m)) + (IF h = Host[p] THEN 1 ELSE 0)
  <1> DEFINE n == [o EXCEPT ![p] = o[p] + 1]
  <1> DEFINE x == <<p, o[p] + 1>>
  <1>1. x \notin Numbered(o, h, m)
    BY DEF Numbered
  <1>2. CASE h = Host[p]
    <2>1. Numbered(n, h, m) = Numbered(o, h, m) \cup {x}
      <3>1. ASSUME NEW r \in Numbered(n, h, m) PROVE r \in Numbered(o, h, m) \cup {x}
        <4>1. /\ r \in ProcsOn(h) \X (1 .. m) /\ r[1] \in Procs /\ r[2] \in Int
              /\ r = <<r[1], r[2]>> /\ r[2] <= n[r[1]]
          BY DEF Numbered, ProcsOn
        <4>2. CASE r[1] # p
          BY <4>1, <4>2 DEF Numbered
        <4>3. CASE r[1] = p /\ r[2] = o[p] + 1
          BY <4>1, <4>3
        <4>4. CASE r[1] = p /\ r[2] <= o[p]
          BY <4>1, <4>4 DEF Numbered
        <4> QED
          BY <4>1, <4>2, <4>3, <4>4
      <3>2. ASSUME NEW r \in Numbered(o, h, m) PROVE r \in Numbered(n, h, m)
        <4>1. /\ r \in ProcsOn(h) \X (1 .. m) /\ r[1] \in Procs /\ r[2] \in Int
              /\ r[2] <= o[r[1]]
          BY DEF Numbered, ProcsOn
        <4>2. r[2] <= n[r[1]]
          BY <4>1
        <4> QED
          BY <4>1, <4>2 DEF Numbered
      <3>3. x \in Numbered(n, h, m)
        <4>1. p \in ProcsOn(h)
          BY <1>2 DEF ProcsOn
        <4> QED
          BY <4>1 DEF Numbered
      <3> QED
        BY <3>1, <3>2, <3>3
    <2> HIDE DEF x
    <2>2. Cardinality(Numbered(o, h, m) \cup {x}) = Cardinality(Numbered(o, h, m)) + 1
      BY <1>1, NumberedFinite, FS_AddElement
    <2> QED
      BY <1>2, <2>1, <2>2
  <1>3. CASE h # Host[p]
    <2>1. \A q \in ProcsOn(h) : n[q] = o[q]
      BY <1>3 DEF ProcsOn
    <2>2. Numbered(n, h, m) = Numbered(o, h, m)
      BY <2>1 DEF Numbered
    <2> QED
      BY <1>3, <2>2, NumberedFinite
  <1> QED
    BY <1>2, <1>3

-----------------------------------------------------------------------------
(* Hosts, completions, and the room in the queues.                          *)

\* There are two hosts, each the other's other.
LEMMA TwoHosts ==
  \A h \in Hosts : /\ Other(h) \in Hosts /\ Other(h) # h /\ Other(Other(h)) = h
                   /\ \A g \in Hosts : g = h \/ g = Other(h)
  <1>1. ASSUME NEW h \in Hosts PROVE \E g : Hosts \ {h} = {g}
    <2>1. IsFiniteSet(Hosts \ {h}) /\ Cardinality(Hosts \ {h}) = 1
      BY FS_RemoveElement, DataPathAssumption
    <2> QED
      BY <2>1, FS_Singleton
  <1>2. ASSUME NEW h \in Hosts
        PROVE  /\ Other(h) \in Hosts /\ Other(h) # h
               /\ \A g \in Hosts : g = h \/ g = Other(h)
    <2>1. PICK g : Hosts \ {h} = {g}
      BY <1>1
    <2>2. Other(h) \in Hosts /\ Other(h) # h
      BY <2>1 DEF Other
    <2> QED
      BY <2>1, <2>2
  <1> QED
    BY <1>2

-----------------------------------------------------------------------------
(* The numbers, and what a change of a queue does to them.                  *)

\* The numbers of one host, one process, and the bounds.
LEMMA HostNumbers ==
  ASSUME Types, NEW h \in Hosts
  PROVE  /\ SqLen(h) \in Nat /\ RqLen(h) \in Nat /\ AckedLen(h) \in Nat
         /\ CqLen(h) \in Nat /\ SqWcs(h) \in Nat /\ RqWcs(h) \in Nat /\ SendsIn(h) \in Nat
  BY QueueNat DEF Types, SqLen, RqLen, AckedLen, CqLen, SqWcs, RqWcs, SendsIn

LEMMA ProcNumbers ==
  ASSUME Types, NEW p \in Procs
  PROVE  /\ Host[p] \in Hosts
         /\ SqOf(p) \in Nat /\ RqOf(p) \in Nat /\ AckedOf(p) \in Nat /\ CqOf(p) \in Nat
         /\ sends[p] \in Nat /\ recvs[p] \in Nat /\ got[p] \in Nat /\ Outstanding(p) \in Int
  <1>1. Host[p] \in Hosts
    BY DataPathAssumption
  <1>2. SqOf(p) \in Nat /\ RqOf(p) \in Nat /\ AckedOf(p) \in Nat /\ CqOf(p) \in Nat
    BY <1>1, QueueNat DEF Types, SqOf, RqOf, AckedOf, CqOf
  <1>3. sends[p] \in Nat /\ recvs[p] \in Nat /\ got[p] \in Nat
    BY DataPathAssumption DEF Types
  <1> QED
    BY <1>1, <1>2, <1>3 DEF Outstanding

LEMMA Sizes == MaxWr \in Nat /\ CqSize \in Nat /\ MaxOut \in Nat /\ MaxPosts \in Nat
  BY DataPathAssumption

\* A counter below its bound is raised by one, the others stay.
LEMMA CounterStep ==
  ASSUME NEW S, NEW m \in Nat, NEW f \in [S -> 0 .. m], NEW p \in S, f[p] < m
  PROVE  LET g == [f EXCEPT ![p] = f[p] + 1] IN
         /\ g \in [S -> 0 .. m] /\ g[p] = f[p] + 1
         /\ \A q \in S : g[q] = f[q] + (IF q = p THEN 1 ELSE 0)
  <1> DEFINE g == [f EXCEPT ![p] = f[p] + 1]
  <1>1. f[p] + 1 \in 0 .. m /\ \A q \in S : f[q] \in 0 .. m
    OBVIOUS
  <1>2. g \in [S -> 0 .. m] /\ g[p] = f[p] + 1 /\ \A q \in S \ {p} : g[q] = f[q]
    BY <1>1
  <1>3. \A q \in S : g[q] = f[q] + (IF q = p THEN 1 ELSE 0)
    BY <1>1, <1>2
  <1> QED
    BY <1>2, <1>3

\* Nothing is counted anew in a queue that stays as it is.
LEMMA Stays ==
  /\ UNCHANGED sq => /\ \A g : SqLen(g)' = SqLen(g) /\ SendsIn(g)' = SendsIn(g)
                     /\ \A q : SqOf(q)' = SqOf(q)
  /\ UNCHANGED rq => /\ \A g : RqLen(g)' = RqLen(g)
                     /\ \A q : RqOf(q)' = RqOf(q)
  /\ UNCHANGED acked => /\ \A g : AckedLen(g)' = AckedLen(g)
                        /\ \A q : AckedOf(q)' = AckedOf(q)
  /\ UNCHANGED cq => /\ \A g : /\ CqLen(g)' = CqLen(g)
                               /\ SqWcs(g)' = SqWcs(g) /\ RqWcs(g)' = RqWcs(g)
                     /\ \A q : CqOf(q)' = CqOf(q)
  BY DEF SqLen, SendsIn, SqOf, RqLen, RqOf, AckedLen, AckedOf, CqLen, SqWcs, RqWcs, CqOf

\* A request leaves a send queue, or is posted to it.
LEMMA SqPop ==
  ASSUME Types, NEW h \in Hosts, sq[h] # <<>>, sq' = [sq EXCEPT ![h] = Tail(sq[h])]
  PROVE  /\ sq' \in [Hosts -> Seq(Wr)] /\ \A g \in Hosts : sq'[g] \in Seq(WrAt(g))
         /\ Head(sq[h]) \in Wr /\ Head(sq[h]).proc \in Procs /\ Host[Head(sq[h]).proc] = h
         /\ SqLen(h) > 0
         /\ \A g \in Hosts : /\ SqLen(g)' = SqLen(g) - (IF g = h THEN 1 ELSE 0)
                             /\ SendsIn(g)' = SendsIn(g) -
                                  (IF g = h /\ Head(sq[h]).op = "SEND" THEN 1 ELSE 0)
         /\ \A q \in Procs :
              SqOf(q)' = SqOf(q) - (IF q = Head(sq[h]).proc THEN 1 ELSE 0)
  <1> DEFINE wr == Head(sq[h])
  <1>1. sq \in [Hosts -> Seq(Wr)] /\ \A g \in Hosts : sq[g] \in Seq(WrAt(g))
    BY DEF Types
  <1>2. /\ sq' \in [Hosts -> Seq(Wr)] /\ sq'[h] \in Seq(WrAt(h))
        /\ \A g \in Hosts \ {h} : sq'[g] = sq[g]
        /\ wr \in Wr /\ wr \in WrAt(h)
        /\ Len(sq[h]) \in Nat \ {0} /\ Len(sq'[h]) = Len(sq[h]) - 1
        /\ \A E : CountIn(sq'[h], E) = CountIn(sq[h], E) - (IF wr \in E THEN 1 ELSE 0)
    <2>1. sq[h] \in Seq(Wr) /\ sq[h] \in Seq(WrAt(h))
      BY <1>1
    <2>2. sq'[h] = Tail(sq[h]) /\ \A g \in Hosts \ {h} : sq'[g] = sq[g]
      BY <1>1
    <2>3. sq' \in [Hosts -> Seq(Wr)]
      BY <1>1, <2>1, Pop
    <2> QED
      BY <1>1, <2>1, <2>2, <2>3, Pop
  <1>3. wr.proc \in Procs /\ Host[wr.proc] = h
    BY <1>2 DEF Wr, WrAt
  <1>4. wr \in SendWr <=> wr.op = "SEND"
    BY <1>2 DEF SendWr
  <1>5. \A q : wr \in WrOf(q) <=> wr.proc = q
    BY <1>2 DEF WrOf
  <1> HIDE DEF wr
  <1>6. ASSUME NEW g \in Hosts
        PROVE  /\ SqLen(g)' = SqLen(g) - (IF g = h THEN 1 ELSE 0)
               /\ SendsIn(g)' = SendsIn(g) - (IF g = h /\ wr.op = "SEND" THEN 1 ELSE 0)
    <2>1. SqLen(g) \in Nat /\ SendsIn(g) \in Nat
      BY HostNumbers
    <2>2. CASE g = h
      BY <1>2, <1>4, <2>1, <2>2 DEF SqLen, SendsIn
    <2>3. CASE g # h
      <3>1. SqLen(g)' = SqLen(g) /\ SendsIn(g)' = SendsIn(g)
        BY <1>2, <2>3 DEF SqLen, SendsIn
      <3> QED
        BY <2>1, <2>3, <3>1
    <2> QED
      BY <2>2, <2>3
  <1>7. ASSUME NEW q \in Procs
        PROVE  SqOf(q)' = SqOf(q) - (IF q = wr.proc THEN 1 ELSE 0)
    <2>1. SqOf(q) \in Nat /\ Host[q] \in Hosts
      BY ProcNumbers
    <2>2. CASE Host[q] = h
      BY <1>2, <1>5, <2>1, <2>2 DEF SqOf
    <2>3. CASE Host[q] # h
      <3>1. SqOf(q)' = SqOf(q)
        BY <1>2, <2>1, <2>3 DEF SqOf
      <3> QED
        BY <1>3, <2>1, <2>3, <3>1
    <2> QED
      BY <2>2, <2>3
  <1>8. \A g \in Hosts : sq'[g] \in Seq(WrAt(g))
    BY <1>1, <1>2
  <1> QED
    BY <1>2, <1>3, <1>6, <1>7, <1>8 DEF wr, SqLen

LEMMA SqPush ==
  ASSUME Types, NEW wr \in Wr, NEW h, h = Host[wr.proc],
         sq' = [sq EXCEPT ![h] = Append(sq[h], wr)]
  PROVE  /\ sq' \in [Hosts -> Seq(Wr)] /\ \A g \in Hosts : sq'[g] \in Seq(WrAt(g))
         /\ \A g \in Hosts : /\ SqLen(g)' = SqLen(g) + (IF g = h THEN 1 ELSE 0)
                             /\ SendsIn(g)' = SendsIn(g) +
                                  (IF g = h /\ wr.op = "SEND" THEN 1 ELSE 0)
         /\ \A q \in Procs : SqOf(q)' = SqOf(q) + (IF q = wr.proc THEN 1 ELSE 0)
  <1>1. sq \in [Hosts -> Seq(Wr)] /\ \A g \in Hosts : sq[g] \in Seq(WrAt(g))
    BY DEF Types
  <1>2. h \in Hosts
    BY DataPathAssumption DEF Wr
  <1>3. wr \in Wr /\ wr \in WrAt(h)
    BY DEF WrAt
  <1>4. wr \in SendWr <=> wr.op = "SEND"
    BY <1>3 DEF SendWr
  <1>5. \A q : wr \in WrOf(q) <=> wr.proc = q
    BY <1>3 DEF WrOf
  <1>6. /\ sq' \in [Hosts -> Seq(Wr)] /\ sq'[h] \in Seq(WrAt(h))
        /\ \A g \in Hosts \ {h} : sq'[g] = sq[g]
        /\ Len(sq'[h]) = Len(sq[h]) + 1
        /\ \A E : CountIn(sq'[h], E) = CountIn(sq[h], E) + (IF wr \in E THEN 1 ELSE 0)
    <2>1. sq[h] \in Seq(Wr) /\ sq[h] \in Seq(WrAt(h))
      BY <1>1, <1>2, <1>3
    <2>2. sq'[h] = Append(sq[h], wr) /\ \A g \in Hosts \ {h} : sq'[g] = sq[g]
      BY <1>1, <1>2, <1>3
    <2>3. sq' \in [Hosts -> Seq(Wr)]
      BY <1>1, <1>2, <1>3, <2>1, Push
    <2>4. Append(sq[h], wr) \in Seq(WrAt(h))
      BY <1>1, <1>2, <1>3, <2>1, Push
    <2>5. /\ Len(Append(sq[h], wr)) = Len(sq[h]) + 1
          /\ \A E : CountIn(Append(sq[h], wr), E)
                      = CountIn(sq[h], E) + (IF wr \in E THEN 1 ELSE 0)
      BY <1>1, <1>2, <1>3, <2>1, Push
    <2> QED
      BY <2>2, <2>3, <2>4, <2>5
  <1>7. ASSUME NEW g \in Hosts
        PROVE  /\ SqLen(g)' = SqLen(g) + (IF g = h THEN 1 ELSE 0)
               /\ SendsIn(g)' = SendsIn(g) + (IF g = h /\ wr.op = "SEND" THEN 1 ELSE 0)
    <2>1. SqLen(g) \in Nat /\ SendsIn(g) \in Nat
      BY HostNumbers
    <2>2. CASE g = h
      BY <1>4, <1>6, <2>1, <2>2 DEF SqLen, SendsIn
    <2>3. CASE g # h
      <3>1. SqLen(g)' = SqLen(g) /\ SendsIn(g)' = SendsIn(g)
        BY <1>6, <2>3 DEF SqLen, SendsIn
      <3> QED
        BY <2>1, <2>3, <3>1
    <2> QED
      BY <2>2, <2>3
  <1>8. ASSUME NEW q \in Procs
        PROVE  SqOf(q)' = SqOf(q) + (IF q = wr.proc THEN 1 ELSE 0)
    <2>1. SqOf(q) \in Nat /\ Host[q] \in Hosts
      BY ProcNumbers
    <2>2. CASE Host[q] = h
      BY <1>5, <1>6, <2>1, <2>2 DEF SqOf
    <2>3. CASE Host[q] # h
      <3>1. SqOf(q)' = SqOf(q)
        BY <1>6, <2>1, <2>3 DEF SqOf
      <3> QED
        BY <2>1, <2>3, <3>1
    <2> QED
      BY <2>2, <2>3
  <1> QED
    BY <1>1, <1>6, <1>7, <1>8

\* A buffer leaves a receive queue, or is posted to it.
LEMMA RqPop ==
  ASSUME Types, NEW h \in Hosts, rq[h] # <<>>, rq' = [rq EXCEPT ![h] = Tail(rq[h])]
  PROVE  /\ rq' \in [Hosts -> Seq(Procs)] /\ \A g \in Hosts : rq'[g] \in Seq(ProcsOn(g))
         /\ Head(rq[h]) \in Procs /\ Host[Head(rq[h])] = h
         /\ RqLen(h) > 0
         /\ \A g \in Hosts : RqLen(g)' = RqLen(g) - (IF g = h THEN 1 ELSE 0)
         /\ \A q \in Procs : RqOf(q)' = RqOf(q) - (IF q = Head(rq[h]) THEN 1 ELSE 0)
  <1> DEFINE x == Head(rq[h])
  <1>1. rq \in [Hosts -> Seq(Procs)] /\ \A g \in Hosts : rq[g] \in Seq(ProcsOn(g))
    BY DEF Types
  <1>2. /\ rq' \in [Hosts -> Seq(Procs)] /\ rq'[h] \in Seq(ProcsOn(h))
        /\ \A g \in Hosts \ {h} : rq'[g] = rq[g]
        /\ x \in Procs /\ x \in ProcsOn(h)
        /\ Len(rq[h]) \in Nat \ {0} /\ Len(rq'[h]) = Len(rq[h]) - 1
        /\ \A E : CountIn(rq'[h], E) = CountIn(rq[h], E) - (IF x \in E THEN 1 ELSE 0)
    <2>1. rq[h] \in Seq(Procs) /\ rq[h] \in Seq(ProcsOn(h))
      BY <1>1
    <2>2. rq'[h] = Tail(rq[h]) /\ \A g \in Hosts \ {h} : rq'[g] = rq[g]
      BY <1>1
    <2>3. rq' \in [Hosts -> Seq(Procs)]
      BY <1>1, <2>1, Pop
    <2> QED
      BY <1>1, <2>1, <2>2, <2>3, Pop
  <1>3. Host[x] = h
    BY <1>2 DEF ProcsOn
  <1> HIDE DEF x
  <1>4. ASSUME NEW g \in Hosts
        PROVE  RqLen(g)' = RqLen(g) - (IF g = h THEN 1 ELSE 0)
    <2>1. RqLen(g) \in Nat
      BY HostNumbers
    <2>2. CASE g = h
      BY <1>2, <2>1, <2>2 DEF RqLen
    <2>3. CASE g # h
      <3>1. RqLen(g)' = RqLen(g)
        BY <1>2, <2>3 DEF RqLen
      <3> QED
        BY <2>1, <2>3, <3>1
    <2> QED
      BY <2>2, <2>3
  <1>5. ASSUME NEW q \in Procs
        PROVE  RqOf(q)' = RqOf(q) - (IF q = x THEN 1 ELSE 0)
    <2>1. RqOf(q) \in Nat /\ Host[q] \in Hosts
      BY ProcNumbers
    <2>2. CASE Host[q] = h
      BY <1>2, <2>1, <2>2 DEF RqOf
    <2>3. CASE Host[q] # h
      <3>1. RqOf(q)' = RqOf(q)
        BY <1>2, <2>1, <2>3 DEF RqOf
      <3> QED
        BY <1>3, <2>1, <2>3, <3>1
    <2> QED
      BY <2>2, <2>3
  <1>6. \A g \in Hosts : rq'[g] \in Seq(ProcsOn(g))
    BY <1>1, <1>2
  <1> QED
    BY <1>2, <1>3, <1>4, <1>5, <1>6 DEF x, RqLen

LEMMA RqPush ==
  ASSUME Types, NEW p \in Procs, NEW h, h = Host[p],
         rq' = [rq EXCEPT ![h] = Append(rq[h], p)]
  PROVE  /\ rq' \in [Hosts -> Seq(Procs)] /\ \A g \in Hosts : rq'[g] \in Seq(ProcsOn(g))
         /\ \A g \in Hosts : RqLen(g)' = RqLen(g) + (IF g = h THEN 1 ELSE 0)
         /\ \A q \in Procs : RqOf(q)' = RqOf(q) + (IF q = p THEN 1 ELSE 0)
  <1>1. rq \in [Hosts -> Seq(Procs)] /\ \A g \in Hosts : rq[g] \in Seq(ProcsOn(g))
    BY DEF Types
  <1>2. h \in Hosts /\ p \in ProcsOn(h)
    BY DataPathAssumption DEF ProcsOn
  <1>3. /\ rq' \in [Hosts -> Seq(Procs)] /\ rq'[h] \in Seq(ProcsOn(h))
        /\ \A g \in Hosts \ {h} : rq'[g] = rq[g]
        /\ Len(rq'[h]) = Len(rq[h]) + 1
        /\ \A E : CountIn(rq'[h], E) = CountIn(rq[h], E) + (IF p \in E THEN 1 ELSE 0)
    <2>1. rq[h] \in Seq(Procs) /\ rq[h] \in Seq(ProcsOn(h))
      BY <1>1, <1>2
    <2>2. rq'[h] = Append(rq[h], p) /\ \A g \in Hosts \ {h} : rq'[g] = rq[g]
      BY <1>1, <1>2
    <2>3. rq' \in [Hosts -> Seq(Procs)]
      BY <1>1, <1>2, <2>1, Push
    <2>4. Append(rq[h], p) \in Seq(ProcsOn(h))
      BY <1>1, <1>2, <2>1, Push
    <2>5. /\ Len(Append(rq[h], p)) = Len(rq[h]) + 1
          /\ \A E : CountIn(Append(rq[h], p), E)
                      = CountIn(rq[h], E) + (IF p \in E THEN 1 ELSE 0)
      BY <1>1, <1>2, <2>1, Push
    <2> QED
      BY <2>2, <2>3, <2>4, <2>5
  <1>4. ASSUME NEW g \in Hosts
        PROVE  RqLen(g)' = RqLen(g) + (IF g = h THEN 1 ELSE 0)
    <2>1. RqLen(g) \in Nat
      BY HostNumbers
    <2>2. CASE g = h
      BY <1>3, <2>1, <2>2 DEF RqLen
    <2>3. CASE g # h
      <3>1. RqLen(g)' = RqLen(g)
        BY <1>3, <2>3 DEF RqLen
      <3> QED
        BY <2>1, <2>3, <3>1
    <2> QED
      BY <2>2, <2>3
  <1>5. ASSUME NEW q \in Procs
        PROVE  RqOf(q)' = RqOf(q) + (IF q = p THEN 1 ELSE 0)
    <2>1. RqOf(q) \in Nat /\ Host[q] \in Hosts
      BY ProcNumbers
    <2>2. CASE Host[q] = h
      BY <1>3, <2>1, <2>2 DEF RqOf
    <2>3. CASE Host[q] # h
      <3>1. RqOf(q)' = RqOf(q)
        BY <1>3, <2>1, <2>3 DEF RqOf
      <3> QED
        BY <2>1, <2>3, <3>1
    <2> QED
      BY <2>2, <2>3
  <1> QED
    BY <1>1, <1>3, <1>4, <1>5

\* The oldest send of the sender is completed, or a send arrives.
LEMMA AckedPop ==
  ASSUME Types, NEW h \in Hosts, acked[h] # <<>>, acked' = [acked EXCEPT ![h] = Tail(acked[h])]
  PROVE  /\ acked' \in [Hosts -> Seq(Procs)] /\ \A g \in Hosts : acked'[g] \in Seq(ProcsOn(g))
         /\ Head(acked[h]) \in Procs /\ Host[Head(acked[h])] = h
         /\ AckedLen(h) > 0
         /\ \A g \in Hosts : AckedLen(g)' = AckedLen(g) - (IF g = h THEN 1 ELSE 0)
         /\ \A q \in Procs : AckedOf(q)' = AckedOf(q) - (IF q = Head(acked[h]) THEN 1 ELSE 0)
  <1> DEFINE x == Head(acked[h])
  <1>1. acked \in [Hosts -> Seq(Procs)] /\ \A g \in Hosts : acked[g] \in Seq(ProcsOn(g))
    BY DEF Types
  <1>2. /\ acked' \in [Hosts -> Seq(Procs)] /\ acked'[h] \in Seq(ProcsOn(h))
        /\ \A g \in Hosts \ {h} : acked'[g] = acked[g]
        /\ x \in Procs /\ x \in ProcsOn(h)
        /\ Len(acked[h]) \in Nat \ {0} /\ Len(acked'[h]) = Len(acked[h]) - 1
        /\ \A E : CountIn(acked'[h], E) = CountIn(acked[h], E) - (IF x \in E THEN 1 ELSE 0)
    <2>1. acked[h] \in Seq(Procs) /\ acked[h] \in Seq(ProcsOn(h))
      BY <1>1
    <2>2. acked'[h] = Tail(acked[h]) /\ \A g \in Hosts \ {h} : acked'[g] = acked[g]
      BY <1>1
    <2>3. acked' \in [Hosts -> Seq(Procs)]
      BY <1>1, <2>1, Pop
    <2> QED
      BY <1>1, <2>1, <2>2, <2>3, Pop
  <1>3. Host[x] = h
    BY <1>2 DEF ProcsOn
  <1> HIDE DEF x
  <1>4. ASSUME NEW g \in Hosts
        PROVE  AckedLen(g)' = AckedLen(g) - (IF g = h THEN 1 ELSE 0)
    <2>1. AckedLen(g) \in Nat
      BY HostNumbers
    <2>2. CASE g = h
      BY <1>2, <2>1, <2>2 DEF AckedLen
    <2>3. CASE g # h
      <3>1. AckedLen(g)' = AckedLen(g)
        BY <1>2, <2>3 DEF AckedLen
      <3> QED
        BY <2>1, <2>3, <3>1
    <2> QED
      BY <2>2, <2>3
  <1>5. ASSUME NEW q \in Procs
        PROVE  AckedOf(q)' = AckedOf(q) - (IF q = x THEN 1 ELSE 0)
    <2>1. AckedOf(q) \in Nat /\ Host[q] \in Hosts
      BY ProcNumbers
    <2>2. CASE Host[q] = h
      BY <1>2, <2>1, <2>2 DEF AckedOf
    <2>3. CASE Host[q] # h
      <3>1. AckedOf(q)' = AckedOf(q)
        BY <1>2, <2>1, <2>3 DEF AckedOf
      <3> QED
        BY <1>3, <2>1, <2>3, <3>1
    <2> QED
      BY <2>2, <2>3
  <1>6. \A g \in Hosts : acked'[g] \in Seq(ProcsOn(g))
    BY <1>1, <1>2
  <1> QED
    BY <1>2, <1>3, <1>4, <1>5, <1>6 DEF x, AckedLen

LEMMA AckedPush ==
  ASSUME Types, NEW p \in Procs, NEW h, h = Host[p],
         acked' = [acked EXCEPT ![h] = Append(acked[h], p)]
  PROVE  /\ acked' \in [Hosts -> Seq(Procs)] /\ \A g \in Hosts : acked'[g] \in Seq(ProcsOn(g))
         /\ \A g \in Hosts : AckedLen(g)' = AckedLen(g) + (IF g = h THEN 1 ELSE 0)
         /\ \A q \in Procs : AckedOf(q)' = AckedOf(q) + (IF q = p THEN 1 ELSE 0)
  <1>1. acked \in [Hosts -> Seq(Procs)] /\ \A g \in Hosts : acked[g] \in Seq(ProcsOn(g))
    BY DEF Types
  <1>2. h \in Hosts /\ p \in ProcsOn(h)
    BY DataPathAssumption DEF ProcsOn
  <1>3. /\ acked' \in [Hosts -> Seq(Procs)] /\ acked'[h] \in Seq(ProcsOn(h))
        /\ \A g \in Hosts \ {h} : acked'[g] = acked[g]
        /\ Len(acked'[h]) = Len(acked[h]) + 1
        /\ \A E : CountIn(acked'[h], E) = CountIn(acked[h], E) + (IF p \in E THEN 1 ELSE 0)
    <2>1. acked[h] \in Seq(Procs) /\ acked[h] \in Seq(ProcsOn(h))
      BY <1>1, <1>2
    <2>2. acked'[h] = Append(acked[h], p) /\ \A g \in Hosts \ {h} : acked'[g] = acked[g]
      BY <1>1, <1>2
    <2>3. acked' \in [Hosts -> Seq(Procs)]
      BY <1>1, <1>2, <2>1, Push
    <2>4. Append(acked[h], p) \in Seq(ProcsOn(h))
      BY <1>1, <1>2, <2>1, Push
    <2>5. /\ Len(Append(acked[h], p)) = Len(acked[h]) + 1
          /\ \A E : CountIn(Append(acked[h], p), E)
                      = CountIn(acked[h], E) + (IF p \in E THEN 1 ELSE 0)
      BY <1>1, <1>2, <2>1, Push
    <2> QED
      BY <2>2, <2>3, <2>4, <2>5
  <1>4. ASSUME NEW g \in Hosts
        PROVE  AckedLen(g)' = AckedLen(g) + (IF g = h THEN 1 ELSE 0)
    <2>1. AckedLen(g) \in Nat
      BY HostNumbers
    <2>2. CASE g = h
      BY <1>3, <2>1, <2>2 DEF AckedLen
    <2>3. CASE g # h
      <3>1. AckedLen(g)' = AckedLen(g)
        BY <1>3, <2>3 DEF AckedLen
      <3> QED
        BY <2>1, <2>3, <3>1
    <2> QED
      BY <2>2, <2>3
  <1>5. ASSUME NEW q \in Procs
        PROVE  AckedOf(q)' = AckedOf(q) + (IF q = p THEN 1 ELSE 0)
    <2>1. AckedOf(q) \in Nat /\ Host[q] \in Hosts
      BY ProcNumbers
    <2>2. CASE Host[q] = h
      BY <1>3, <2>1, <2>2 DEF AckedOf
    <2>3. CASE Host[q] # h
      <3>1. AckedOf(q)' = AckedOf(q)
        BY <1>3, <2>1, <2>3 DEF AckedOf
      <3> QED
        BY <2>1, <2>3, <3>1
    <2> QED
      BY <2>2, <2>3
  <1> QED
    BY <1>1, <1>3, <1>4, <1>5

\* The oldest completion of a host is polled.
LEMMA CqPop ==
  ASSUME Types, NEW h \in Hosts, cq[h] # <<>>, cq' = [cq EXCEPT ![h] = Tail(cq[h])]
  PROVE  /\ cq' \in [Hosts -> Seq(Wc)] /\ Head(cq[h]) \in Wc
         /\ CqLen(h) > 0
         /\ \A g \in Hosts : /\ CqLen(g)' = CqLen(g) - (IF g = h THEN 1 ELSE 0)
                             /\ SqWcs(g)' \in Nat /\ SqWcs(g)' <= SqWcs(g)
                             /\ RqWcs(g)' \in Nat /\ RqWcs(g)' <= RqWcs(g)
         /\ \A q \in Procs :
              /\ CqOf(q)' \in Nat
              /\ CqOf(q)' = CqOf(q) -
                   (IF Host[q] = h /\ q = Head(cq[h]).proc THEN 1 ELSE 0)
  <1> DEFINE wc == Head(cq[h])
  <1>1. cq \in [Hosts -> Seq(Wc)] /\ cq[h] \in Seq(Wc)
    BY DEF Types
  <1>2. /\ cq' \in [Hosts -> Seq(Wc)]
        /\ \A g \in Hosts \ {h} : cq'[g] = cq[g]
        /\ wc \in Wc
        /\ Len(cq[h]) \in Nat \ {0} /\ Len(cq'[h]) = Len(cq[h]) - 1
        /\ \A E : CountIn(cq'[h], E) = CountIn(cq[h], E) - (IF wc \in E THEN 1 ELSE 0)
    <2>1. cq[h] \in Seq(Wc)
      BY <1>1
    <2>2. cq'[h] = Tail(cq[h]) /\ \A g \in Hosts \ {h} : cq'[g] = cq[g]
      BY <1>1
    <2>3. cq' \in [Hosts -> Seq(Wc)]
      BY <1>1, <2>1, Pop
    <2> QED
      BY <1>1, <2>1, <2>2, <2>3, Pop
  <1>3. \A q : wc \in WcOf(q) <=> wc.proc = q
    BY <1>2 DEF WcOf
  <1>4. \A g \in Hosts : \A E : CountIn(cq'[g], E) \in Nat
    BY <1>2, QueueNat
  <1> HIDE DEF wc
  <1>5. ASSUME NEW g \in Hosts
        PROVE  /\ CqLen(g)' = CqLen(g) - (IF g = h THEN 1 ELSE 0)
               /\ SqWcs(g)' \in Nat /\ SqWcs(g)' <= SqWcs(g)
               /\ RqWcs(g)' \in Nat /\ RqWcs(g)' <= RqWcs(g)
    <2>1. /\ CqLen(g) \in Nat /\ SqWcs(g) \in Nat /\ RqWcs(g) \in Nat
          /\ SqWcs(g)' \in Nat /\ RqWcs(g)' \in Nat
      BY <1>4, HostNumbers DEF SqWcs, RqWcs
    <2>2. CASE g = h
      <3>1. CqLen(g)' = CqLen(g) - 1
        BY <1>2, <2>2 DEF CqLen
      <3>2. SqWcs(g)' = SqWcs(g) - (IF wc \in WcIn("sq") THEN 1 ELSE 0)
        BY <1>2, <2>2 DEF SqWcs
      <3>3. RqWcs(g)' = RqWcs(g) - (IF wc \in WcIn("rq") THEN 1 ELSE 0)
        BY <1>2, <2>2 DEF RqWcs
      <3> QED
        BY <2>1, <2>2, <3>1, <3>2, <3>3
    <2>3. CASE g # h
      <3>1. CqLen(g)' = CqLen(g) /\ SqWcs(g)' = SqWcs(g) /\ RqWcs(g)' = RqWcs(g)
        BY <1>2, <2>3 DEF CqLen, SqWcs, RqWcs
      <3> QED
        BY <2>1, <2>3, <3>1
    <2> QED
      BY <2>2, <2>3
  <1>6. ASSUME NEW q \in Procs
        PROVE  /\ CqOf(q)' \in Nat
               /\ CqOf(q)' = CqOf(q) - (IF Host[q] = h /\ q = wc.proc THEN 1 ELSE 0)
    <2>1. CqOf(q) \in Nat /\ Host[q] \in Hosts
      BY ProcNumbers
    <2>2. CqOf(q)' \in Nat
      BY <1>4, <2>1 DEF CqOf
    <2>3. CASE Host[q] = h
      BY <1>2, <1>3, <2>1, <2>2, <2>3 DEF CqOf
    <2>4. CASE Host[q] # h
      <3>1. CqOf(q)' = CqOf(q)
        BY <1>2, <2>1, <2>4 DEF CqOf
      <3> QED
        BY <2>1, <2>4, <3>1
    <2> QED
      BY <2>2, <2>3, <2>4
  <1> QED
    BY <1>2, <1>5, <1>6 DEF wc, CqLen

\* A completion adds at most one entry to the queue of its host, of its process
\* and work queue; no queue exceeds its size.  It adds just one, and breaks no QP
\* unless it is an error, but for a queue that overflows for want of a place.
LEMMA CompleteAdds ==
  ASSUME Types, RoomInv, NEW p \in Procs, NEW wq \in {"sq", "rq"}, NEW ok \in BOOLEAN,
         Complete(p, wq, ok)
  PROVE  /\ cq' \in [Hosts -> Seq(Wc)] /\ err' \subseteq Hosts
         /\ \A g \in Hosts :
              /\ CqLen(g)' \in Nat /\ CqLen(g)' <= CqSize
              /\ SqWcs(g)' \in Nat
              /\ SqWcs(g)' <= SqWcs(g) + (IF g = Host[p] /\ wq = "sq" THEN 1 ELSE 0)
              /\ RqWcs(g)' \in Nat
              /\ RqWcs(g)' <= RqWcs(g) + (IF g = Host[p] /\ wq = "rq" THEN 1 ELSE 0)
         /\ \A q \in Procs : /\ CqOf(q)' \in Nat
                             /\ CqOf(q)' <= CqOf(q) + (IF q = p THEN 1 ELSE 0)
         /\ overran \subseteq overran' /\ overran' \subseteq Hosts
         /\ ~Overruns(Host[p]) => overran' = overran
         /\ \A g \in Hosts \ overran' :
              CqLen(g)' = CqLen(g) + (IF g = Host[p] THEN 1 ELSE 0)
         /\ overran' = {} /\ ok => err' = err
  <1> DEFINE h == Host[p]
  <1> DEFINE wc == [proc |-> p, wq |-> wq, ok |-> ok]
  <1>1. /\ h \in Hosts /\ cq \in [Hosts -> Seq(Wc)]
        /\ err \subseteq Hosts /\ overran \subseteq Hosts
    BY DataPathAssumption DEF Types
  <1>2. ASSUME NEW g \in Hosts
        PROVE  /\ CqLen(g) \in Nat /\ SqWcs(g) \in Nat /\ RqWcs(g) \in Nat
               /\ CqLen(g) <= CqSize /\ CqSize \in Nat
    BY HostNumbers, Sizes DEF RoomInv
  <1>3. ASSUME NEW q \in Procs PROVE CqOf(q) \in Nat /\ Host[q] \in Hosts
    BY ProcNumbers
  <1>4. CASE Overruns(h)
    <2>1. UNCHANGED cq /\ err' \subseteq Hosts /\ overran' = overran \cup {h}
      BY <1>1, <1>4 DEF Complete
    <2>2. /\ \A g \in Hosts : /\ CqLen(g)' = CqLen(g)
                              /\ SqWcs(g)' = SqWcs(g) /\ RqWcs(g)' = RqWcs(g)
          /\ \A q \in Procs : CqOf(q)' = CqOf(q)
      BY <2>1, Stays
    <2>3. cq' \in [Hosts -> Seq(Wc)]
      BY <1>1, <2>1
    <2> HIDE DEF h, wc
    <2>4. overran \subseteq overran' /\ overran' \subseteq Hosts /\ h \in overran'
      BY <1>1, <2>1
    <2>5. \A g \in Hosts \ overran' : CqLen(g)' = CqLen(g) + (IF g = h THEN 1 ELSE 0)
      BY <1>2, <2>2, <2>4
    <2> QED
      BY <1>2, <1>3, <1>4, <2>1, <2>2, <2>3, <2>4, <2>5 DEF h
  <1>5. CASE ~Overruns(h)
    <2>1. /\ cq' = [cq EXCEPT ![h] = Append(cq[h], wc)] /\ err' \subseteq Hosts
          /\ overran' = overran /\ (ok => err' = err)
      BY <1>1, <1>5 DEF Complete
    <2>2. wc \in Wc
      BY DEF Wc
    <2>3. /\ \A w \in {"sq", "rq"} : wc \in WcIn(w) => w = wq
          /\ \A q \in Procs : wc \in WcOf(q) => q = p
      BY DEF WcIn, WcOf
    <2>4. CqLen(h) < CqSize
      BY <1>1, <1>2, <1>5 DEF Overruns, CqLen
    <2> HIDE DEF wc, h
    <2>5. /\ cq' \in [Hosts -> Seq(Wc)]
          /\ \A g \in Hosts \ {h} : cq'[g] = cq[g]
          /\ Len(cq'[h]) = Len(cq[h]) + 1
          /\ \A E : CountIn(cq'[h], E) = CountIn(cq[h], E) + (IF wc \in E THEN 1 ELSE 0)
      <3>1. cq[h] \in Seq(Wc)
        BY <1>1, <2>1, <2>2
      <3>2. cq'[h] = Append(cq[h], wc) /\ \A g \in Hosts \ {h} : cq'[g] = cq[g]
        BY <1>1, <2>1, <2>2
      <3>3. cq' \in [Hosts -> Seq(Wc)]
        BY <1>1, <2>1, <2>2, <3>1, Push
      <3> QED
        BY <1>1, <2>1, <2>2, <3>1, <3>2, <3>3, Push
    <2>6. \A g \in Hosts : \A E : CountIn(cq'[g], E) \in Nat
      BY <2>5, QueueNat
    <2>7. ASSUME NEW g \in Hosts
          PROVE  /\ CqLen(g)' = CqLen(g) + (IF g = h THEN 1 ELSE 0)
                 /\ CqLen(g)' \in Nat /\ CqLen(g)' <= CqSize
                 /\ SqWcs(g)' \in Nat
                 /\ SqWcs(g)' <= SqWcs(g) + (IF g = h /\ wq = "sq" THEN 1 ELSE 0)
                 /\ RqWcs(g)' \in Nat
                 /\ RqWcs(g)' <= RqWcs(g) + (IF g = h /\ wq = "rq" THEN 1 ELSE 0)
      <3>1. SqWcs(g)' \in Nat /\ RqWcs(g)' \in Nat
        BY <2>6 DEF SqWcs, RqWcs
      <3>2. CASE g = h
        <4>1. CqLen(g)' = CqLen(g) + 1
          BY <2>5, <3>2 DEF CqLen
        <4>2. SqWcs(g)' = SqWcs(g) + (IF wc \in WcIn("sq") THEN 1 ELSE 0)
          BY <2>5, <3>2 DEF SqWcs
        <4>3. RqWcs(g)' = RqWcs(g) + (IF wc \in WcIn("rq") THEN 1 ELSE 0)
          BY <2>5, <3>2 DEF RqWcs
        <4> QED
          BY <1>2, <2>3, <2>4, <3>1, <3>2, <4>1, <4>2, <4>3
      <3>3. CASE g # h
        <4>1. CqLen(g)' = CqLen(g) /\ SqWcs(g)' = SqWcs(g) /\ RqWcs(g)' = RqWcs(g)
          BY <2>5, <3>3 DEF CqLen, SqWcs, RqWcs
        <4> QED
          BY <1>2, <3>3, <4>1
      <3> QED
        BY <3>2, <3>3
    <2>8. ASSUME NEW q \in Procs
          PROVE  CqOf(q)' \in Nat /\ CqOf(q)' <= CqOf(q) + (IF q = p THEN 1 ELSE 0)
      <3>1. CqOf(q)' \in Nat
        BY <1>3, <2>6 DEF CqOf
      <3>2. CASE Host[q] = h
        <4>1. CqOf(q)' = CqOf(q) + (IF wc \in WcOf(q) THEN 1 ELSE 0)
          BY <2>5, <3>2 DEF CqOf
        <4> QED
          BY <1>3, <2>3, <3>1, <4>1
      <3>3. CASE Host[q] # h
        <4>1. CqOf(q)' = CqOf(q)
          BY <1>3, <2>5, <3>3 DEF CqOf
        <4> QED
          BY <1>3, <4>1
      <3> QED
        BY <3>2, <3>3
    <2> QED
      BY <1>1, <2>1, <2>5, <2>7, <2>8 DEF h
  <1> QED
    BY <1>4, <1>5

\* The completion of a send.
LEMMA SqCompletes ==
  ASSUME Types, RoomInv, NEW p \in Procs, NEW ok \in BOOLEAN, Complete(p, "sq", ok)
  PROVE  /\ cq' \in [Hosts -> Seq(Wc)] /\ err' \subseteq Hosts
         /\ \A g \in Hosts : /\ CqLen(g)' \in Nat /\ CqLen(g)' <= CqSize
                             /\ SqWcs(g)' \in Nat /\ RqWcs(g)' \in Nat
                             /\ SqWcs(g)' <= SqWcs(g) + (IF g = Host[p] THEN 1 ELSE 0)
                             /\ RqWcs(g)' <= RqWcs(g)
         /\ \A q \in Procs : /\ CqOf(q)' \in Nat
                             /\ CqOf(q)' <= CqOf(q) + (IF q = p THEN 1 ELSE 0)
         /\ overran \subseteq overran' /\ overran' \subseteq Hosts
         /\ ~Overruns(Host[p]) => overran' = overran
         /\ \A g \in Hosts \ overran' :
              CqLen(g)' = CqLen(g) + (IF g = Host[p] THEN 1 ELSE 0)
         /\ overran' = {} /\ ok => err' = err
  <1>1. "sq" \in {"sq", "rq"}
    OBVIOUS
  <1>2. /\ cq' \in [Hosts -> Seq(Wc)] /\ err' \subseteq Hosts
        /\ \A g \in Hosts :
             /\ CqLen(g)' \in Nat /\ CqLen(g)' <= CqSize
             /\ SqWcs(g)' \in Nat
             /\ SqWcs(g)' <= SqWcs(g) + (IF g = Host[p] /\ "sq" = "sq" THEN 1 ELSE 0)
             /\ RqWcs(g)' \in Nat
             /\ RqWcs(g)' <= RqWcs(g) + (IF g = Host[p] /\ "sq" = "rq" THEN 1 ELSE 0)
        /\ \A q \in Procs : /\ CqOf(q)' \in Nat
                            /\ CqOf(q)' <= CqOf(q) + (IF q = p THEN 1 ELSE 0)
        /\ overran \subseteq overran' /\ overran' \subseteq Hosts
        /\ ~Overruns(Host[p]) => overran' = overran
        /\ \A g \in Hosts \ overran' :
             CqLen(g)' = CqLen(g) + (IF g = Host[p] THEN 1 ELSE 0)
        /\ overran' = {} /\ ok => err' = err
    BY <1>1, CompleteAdds, Zenon
  <1>3. \A g \in Hosts : SqWcs(g) \in Nat /\ RqWcs(g) \in Nat
    BY HostNumbers
  <1> QED
    BY <1>2, <1>3

\* The completion of a receive.
LEMMA RqCompletes ==
  ASSUME Types, RoomInv, NEW p \in Procs, NEW ok \in BOOLEAN, Complete(p, "rq", ok)
  PROVE  /\ cq' \in [Hosts -> Seq(Wc)] /\ err' \subseteq Hosts
         /\ \A g \in Hosts : /\ CqLen(g)' \in Nat /\ CqLen(g)' <= CqSize
                             /\ SqWcs(g)' \in Nat /\ RqWcs(g)' \in Nat
                             /\ RqWcs(g)' <= RqWcs(g) + (IF g = Host[p] THEN 1 ELSE 0)
                             /\ SqWcs(g)' <= SqWcs(g)
         /\ \A q \in Procs : /\ CqOf(q)' \in Nat
                             /\ CqOf(q)' <= CqOf(q) + (IF q = p THEN 1 ELSE 0)
         /\ overran \subseteq overran' /\ overran' \subseteq Hosts
         /\ ~Overruns(Host[p]) => overran' = overran
         /\ \A g \in Hosts \ overran' :
              CqLen(g)' = CqLen(g) + (IF g = Host[p] THEN 1 ELSE 0)
         /\ overran' = {} /\ ok => err' = err
  <1>1. "rq" \in {"sq", "rq"}
    OBVIOUS
  <1>2. /\ cq' \in [Hosts -> Seq(Wc)] /\ err' \subseteq Hosts
        /\ \A g \in Hosts :
             /\ CqLen(g)' \in Nat /\ CqLen(g)' <= CqSize
             /\ SqWcs(g)' \in Nat
             /\ SqWcs(g)' <= SqWcs(g) + (IF g = Host[p] /\ "rq" = "sq" THEN 1 ELSE 0)
             /\ RqWcs(g)' \in Nat
             /\ RqWcs(g)' <= RqWcs(g) + (IF g = Host[p] /\ "rq" = "rq" THEN 1 ELSE 0)
        /\ \A q \in Procs : /\ CqOf(q)' \in Nat
                            /\ CqOf(q)' <= CqOf(q) + (IF q = p THEN 1 ELSE 0)
        /\ overran \subseteq overran' /\ overran' \subseteq Hosts
        /\ ~Overruns(Host[p]) => overran' = overran
        /\ \A g \in Hosts \ overran' :
             CqLen(g)' = CqLen(g) + (IF g = Host[p] THEN 1 ELSE 0)
        /\ overran' = {} /\ ok => err' = err
    BY <1>1, CompleteAdds, Zenon
  <1>3. \A g \in Hosts : SqWcs(g) \in Nat /\ RqWcs(g) \in Nat
    BY HostNumbers
  <1> QED
    BY <1>2, <1>3

\* What posts look at is what RoomInv bounds; a completion is of one of the two
\* work queues.
LEMMA UsedCounts ==
  ASSUME Types, NEW h \in Hosts
  PROVE  /\ SqUsed(h) = SqLen(h) + AckedLen(h) + SqWcs(h)
         /\ RqUsed(h) = RqLen(h) + RqWcs(h)
         /\ CqLen(h) = SqWcs(h) + RqWcs(h)
  <1>1. cq[h] \in Seq(Wc)
    BY DEF Types
  <1>2. DOMAIN cq[h] = 1 .. Len(cq[h]) /\ \A i \in 1 .. Len(cq[h]) : cq[h][i] \in Wc
    BY <1>1, LenProperties, ElementOfSeq
  <1>3. \A wq : {i \in DOMAIN cq[h] : cq[h][i].wq = wq}
                  = {i \in 1 .. Len(cq[h]) : cq[h][i] \in WcIn(wq)}
    BY <1>2 DEF WcIn
  <1>4. \A wq : Unpolled(h, wq) = CountIn(cq[h], WcIn(wq))
    BY <1>3 DEF Unpolled, CountIn
  <1>5. \A wc \in Wc : wc \in WcIn("sq") <=> wc \notin WcIn("rq")
    BY DEF Wc, WcIn
  <1>6. CountIn(cq[h], WcIn("sq")) + CountIn(cq[h], WcIn("rq")) = Len(cq[h])
    BY <1>1, <1>5, CountSplit
  <1> QED
    BY <1>4, <1>6 DEF SqUsed, RqUsed, SqLen, AckedLen, RqLen, CqLen, SqWcs, RqWcs

-----------------------------------------------------------------------------
(* Queues and requests of a process: the initial state and the actions.     *)

\* Every queue is empty.
LEMMA BaseInit == Init => BaseInv
  <1> SUFFICES ASSUME Init PROVE BaseInv
    OBVIOUS
  <1>1. \A S : <<>> \in Seq(S) /\ Len(<<>>) = 0
    BY EmptySeq
  <1>2. Types
    BY <1>1, DataPathAssumption DEF Init, Types
  <1>3. ASSUME NEW p \in Procs
        PROVE  Own(p) <= Outstanding(p) /\ Outstanding(p) <= MaxOut
    <2>1. Host[p] \in Hosts
      BY DataPathAssumption
    <2>2. SqOf(p) = 0 /\ RqOf(p) = 0 /\ AckedOf(p) = 0 /\ CqOf(p) = 0
      BY <2>1, CountEmpty DEF Init, SqOf, RqOf, AckedOf, CqOf
    <2>3. Outstanding(p) = 0
      BY DEF Init, Outstanding
    <2> QED
      BY <2>2, <2>3, Sizes DEF Own
  <1>4. ASSUME NEW h \in Hosts
        PROVE  /\ SqLen(h) + AckedLen(h) + SqWcs(h) <= MaxWr
               /\ RqLen(h) + RqWcs(h) <= MaxWr /\ CqLen(h) <= CqSize
    <2>1. /\ SqLen(h) = 0 /\ AckedLen(h) = 0 /\ SqWcs(h) = 0
          /\ RqLen(h) = 0 /\ RqWcs(h) = 0 /\ CqLen(h) = 0
      BY <1>1, CountEmpty DEF Init, SqLen, AckedLen, SqWcs, RqLen, RqWcs, CqLen
    <2> QED
      BY <2>1, Sizes
  <1> QED
    BY <1>2, <1>3, <1>4 DEF BaseInv, OwnInv, RoomInv

\* One more post of one process.
LEMMA OneMore ==
  ASSUME Types, NEW p \in Procs, UNCHANGED got,
         \/ sends' = [sends EXCEPT ![p] = sends[p] + 1] /\ UNCHANGED recvs
         \/ recvs' = [recvs EXCEPT ![p] = recvs[p] + 1] /\ UNCHANGED sends
  PROVE  \A q \in Procs : Outstanding(q)' = Outstanding(q) + (IF q = p THEN 1 ELSE 0)
  <1> SUFFICES ASSUME NEW q \in Procs
               PROVE  Outstanding(q)' = Outstanding(q) + (IF q = p THEN 1 ELSE 0)
    OBVIOUS
  <1>1. sends[q] \in Nat /\ recvs[q] \in Nat /\ got[q] \in Nat
    BY ProcNumbers
  <1>2. CASE q = p
    <2>1. \/ sends'[q] = sends[q] + 1 /\ recvs'[q] = recvs[q]
          \/ recvs'[q] = recvs[q] + 1 /\ sends'[q] = sends[q]
      BY <1>2 DEF Types
    <2> QED
      BY <1>1, <1>2, <2>1 DEF Outstanding
  <1>3. CASE q # p
    <2>1. sends'[q] = sends[q] /\ recvs'[q] = recvs[q]
      BY <1>3 DEF Types
    <2> QED
      BY <1>1, <1>3, <2>1 DEF Outstanding
  <1> QED
    BY <1>2, <1>3

\* A request that is refused changes the queues and the counts of nobody.
LEMMA StuckBase ==
  ASSUME BaseInv, NEW p \in Procs, stuck' = [stuck EXCEPT ![p] = "post"],
         UNCHANGED <<sq, rq, acked, cq, err, overran, counts, got, uncalled, landed>>
  PROVE  BaseInv'
  <1>1. Types'
    BY DEF BaseInv, Types, counts
  <1>2. OwnInv'
    BY DEF BaseInv, OwnInv, Own, SqOf, RqOf, AckedOf, CqOf, Outstanding, counts
  <1>3. RoomInv'
    BY DEF BaseInv, RoomInv, SqLen, AckedLen, SqWcs, RqLen, RqWcs, CqLen
  <1> QED
    BY <1>1, <1>2, <1>3 DEF BaseInv

\* A post adds one request of its process, and one entry to a queue with room;
\* or it is refused and changes neither.
LEMMA PostSendBase ==
  ASSUME BaseInv, NEW p \in Procs, NEW op \in {"SEND", "RDMA"}, PostSend(p, op)
  PROVE  BaseInv'
  <1> DEFINE h == Host[p]
  <1>1. Types /\ h \in Hosts /\ RoomInv /\ OwnInv
    BY DataPathAssumption DEF BaseInv
  <1>2. CASE SqUsed(h) < MaxWr
    <2>1. /\ sq' = [sq EXCEPT ![h] = Append(sq[h], [proc |-> p, op |-> op])]
          /\ sends' = [sends EXCEPT ![p] = sends[p] + 1]
          /\ UNCHANGED <<rq, acked, cq, err, overran, recvs, got, landed, stuck>>
          /\ uncalled' \subseteq Procs
          /\ sends[p] < MaxPosts /\ Outstanding(p) < MaxOut
      BY <1>1, <1>2 DEF PostSend, Posted, MayPost, Types
    <2>2. /\ sq' \in [Hosts -> Seq(Wr)] /\ \A g \in Hosts : sq'[g] \in Seq(WrAt(g))
          /\ \A g \in Hosts : SqLen(g)' = SqLen(g) + (IF g = h THEN 1 ELSE 0)
          /\ \A q \in Procs : SqOf(q)' = SqOf(q) + (IF q = p THEN 1 ELSE 0)
      <3> DEFINE wr == [proc |-> p, op |-> op]
      <3>1. /\ wr \in Wr /\ wr.proc = p /\ h = Host[wr.proc]
            /\ sq' = [sq EXCEPT ![h] = Append(sq[h], wr)]
        BY <2>1 DEF Wr
      <3> HIDE DEF wr, h
      <3> QED
        BY <1>1, <3>1, SqPush
    <2> HIDE DEF h
    <2>3. Types'
      <3>1. sends \in [Procs -> 0 .. MaxPosts]
        BY <1>1 DEF Types
      <3>2. sends' \in [Procs -> 0 .. MaxPosts]
        BY <2>1, <3>1, CounterStep, Sizes
      <3> QED
        BY <1>1, <2>1, <2>2, <3>2 DEF Types
    <2>4. ASSUME NEW q \in Procs
          PROVE  Own(q)' <= Outstanding(q)' /\ Outstanding(q)' <= MaxOut
      <3>1. /\ Own(q) <= Outstanding(q) /\ Outstanding(q) <= MaxOut
            /\ Outstanding(q) \in Int /\ MaxOut \in Nat
            /\ SqOf(q) \in Nat /\ RqOf(q) \in Nat /\ AckedOf(q) \in Nat /\ CqOf(q) \in Nat
        BY <1>1, ProcNumbers, Sizes DEF OwnInv
      <3>2. Outstanding(q)' = Outstanding(q) + (IF q = p THEN 1 ELSE 0)
        BY <1>1, <2>1, OneMore DEF counts
      <3>3. RqOf(q)' = RqOf(q) /\ AckedOf(q)' = AckedOf(q) /\ CqOf(q)' = CqOf(q)
        BY <2>1, Stays
      <3> QED
        BY <2>1, <2>2, <3>1, <3>2, <3>3 DEF Own
    <2>5. ASSUME NEW g \in Hosts
          PROVE  /\ SqLen(g)' + AckedLen(g)' + SqWcs(g)' <= MaxWr
                 /\ RqLen(g)' + RqWcs(g)' <= MaxWr /\ CqLen(g)' <= CqSize
      <3>1. /\ SqLen(g) \in Nat /\ AckedLen(g) \in Nat /\ SqWcs(g) \in Nat
            /\ SqLen(g) + AckedLen(g) + SqWcs(g) <= MaxWr /\ MaxWr \in Nat
            /\ RqLen(g) + RqWcs(g) <= MaxWr /\ CqLen(g) <= CqSize
        BY <1>1, HostNumbers, Sizes DEF RoomInv
      <3>2. /\ RqLen(g)' = RqLen(g) /\ AckedLen(g)' = AckedLen(g) /\ CqLen(g)' = CqLen(g)
            /\ SqWcs(g)' = SqWcs(g) /\ RqWcs(g)' = RqWcs(g)
        BY <2>1, Stays
      <3>3. g = h => SqLen(g) + AckedLen(g) + SqWcs(g) < MaxWr
        BY <1>1, <1>2, UsedCounts
      <3> QED
        BY <2>2, <3>1, <3>2, <3>3
    <2> QED
      BY <2>3, <2>4, <2>5 DEF BaseInv, OwnInv, RoomInv
  <1>3. CASE ~(SqUsed(h) < MaxWr)
    <2>1. /\ stuck' = [stuck EXCEPT ![p] = "post"]
          /\ UNCHANGED <<sq, rq, acked, cq, err, overran, counts, got, uncalled, landed>>
      BY <1>3 DEF PostSend, counts
    <2> QED
      BY <1>1, <2>1, StuckBase
  <1> QED
    BY <1>2, <1>3

\* A receive likewise.
LEMMA PostRecvBase ==
  ASSUME BaseInv, NEW p \in Procs, PostRecv(p)
  PROVE  BaseInv'
  <1> DEFINE h == Host[p]
  <1>1. Types /\ h \in Hosts /\ RoomInv /\ OwnInv
    BY DataPathAssumption DEF BaseInv
  <1>2. CASE RqUsed(h) < MaxWr
    <2>1. /\ rq' = [rq EXCEPT ![h] = Append(rq[h], p)]
          /\ recvs' = [recvs EXCEPT ![p] = recvs[p] + 1]
          /\ UNCHANGED <<sq, acked, cq, err, overran, sends, got, uncalled, landed, stuck>>
          /\ recvs[p] < MaxPosts /\ Outstanding(p) < MaxOut
      BY <1>1, <1>2 DEF PostRecv, RecvPosted, MayPost
    <2>2. /\ rq' \in [Hosts -> Seq(Procs)] /\ \A g \in Hosts : rq'[g] \in Seq(ProcsOn(g))
          /\ \A g \in Hosts : RqLen(g)' = RqLen(g) + (IF g = h THEN 1 ELSE 0)
          /\ \A q \in Procs : RqOf(q)' = RqOf(q) + (IF q = p THEN 1 ELSE 0)
      BY <1>1, <2>1, RqPush
    <2> HIDE DEF h
    <2>3. Types'
      <3>1. recvs \in [Procs -> 0 .. MaxPosts]
        BY <1>1 DEF Types
      <3>2. recvs' \in [Procs -> 0 .. MaxPosts]
        BY <2>1, <3>1, CounterStep, Sizes
      <3> QED
        BY <1>1, <2>1, <2>2, <3>2 DEF Types
    <2>4. ASSUME NEW q \in Procs
          PROVE  Own(q)' <= Outstanding(q)' /\ Outstanding(q)' <= MaxOut
      <3>1. /\ Own(q) <= Outstanding(q) /\ Outstanding(q) <= MaxOut
            /\ Outstanding(q) \in Int /\ MaxOut \in Nat
            /\ SqOf(q) \in Nat /\ RqOf(q) \in Nat /\ AckedOf(q) \in Nat /\ CqOf(q) \in Nat
        BY <1>1, ProcNumbers, Sizes DEF OwnInv
      <3>2. Outstanding(q)' = Outstanding(q) + (IF q = p THEN 1 ELSE 0)
        BY <1>1, <2>1, OneMore DEF counts
      <3>3. SqOf(q)' = SqOf(q) /\ AckedOf(q)' = AckedOf(q) /\ CqOf(q)' = CqOf(q)
        BY <2>1, Stays
      <3>4. RqOf(q)' = RqOf(q) + (IF q = p THEN 1 ELSE 0)
        BY <2>2
      <3>5. Own(q) \in Nat /\ Own(q)' = Own(q) + (IF q = p THEN 1 ELSE 0)
        BY <3>1, <3>3, <3>4 DEF Own
      <3>6. q = p => Outstanding(q) < MaxOut
        BY <2>1
      <3> QED
        BY <3>1, <3>2, <3>5, <3>6
    <2>5. ASSUME NEW g \in Hosts
          PROVE  /\ SqLen(g)' + AckedLen(g)' + SqWcs(g)' <= MaxWr
                 /\ RqLen(g)' + RqWcs(g)' <= MaxWr /\ CqLen(g)' <= CqSize
      <3>1. /\ RqLen(g) \in Nat /\ RqWcs(g) \in Nat
            /\ SqLen(g) + AckedLen(g) + SqWcs(g) <= MaxWr /\ MaxWr \in Nat
            /\ RqLen(g) + RqWcs(g) <= MaxWr /\ CqLen(g) <= CqSize
        BY <1>1, HostNumbers, Sizes DEF RoomInv
      <3>2. /\ SqLen(g)' = SqLen(g) /\ AckedLen(g)' = AckedLen(g) /\ CqLen(g)' = CqLen(g)
            /\ SqWcs(g)' = SqWcs(g) /\ RqWcs(g)' = RqWcs(g)
        BY <2>1, Stays
      <3>3. g = h => RqLen(g) + RqWcs(g) < MaxWr
        BY <1>1, <1>2, UsedCounts
      <3> QED
        BY <2>2, <3>1, <3>2, <3>3
    <2> QED
      BY <2>3, <2>4, <2>5 DEF BaseInv, OwnInv, RoomInv
  <1>3. CASE ~(RqUsed(h) < MaxWr)
    <2>1. /\ stuck' = [stuck EXCEPT ![p] = "post"]
          /\ UNCHANGED <<sq, rq, acked, cq, err, overran, counts, got, uncalled, landed>>
      BY <1>3 DEF PostRecv, counts
    <2> QED
      BY <1>1, <2>1, StuckBase
  <1> QED
    BY <1>2, <1>3

\* A poll takes the oldest completion off the queue; only if it is the
\* process's own is the process handed one, and then the queues held it.
LEMMA PollCqBase ==
  ASSUME BaseInv, NEW p \in Procs, PollCq(p)
  PROVE  BaseInv'
  <1> DEFINE h == Host[p]
  <1>1. Types /\ h \in Hosts /\ RoomInv /\ OwnInv
    BY DataPathAssumption DEF BaseInv
  <1>2. /\ cq[h] # <<>> /\ cq' = [cq EXCEPT ![h] = Tail(cq[h])]
        /\ UNCHANGED <<sq, rq, acked, err, overran, sends, recvs, uncalled, landed>>
        /\ \/ /\ Head(cq[h]).proc = p
              /\ got' = [got EXCEPT ![p] = got[p] + 1] /\ UNCHANGED stuck
           \/ stuck' = [stuck EXCEPT ![p] = "poll"] /\ UNCHANGED got
    BY DEF PollCq, Polled, Accepted, counts
  <1>3. /\ cq' \in [Hosts -> Seq(Wc)]
        /\ \A g \in Hosts : /\ CqLen(g)' = CqLen(g) - (IF g = h THEN 1 ELSE 0)
                            /\ SqWcs(g)' \in Nat /\ SqWcs(g)' <= SqWcs(g)
                            /\ RqWcs(g)' \in Nat /\ RqWcs(g)' <= RqWcs(g)
        /\ \A q \in Procs :
             /\ CqOf(q)' \in Nat
             /\ CqOf(q)' = CqOf(q) - (IF Host[q] = h /\ q = Head(cq[h]).proc THEN 1 ELSE 0)
    BY <1>1, <1>2, CqPop
  <1>4. Host[p] = h
    OBVIOUS
  <1> HIDE DEF h
  <1>5. Types'
    <2>1. got' \in [Procs -> Nat]
      <3>1. got \in [Procs -> Nat] /\ got[p] + 1 \in Nat
        BY <1>1 DEF Types
      <3> QED
        BY <1>2, <3>1
    <2>2. stuck' \in [Procs -> {"no", "post", "poll"}]
      BY <1>1, <1>2 DEF Types
    <2> QED
      BY <1>1, <1>2, <1>3, <2>1, <2>2 DEF Types
  <1>6. ASSUME NEW q \in Procs
        PROVE  Own(q)' <= Outstanding(q)' /\ Outstanding(q)' <= MaxOut
    <2>1. /\ Own(q) <= Outstanding(q) /\ Outstanding(q) <= MaxOut
          /\ Outstanding(q) \in Int /\ MaxOut \in Nat
          /\ SqOf(q) \in Nat /\ RqOf(q) \in Nat /\ AckedOf(q) \in Nat /\ CqOf(q) \in Nat
      BY <1>1, ProcNumbers, Sizes DEF OwnInv
    <2>2. SqOf(q)' = SqOf(q) /\ RqOf(q)' = RqOf(q) /\ AckedOf(q)' = AckedOf(q)
      BY <1>2, Stays
    <2>3. CASE q = p /\ Head(cq[h]).proc = p /\ got' = [got EXCEPT ![p] = got[p] + 1]
      <3>1. Outstanding(q)' = Outstanding(q) - 1
        BY <1>1, <1>2, <2>3, ProcNumbers DEF Outstanding, Types
      <3>2. CqOf(q)' = CqOf(q) - 1
        BY <1>3, <1>4, <2>3
      <3> QED
        BY <2>1, <2>2, <3>1, <3>2 DEF Own
    <2>4. CASE got'[q] = got[q]
      <3>1. Outstanding(q)' = Outstanding(q)
        BY <1>2, <2>4 DEF Outstanding
      <3>2. CqOf(q)' \in Nat /\ CqOf(q)' <= CqOf(q)
        BY <1>3, <2>1
      <3> QED
        BY <2>1, <2>2, <3>1, <3>2 DEF Own
    <2>5. CASE Head(cq[h]).proc = p /\ got' = [got EXCEPT ![p] = got[p] + 1]
      <3>1. q # p => got'[q] = got[q]
        BY <1>1, <2>5 DEF Types
      <3> QED
        BY <2>3, <2>4, <2>5, <3>1
    <2>6. CASE UNCHANGED got
      BY <2>4, <2>6
    <2> QED
      BY <1>2, <2>5, <2>6
  <1>7. ASSUME NEW g \in Hosts
        PROVE  /\ SqLen(g)' + AckedLen(g)' + SqWcs(g)' <= MaxWr
               /\ RqLen(g)' + RqWcs(g)' <= MaxWr /\ CqLen(g)' <= CqSize
    <2>1. /\ SqLen(g) \in Nat /\ RqLen(g) \in Nat /\ AckedLen(g) \in Nat
          /\ CqLen(g) \in Nat /\ SqWcs(g) \in Nat /\ RqWcs(g) \in Nat
          /\ SqLen(g) + AckedLen(g) + SqWcs(g) <= MaxWr /\ MaxWr \in Nat
          /\ RqLen(g) + RqWcs(g) <= MaxWr /\ CqLen(g) <= CqSize /\ CqSize \in Nat
      BY <1>1, HostNumbers, Sizes DEF RoomInv
    <2>2. SqLen(g)' = SqLen(g) /\ RqLen(g)' = RqLen(g) /\ AckedLen(g)' = AckedLen(g)
      BY <1>2, Stays
    <2>3. /\ CqLen(g)' = CqLen(g) - (IF g = h THEN 1 ELSE 0)
          /\ SqWcs(g)' \in Nat /\ SqWcs(g)' <= SqWcs(g)
          /\ RqWcs(g)' \in Nat /\ RqWcs(g)' <= RqWcs(g)
      BY <1>3
    <2>4. /\ SqLen(g)' + AckedLen(g)' + SqWcs(g)' <= MaxWr
          /\ RqLen(g)' + RqWcs(g)' <= MaxWr
      BY <2>1, <2>2, <2>3
    <2>5. CqLen(g)' <= CqSize
      BY <2>1, <2>3
    <2> QED
      BY <2>4, <2>5
  <1> QED
    BY <1>5, <1>6, <1>7 DEF BaseInv, OwnInv, RoomInv

-----------------------------------------------------------------------------
(* Queues and requests of a process: the steps of the NICs.                 *)

\* A host that has requests in its queues has a place for a completion.
Spare == \A h \in Hosts : SqLen(h) + RqLen(h) + AckedLen(h) > 0 => CqLen(h) < CqSize

\* What a step of the NICs moves from one queue to another is the loss of no host
\* but one whose completion queue has overflowed, and none overflows that has a
\* place.
Accounted ==
  /\ overran \subseteq overran' /\ overran' \subseteq Hosts
  /\ \A g \in Hosts \ overran' : Queued(g)' = Queued(g)
  /\ Spare => overran' = overran

\* A step of the NICs is no request and no answer: what a process owns, and what
\* the queues have to have room for, does not grow.
LEMMA NicBase ==
  ASSUME BaseInv, Types', UNCHANGED <<counts, got>>,
         \A q \in Procs : Own(q)' \in Int /\ Own(q)' <= Own(q),
         \A g \in Hosts :
           /\ SqLen(g)' + AckedLen(g)' + SqWcs(g)' \in Int
           /\ SqLen(g)' + AckedLen(g)' + SqWcs(g)' <= SqLen(g) + AckedLen(g) + SqWcs(g)
           /\ RqLen(g)' + RqWcs(g)' \in Int
           /\ RqLen(g)' + RqWcs(g)' <= RqLen(g) + RqWcs(g)
           /\ CqLen(g)' <= CqSize
  PROVE  BaseInv'
  <1>1. ASSUME NEW q \in Procs
        PROVE  Own(q)' <= Outstanding(q)' /\ Outstanding(q)' <= MaxOut
    <2>1. Own(q) <= Outstanding(q) /\ Outstanding(q) <= MaxOut /\ Outstanding(q)' = Outstanding(q)
      BY DEF BaseInv, OwnInv, Outstanding, counts
    <2>2. Own(q) \in Int /\ Outstanding(q) \in Int
      BY ProcNumbers DEF BaseInv, Own
    <2> QED
      BY <2>1, <2>2
  <1>2. ASSUME NEW g \in Hosts
        PROVE  SqLen(g)' + AckedLen(g)' + SqWcs(g)' <= MaxWr /\ RqLen(g)' + RqWcs(g)' <= MaxWr
    <2> DEFINE a == SqLen(g)' + AckedLen(g)' + SqWcs(g)'
    <2> DEFINE b == RqLen(g)' + RqWcs(g)'
    <2>1. /\ SqLen(g) \in Nat /\ RqLen(g) \in Nat /\ AckedLen(g) \in Nat
          /\ SqWcs(g) \in Nat /\ RqWcs(g) \in Nat /\ MaxWr \in Nat
          /\ SqLen(g) + AckedLen(g) + SqWcs(g) <= MaxWr /\ RqLen(g) + RqWcs(g) <= MaxWr
      BY HostNumbers, Sizes DEF BaseInv, RoomInv
    <2>2. /\ a \in Int /\ a <= SqLen(g) + AckedLen(g) + SqWcs(g)
          /\ b \in Int /\ b <= RqLen(g) + RqWcs(g)
      OBVIOUS
    <2>3. SUFFICES a <= MaxWr /\ b <= MaxWr
      OBVIOUS
    <2> HIDE DEF a, b
    <2> QED
      BY <2>1, <2>2
  <1> QED
    BY <1>1, <1>2 DEF BaseInv, OwnInv, RoomInv

\* A send is acknowledged: its completion takes the place of the send.
LEMMA AckBase ==
  ASSUME BaseInv, NEW h \in Hosts, Ack(h)
  PROVE  /\ BaseInv'
         /\ Accounted /\ (overran' = {} => err' = err)
  <1> DEFINE x == Head(acked[h])
  <1>1. Types /\ RoomInv
    BY DEF BaseInv
  <1>2. /\ acked[h] # <<>> /\ acked' = [acked EXCEPT ![h] = Tail(acked[h])]
        /\ UNCHANGED <<sq, rq, sends, recvs, got, uncalled, landed, stuck>>
        /\ Complete(x, "sq", TRUE)
    BY DEF Ack, counts
  <1>3. /\ acked' \in [Hosts -> Seq(Procs)] /\ \A g \in Hosts : acked'[g] \in Seq(ProcsOn(g))
        /\ x \in Procs /\ Host[x] = h /\ AckedLen(h) > 0
        /\ \A g \in Hosts : AckedLen(g)' = AckedLen(g) - (IF g = h THEN 1 ELSE 0)
        /\ \A q \in Procs : AckedOf(q)' = AckedOf(q) - (IF q = x THEN 1 ELSE 0)
    BY <1>1, <1>2, AckedPop
  <1> HIDE DEF x
  <1>4. /\ cq' \in [Hosts -> Seq(Wc)] /\ err' \subseteq Hosts
        /\ \A g \in Hosts : /\ CqLen(g)' \in Nat /\ CqLen(g)' <= CqSize
                            /\ SqWcs(g)' \in Nat /\ RqWcs(g)' \in Nat
                            /\ SqWcs(g)' <= SqWcs(g) + (IF g = h THEN 1 ELSE 0)
                            /\ RqWcs(g)' <= RqWcs(g)
        /\ \A q \in Procs : /\ CqOf(q)' \in Nat
                            /\ CqOf(q)' <= CqOf(q) + (IF q = x THEN 1 ELSE 0)
        /\ overran \subseteq overran' /\ overran' \subseteq Hosts
        /\ ~Overruns(h) => overran' = overran
        /\ \A g \in Hosts \ overran' : CqLen(g)' = CqLen(g) + (IF g = h THEN 1 ELSE 0)
        /\ overran' = {} => err' = err
    <2>1. TRUE \in BOOLEAN
      OBVIOUS
    <2> QED
      BY <1>1, <1>2, <1>3, <2>1, SqCompletes
  <1>5. /\ \A g \in Hosts : SqLen(g)' = SqLen(g) /\ RqLen(g)' = RqLen(g)
        /\ \A q \in Procs : SqOf(q)' = SqOf(q) /\ RqOf(q)' = RqOf(q)
    BY <1>2, Stays
  <1>6. \A g \in Hosts : /\ SqLen(g) \in Nat /\ RqLen(g) \in Nat /\ AckedLen(g) \in Nat
                         /\ CqLen(g) \in Nat /\ SqWcs(g) \in Nat /\ RqWcs(g) \in Nat
                         /\ CqLen(g) <= CqSize
    BY <1>1, HostNumbers DEF RoomInv
  <1>7. \A q \in Procs : /\ SqOf(q) \in Nat /\ RqOf(q) \in Nat
                         /\ AckedOf(q) \in Nat /\ CqOf(q) \in Nat
    BY <1>1, ProcNumbers
  <1>8. Types'
    BY <1>1, <1>2, <1>3, <1>4 DEF Types
  <1>9. ASSUME NEW q \in Procs PROVE Own(q)' \in Int /\ Own(q)' <= Own(q)
    <2>1. /\ SqOf(q) \in Nat /\ RqOf(q) \in Nat /\ AckedOf(q) \in Nat /\ CqOf(q) \in Nat
          /\ SqOf(q)' = SqOf(q) /\ RqOf(q)' = RqOf(q) /\ CqOf(q)' \in Nat
      BY <1>4, <1>5, <1>7
    <2>2. CASE q = x
      <3>1. AckedOf(q)' = AckedOf(q) - 1 /\ CqOf(q)' <= CqOf(q) + 1
        BY <1>3, <1>4, <2>2
      <3> QED
        BY <2>1, <3>1 DEF Own
    <2>3. CASE q # x
      <3>1. AckedOf(q)' = AckedOf(q) /\ CqOf(q)' <= CqOf(q)
        BY <1>3, <1>4, <1>7, <2>3
      <3> QED
        BY <2>1, <3>1 DEF Own
    <2> QED
      BY <2>2, <2>3
  <1>10. ASSUME NEW g \in Hosts
         PROVE  /\ SqLen(g)' + AckedLen(g)' + SqWcs(g)' \in Int
                /\ SqLen(g)' + AckedLen(g)' + SqWcs(g)' <= SqLen(g) + AckedLen(g) + SqWcs(g)
                /\ RqLen(g)' + RqWcs(g)' \in Int
                /\ RqLen(g)' + RqWcs(g)' <= RqLen(g) + RqWcs(g)
                /\ CqLen(g)' <= CqSize
    <2>1. /\ SqLen(g) \in Nat /\ RqLen(g) \in Nat /\ AckedLen(g) \in Nat
          /\ SqWcs(g) \in Nat /\ RqWcs(g) \in Nat
          /\ SqWcs(g)' \in Nat /\ RqWcs(g)' \in Nat /\ RqWcs(g)' <= RqWcs(g)
          /\ SqLen(g)' = SqLen(g) /\ RqLen(g)' = RqLen(g) /\ CqLen(g)' <= CqSize
      BY <1>4, <1>5, <1>6
    <2>2. CASE g = h
      <3>1. AckedLen(g)' = AckedLen(g) - 1 /\ SqWcs(g)' <= SqWcs(g) + 1
        BY <1>3, <1>4, <2>2
      <3> QED
        BY <2>1, <3>1
    <2>3. CASE g # h
      <3>1. AckedLen(g)' = AckedLen(g) /\ SqWcs(g)' <= SqWcs(g)
        BY <1>3, <1>4, <2>1, <2>3
      <3> QED
        BY <2>1, <3>1
    <2> QED
      BY <2>2, <2>3
  <1>11. BaseInv'
    BY <1>2, <1>8, <1>9, <1>10, NicBase DEF counts
  <1>12. Accounted /\ (overran' = {} => err' = err)
    <2>1. Spare => ~Overruns(h)
      <3>1. /\ SqLen(h) \in Nat /\ RqLen(h) \in Nat /\ AckedLen(h) \in Nat
            /\ CqLen(h) \in Nat /\ AckedLen(h) > 0
        BY <1>3, <1>6
      <3>2. SqLen(h) + RqLen(h) + AckedLen(h) > 0
        BY <3>1
      <3> QED
        BY <3>1, <3>2, Sizes DEF Spare, Overruns, CqLen
    <2>2. ASSUME NEW g \in Hosts \ overran' PROVE Queued(g)' = Queued(g)
      <3>1. /\ SqLen(g) \in Nat /\ RqLen(g) \in Nat /\ AckedLen(g) \in Nat
            /\ CqLen(g) \in Nat /\ SqLen(g)' = SqLen(g) /\ RqLen(g)' = RqLen(g)
        BY <1>5, <1>6
      <3>2. CASE g = h
        <4>1. AckedLen(g)' = AckedLen(g) - 1 /\ CqLen(g)' = CqLen(g) + 1
          BY <1>3, <1>4, <3>1, <3>2
        <4> QED
          BY <3>1, <4>1 DEF Queued
      <3>3. CASE g # h
        <4>1. AckedLen(g)' = AckedLen(g) /\ CqLen(g)' = CqLen(g)
          BY <1>3, <1>4, <3>1, <3>3
        <4> QED
          BY <3>1, <4>1 DEF Queued
      <3> QED
        BY <3>2, <3>3
    <2> QED
      BY <1>4, <2>1, <2>2 DEF Accounted
  <1> QED
    BY <1>11, <1>12

\* A request is completed with an error.
LEMMA SendErrorBase ==
  ASSUME BaseInv, NEW h \in Hosts, sq[h] # <<>>,
         sq' = [sq EXCEPT ![h] = Tail(sq[h])], Complete(Head(sq[h]).proc, "sq", FALSE),
         UNCHANGED <<rq, acked, counts, got, uncalled, landed, stuck>>
  PROVE  /\ BaseInv'
         /\ Accounted
  <1> DEFINE x == Head(sq[h]).proc
  <1>1. Types /\ RoomInv
    BY DEF BaseInv
  <1>2. /\ sq[h] # <<>> /\ sq' = [sq EXCEPT ![h] = Tail(sq[h])]
        /\ UNCHANGED <<rq, acked, sends, recvs, got, uncalled, landed, stuck>>
        /\ Complete(x, "sq", FALSE)
    BY DEF counts
  <1>3. /\ sq' \in [Hosts -> Seq(Wr)] /\ \A g \in Hosts : sq'[g] \in Seq(WrAt(g))
        /\ x \in Procs /\ Host[x] = h /\ SqLen(h) > 0
        /\ \A g \in Hosts : SqLen(g)' = SqLen(g) - (IF g = h THEN 1 ELSE 0)
        /\ \A q \in Procs : SqOf(q)' = SqOf(q) - (IF q = x THEN 1 ELSE 0)
    BY <1>1, <1>2, SqPop
  <1> HIDE DEF x
  <1>4. /\ cq' \in [Hosts -> Seq(Wc)] /\ err' \subseteq Hosts
        /\ \A g \in Hosts : /\ CqLen(g)' \in Nat /\ CqLen(g)' <= CqSize
                            /\ SqWcs(g)' \in Nat /\ RqWcs(g)' \in Nat
                            /\ SqWcs(g)' <= SqWcs(g) + (IF g = h THEN 1 ELSE 0)
                            /\ RqWcs(g)' <= RqWcs(g)
        /\ \A q \in Procs : /\ CqOf(q)' \in Nat
                            /\ CqOf(q)' <= CqOf(q) + (IF q = x THEN 1 ELSE 0)
        /\ overran \subseteq overran' /\ overran' \subseteq Hosts
        /\ ~Overruns(h) => overran' = overran
        /\ \A g \in Hosts \ overran' : CqLen(g)' = CqLen(g) + (IF g = h THEN 1 ELSE 0)
    <2>1. FALSE \in BOOLEAN /\ x \in Procs /\ Host[x] = h /\ Complete(x, "sq", FALSE)
      BY <1>2, <1>3
    <2> QED
      BY <1>1, <2>1, SqCompletes
  <1>5. /\ \A g \in Hosts : RqLen(g)' = RqLen(g) /\ AckedLen(g)' = AckedLen(g)
        /\ \A q \in Procs : RqOf(q)' = RqOf(q) /\ AckedOf(q)' = AckedOf(q)
    BY <1>2, Stays
  <1>6. \A g \in Hosts : /\ SqLen(g) \in Nat /\ RqLen(g) \in Nat /\ AckedLen(g) \in Nat
                         /\ CqLen(g) \in Nat /\ SqWcs(g) \in Nat /\ RqWcs(g) \in Nat
                         /\ CqLen(g) <= CqSize
    BY <1>1, HostNumbers DEF RoomInv
  <1>7. \A q \in Procs : /\ SqOf(q) \in Nat /\ RqOf(q) \in Nat
                         /\ AckedOf(q) \in Nat /\ CqOf(q) \in Nat
    BY <1>1, ProcNumbers
  <1>8. Types'
    BY <1>1, <1>2, <1>3, <1>4 DEF Types
  <1>9. ASSUME NEW q \in Procs PROVE Own(q)' \in Int /\ Own(q)' <= Own(q)
    <2>1. /\ SqOf(q) \in Nat /\ RqOf(q) \in Nat /\ AckedOf(q) \in Nat /\ CqOf(q) \in Nat
          /\ RqOf(q)' = RqOf(q) /\ AckedOf(q)' = AckedOf(q) /\ CqOf(q)' \in Nat
      BY <1>4, <1>5, <1>7
    <2>2. /\ SqOf(q)' = SqOf(q) - (IF q = x THEN 1 ELSE 0)
          /\ CqOf(q)' <= CqOf(q) + (IF q = x THEN 1 ELSE 0)
      BY <1>3, <1>4
    <2>3. CASE q = x
      <3>1. SqOf(q)' = SqOf(q) - 1 /\ CqOf(q)' <= CqOf(q) + 1
        BY <2>2, <2>3
      <3> QED
        BY <2>1, <3>1 DEF Own
    <2>4. CASE q # x
      <3>1. SqOf(q)' = SqOf(q) /\ CqOf(q)' <= CqOf(q)
        BY <2>1, <2>2, <2>4
      <3> QED
        BY <2>1, <3>1 DEF Own
    <2> QED
      BY <2>3, <2>4
  <1>10. ASSUME NEW g \in Hosts
         PROVE  /\ SqLen(g)' + AckedLen(g)' + SqWcs(g)' \in Int
                /\ SqLen(g)' + AckedLen(g)' + SqWcs(g)' <= SqLen(g) + AckedLen(g) + SqWcs(g)
                /\ RqLen(g)' + RqWcs(g)' \in Int
                /\ RqLen(g)' + RqWcs(g)' <= RqLen(g) + RqWcs(g)
                /\ CqLen(g)' <= CqSize
    <2>1. /\ SqLen(g) \in Nat /\ RqLen(g) \in Nat /\ AckedLen(g) \in Nat
          /\ SqWcs(g) \in Nat /\ RqWcs(g) \in Nat
          /\ SqWcs(g)' \in Nat /\ RqWcs(g)' \in Nat /\ RqWcs(g)' <= RqWcs(g)
          /\ RqLen(g)' = RqLen(g) /\ AckedLen(g)' = AckedLen(g) /\ CqLen(g)' <= CqSize
      BY <1>4, <1>5, <1>6
    <2>2. CASE g = h
      <3>1. SqLen(g)' = SqLen(g) - 1 /\ SqWcs(g)' <= SqWcs(g) + 1
        BY <1>3, <1>4, <2>2
      <3>2. SqLen(g)' + SqWcs(g)' <= SqLen(g) + SqWcs(g)
        BY <2>1, <3>1
      <3>3. SqLen(g)' \in Int
        BY <2>1, <3>1
      <3>4. SqLen(g)' + AckedLen(g)' + SqWcs(g)' <= SqLen(g) + AckedLen(g) + SqWcs(g)
        BY <2>1, <3>2, <3>3
      <3> QED
        BY <2>1, <3>3, <3>4
    <2>3. CASE g # h
      <3>1. SqLen(g)' = SqLen(g) /\ SqWcs(g)' <= SqWcs(g)
        BY <1>3, <1>4, <2>1, <2>3
      <3> QED
        BY <2>1, <3>1
    <2> QED
      BY <2>2, <2>3
  <1>11. BaseInv'
    BY <1>2, <1>8, <1>9, <1>10, NicBase DEF counts
  <1>12. Accounted
    <2>1. Spare => ~Overruns(h)
      <3>1. /\ SqLen(h) \in Nat /\ RqLen(h) \in Nat /\ AckedLen(h) \in Nat
            /\ CqLen(h) \in Nat /\ SqLen(h) > 0
        BY <1>3, <1>6
      <3>2. SqLen(h) + RqLen(h) + AckedLen(h) > 0
        BY <3>1
      <3> QED
        BY <3>1, <3>2, Sizes DEF Spare, Overruns, CqLen
    <2>2. ASSUME NEW g \in Hosts \ overran' PROVE Queued(g)' = Queued(g)
      <3>1. /\ SqLen(g) \in Nat /\ RqLen(g) \in Nat /\ AckedLen(g) \in Nat
            /\ CqLen(g) \in Nat /\ RqLen(g)' = RqLen(g) /\ AckedLen(g)' = AckedLen(g)
        BY <1>5, <1>6
      <3>2. CASE g = h
        <4>1. SqLen(g)' = SqLen(g) - 1 /\ CqLen(g)' = CqLen(g) + 1
          BY <1>3, <1>4, <3>1, <3>2
        <4> QED
          BY <3>1, <4>1 DEF Queued
      <3>3. CASE g # h
        <4>1. SqLen(g)' = SqLen(g) /\ CqLen(g)' = CqLen(g)
          BY <1>3, <1>4, <3>1, <3>3
        <4> QED
          BY <3>1, <4>1 DEF Queued
      <3> QED
        BY <3>2, <3>3
    <2> QED
      BY <1>4, <2>1, <2>2 DEF Accounted
  <1> QED
    BY <1>11, <1>12

\* A receive is completed with an error.
LEMMA RecvErrorBase ==
  ASSUME BaseInv, NEW h \in Hosts, rq[h] # <<>>,
         rq' = [rq EXCEPT ![h] = Tail(rq[h])], Complete(Head(rq[h]), "rq", FALSE),
         UNCHANGED <<sq, acked, counts, got, uncalled, landed, stuck>>
  PROVE  /\ BaseInv'
         /\ Accounted
  <1> DEFINE x == Head(rq[h])
  <1>1. Types /\ RoomInv
    BY DEF BaseInv
  <1>2. /\ rq[h] # <<>> /\ rq' = [rq EXCEPT ![h] = Tail(rq[h])]
        /\ UNCHANGED <<sq, acked, sends, recvs, got, uncalled, landed, stuck>>
        /\ Complete(x, "rq", FALSE)
    BY DEF counts
  <1>3. /\ rq' \in [Hosts -> Seq(Procs)] /\ \A g \in Hosts : rq'[g] \in Seq(ProcsOn(g))
        /\ x \in Procs /\ Host[x] = h /\ RqLen(h) > 0
        /\ \A g \in Hosts : RqLen(g)' = RqLen(g) - (IF g = h THEN 1 ELSE 0)
        /\ \A q \in Procs : RqOf(q)' = RqOf(q) - (IF q = x THEN 1 ELSE 0)
    BY <1>1, <1>2, RqPop
  <1> HIDE DEF x
  <1>4. /\ cq' \in [Hosts -> Seq(Wc)] /\ err' \subseteq Hosts
        /\ \A g \in Hosts : /\ CqLen(g)' \in Nat /\ CqLen(g)' <= CqSize
                            /\ SqWcs(g)' \in Nat /\ RqWcs(g)' \in Nat
                            /\ RqWcs(g)' <= RqWcs(g) + (IF g = h THEN 1 ELSE 0)
                            /\ SqWcs(g)' <= SqWcs(g)
        /\ \A q \in Procs : /\ CqOf(q)' \in Nat
                            /\ CqOf(q)' <= CqOf(q) + (IF q = x THEN 1 ELSE 0)
        /\ overran \subseteq overran' /\ overran' \subseteq Hosts
        /\ ~Overruns(h) => overran' = overran
        /\ \A g \in Hosts \ overran' : CqLen(g)' = CqLen(g) + (IF g = h THEN 1 ELSE 0)
    <2>1. FALSE \in BOOLEAN
      OBVIOUS
    <2> QED
      BY <1>1, <1>2, <1>3, <2>1, RqCompletes
  <1>5. /\ \A g \in Hosts : SqLen(g)' = SqLen(g) /\ AckedLen(g)' = AckedLen(g)
        /\ \A q \in Procs : SqOf(q)' = SqOf(q) /\ AckedOf(q)' = AckedOf(q)
    BY <1>2, Stays
  <1>6. \A g \in Hosts : /\ SqLen(g) \in Nat /\ RqLen(g) \in Nat /\ AckedLen(g) \in Nat
                         /\ CqLen(g) \in Nat /\ SqWcs(g) \in Nat /\ RqWcs(g) \in Nat
                         /\ CqLen(g) <= CqSize
    BY <1>1, HostNumbers DEF RoomInv
  <1>7. \A q \in Procs : /\ SqOf(q) \in Nat /\ RqOf(q) \in Nat
                         /\ AckedOf(q) \in Nat /\ CqOf(q) \in Nat
    BY <1>1, ProcNumbers
  <1>8. Types'
    BY <1>1, <1>2, <1>3, <1>4 DEF Types
  <1>9. ASSUME NEW q \in Procs PROVE Own(q)' \in Int /\ Own(q)' <= Own(q)
    <2>1. /\ SqOf(q) \in Nat /\ RqOf(q) \in Nat /\ AckedOf(q) \in Nat /\ CqOf(q) \in Nat
          /\ SqOf(q)' = SqOf(q) /\ AckedOf(q)' = AckedOf(q) /\ CqOf(q)' \in Nat
      BY <1>4, <1>5, <1>7
    <2>2. CASE q = x
      <3>1. RqOf(q)' = RqOf(q) - 1 /\ CqOf(q)' <= CqOf(q) + 1
        BY <1>3, <1>4, <2>2
      <3> QED
        BY <2>1, <3>1 DEF Own
    <2>3. CASE q # x
      <3>1. RqOf(q)' = RqOf(q) /\ CqOf(q)' <= CqOf(q)
        BY <1>3, <1>4, <1>7, <2>3
      <3> QED
        BY <2>1, <3>1 DEF Own
    <2> QED
      BY <2>2, <2>3
  <1>10. ASSUME NEW g \in Hosts
         PROVE  /\ SqLen(g)' + AckedLen(g)' + SqWcs(g)' \in Int
                /\ SqLen(g)' + AckedLen(g)' + SqWcs(g)' <= SqLen(g) + AckedLen(g) + SqWcs(g)
                /\ RqLen(g)' + RqWcs(g)' \in Int
                /\ RqLen(g)' + RqWcs(g)' <= RqLen(g) + RqWcs(g)
                /\ CqLen(g)' <= CqSize
    <2>1. /\ SqLen(g) \in Nat /\ RqLen(g) \in Nat /\ AckedLen(g) \in Nat
          /\ SqWcs(g) \in Nat /\ RqWcs(g) \in Nat
          /\ SqWcs(g)' \in Nat /\ RqWcs(g)' \in Nat /\ SqWcs(g)' <= SqWcs(g)
          /\ SqLen(g)' = SqLen(g) /\ AckedLen(g)' = AckedLen(g) /\ CqLen(g)' <= CqSize
      BY <1>4, <1>5, <1>6
    <2>2. CASE g = h
      <3>1. RqLen(g)' = RqLen(g) - 1 /\ RqWcs(g)' <= RqWcs(g) + 1
        BY <1>3, <1>4, <2>2
      <3> QED
        BY <2>1, <3>1
    <2>3. CASE g # h
      <3>1. RqLen(g)' = RqLen(g) /\ RqWcs(g)' <= RqWcs(g)
        BY <1>3, <1>4, <2>1, <2>3
      <3> QED
        BY <2>1, <3>1
    <2> QED
      BY <2>2, <2>3
  <1>11. BaseInv'
    BY <1>2, <1>8, <1>9, <1>10, NicBase DEF counts
  <1>12. Accounted
    <2>1. Spare => ~Overruns(h)
      <3>1. /\ SqLen(h) \in Nat /\ RqLen(h) \in Nat /\ AckedLen(h) \in Nat
            /\ CqLen(h) \in Nat /\ RqLen(h) > 0
        BY <1>3, <1>6
      <3>2. SqLen(h) + RqLen(h) + AckedLen(h) > 0
        BY <3>1
      <3> QED
        BY <3>1, <3>2, Sizes DEF Spare, Overruns, CqLen
    <2>2. ASSUME NEW g \in Hosts \ overran' PROVE Queued(g)' = Queued(g)
      <3>1. /\ SqLen(g) \in Nat /\ RqLen(g) \in Nat /\ AckedLen(g) \in Nat
            /\ CqLen(g) \in Nat /\ SqLen(g)' = SqLen(g) /\ AckedLen(g)' = AckedLen(g)
        BY <1>5, <1>6
      <3>2. CASE g = h
        <4>1. RqLen(g)' = RqLen(g) - 1 /\ CqLen(g)' = CqLen(g) + 1
          BY <1>3, <1>4, <3>1, <3>2
        <4> QED
          BY <3>1, <4>1 DEF Queued
      <3>3. CASE g # h
        <4>1. RqLen(g)' = RqLen(g) /\ CqLen(g)' = CqLen(g)
          BY <1>3, <1>4, <3>1, <3>3
        <4> QED
          BY <3>1, <4>1 DEF Queued
      <3> QED
        BY <3>2, <3>3
    <2> QED
      BY <1>4, <2>1, <2>2 DEF Accounted
  <1> QED
    BY <1>11, <1>12

\* The first request of a send queue arrives: it is to be acknowledged, and a
\* SEND has made a completion of the buffer it took.
LEMMA ArriveBase ==
  ASSUME BaseInv, NEW h \in Hosts, Arrive(h)
  PROVE  /\ BaseInv'
         /\ Accounted /\ (overran' = {} => err' = err)
         /\ \A g \in Hosts : SendsIn(g)' + RqLen(Other(g)) = SendsIn(g) + RqLen(Other(g))'
  <1> DEFINE o == Other(h)
  <1> DEFINE wr == Head(sq[h])
  <1> DEFINE r == Head(rq[o])
  <1>1. Types /\ RoomInv /\ o \in Hosts /\ o # h /\ \A g \in Hosts : g = h \/ g = o
    BY TwoHosts DEF BaseInv
  <1>2. /\ sq[h] # <<>> /\ sq' = [sq EXCEPT ![h] = Tail(sq[h])]
        /\ acked' = [acked EXCEPT ![h] = Append(acked[h], wr.proc)]
        /\ UNCHANGED <<counts, got, uncalled, stuck>>
    BY DEF Arrive
  <1>3. /\ sq' \in [Hosts -> Seq(Wr)] /\ \A g \in Hosts : sq'[g] \in Seq(WrAt(g))
        /\ wr \in Wr /\ wr.proc \in Procs /\ Host[wr.proc] = h /\ SqLen(h) > 0
        /\ \A g \in Hosts : /\ SqLen(g)' = SqLen(g) - (IF g = h THEN 1 ELSE 0)
                            /\ SendsIn(g)' = SendsIn(g) -
                                 (IF g = h /\ wr.op = "SEND" THEN 1 ELSE 0)
        /\ \A q \in Procs : SqOf(q)' = SqOf(q) - (IF q = wr.proc THEN 1 ELSE 0)
    BY <1>1, <1>2, SqPop
  <1>4. /\ acked' \in [Hosts -> Seq(Procs)] /\ \A g \in Hosts : acked'[g] \in Seq(ProcsOn(g))
        /\ \A g \in Hosts : AckedLen(g)' = AckedLen(g) + (IF g = h THEN 1 ELSE 0)
        /\ \A q \in Procs : AckedOf(q)' = AckedOf(q) + (IF q = wr.proc THEN 1 ELSE 0)
    <2> HIDE DEF wr
    <2> QED
      BY <1>1, <1>2, <1>3, AckedPush
  <1>5. \A g \in Hosts : /\ SqLen(g) \in Nat /\ RqLen(g) \in Nat /\ AckedLen(g) \in Nat
                         /\ CqLen(g) \in Nat /\ SqWcs(g) \in Nat /\ RqWcs(g) \in Nat
                         /\ SendsIn(g) \in Nat /\ CqLen(g) <= CqSize /\ Other(g) \in Hosts
    BY <1>1, HostNumbers, TwoHosts DEF RoomInv
  <1>6. \A q \in Procs : /\ SqOf(q) \in Nat /\ RqOf(q) \in Nat
                         /\ AckedOf(q) \in Nat /\ CqOf(q) \in Nat
    BY <1>1, ProcNumbers
  <1>7. ASSUME NEW g \in Hosts
        PROVE  /\ SqLen(g)' + AckedLen(g)' = SqLen(g) + AckedLen(g)
               /\ SqLen(g)' \in Int /\ AckedLen(g)' \in Int
    <2>1. SqLen(g) \in Nat /\ AckedLen(g) \in Nat
      BY <1>5
    <2>2. CASE g = h
      <3>1. SqLen(g)' = SqLen(g) - 1 /\ AckedLen(g)' = AckedLen(g) + 1
        BY <1>3, <1>4, <2>1, <2>2
      <3> QED
        BY <2>1, <3>1
    <2>3. CASE g # h
      <3>1. SqLen(g)' = SqLen(g) /\ AckedLen(g)' = AckedLen(g)
        BY <1>3, <1>4, <2>1, <2>3
      <3> QED
        BY <2>1, <3>1
    <2> QED
      BY <2>2, <2>3
  <1>8. ASSUME NEW q \in Procs
        PROVE  /\ SqOf(q)' + AckedOf(q)' = SqOf(q) + AckedOf(q)
               /\ SqOf(q)' \in Int /\ AckedOf(q)' \in Int
    <2>1. SqOf(q) \in Nat /\ AckedOf(q) \in Nat
      BY <1>6
    <2>2. CASE q = wr.proc
      <3>1. SqOf(q)' = SqOf(q) - 1 /\ AckedOf(q)' = AckedOf(q) + 1
        BY <1>3, <1>4, <2>1, <2>2
      <3> QED
        BY <2>1, <3>1
    <2>3. CASE q # wr.proc
      <3>1. SqOf(q)' = SqOf(q) /\ AckedOf(q)' = AckedOf(q)
        BY <1>3, <1>4, <2>1, <2>3
      <3> QED
        BY <2>1, <3>1
    <2> QED
      BY <2>2, <2>3
  <1>9. CASE wr.op = "SEND"
    <2>1. /\ rq[o] # <<>> /\ rq' = [rq EXCEPT ![o] = Tail(rq[o])]
          /\ landed' = landed \cup {<<wr.proc, r>>}
          /\ Complete(r, "rq", TRUE)
      BY <1>9 DEF Arrive, Reaches
    <2>2. /\ rq' \in [Hosts -> Seq(Procs)] /\ \A g \in Hosts : rq'[g] \in Seq(ProcsOn(g))
          /\ r \in Procs /\ Host[r] = o /\ RqLen(o) > 0
          /\ \A g \in Hosts : RqLen(g)' = RqLen(g) - (IF g = o THEN 1 ELSE 0)
          /\ \A q \in Procs : RqOf(q)' = RqOf(q) - (IF q = r THEN 1 ELSE 0)
      <3> HIDE DEF o
      <3> QED
        BY <1>1, <2>1, RqPop
    <2> HIDE DEF o, wr, r
    <2>3. /\ cq' \in [Hosts -> Seq(Wc)] /\ err' \subseteq Hosts
          /\ \A g \in Hosts : /\ CqLen(g)' \in Nat /\ CqLen(g)' <= CqSize
                              /\ SqWcs(g)' \in Nat /\ RqWcs(g)' \in Nat
                              /\ RqWcs(g)' <= RqWcs(g) + (IF g = o THEN 1 ELSE 0)
                              /\ SqWcs(g)' <= SqWcs(g)
          /\ \A q \in Procs : /\ CqOf(q)' \in Nat
                              /\ CqOf(q)' <= CqOf(q) + (IF q = r THEN 1 ELSE 0)
          /\ overran \subseteq overran' /\ overran' \subseteq Hosts
          /\ ~Overruns(o) => overran' = overran
          /\ \A g \in Hosts \ overran' : CqLen(g)' = CqLen(g) + (IF g = o THEN 1 ELSE 0)
          /\ overran' = {} => err' = err
      <3>1. TRUE \in BOOLEAN
        OBVIOUS
      <3> QED
        BY <1>1, <2>1, <2>2, <3>1, RqCompletes
    <2>4. Types'
      <3>1. landed' \subseteq Procs \X Procs
        <4>1. landed \subseteq Procs \X Procs /\ <<wr.proc, r>> \in Procs \X Procs
          BY <1>1, <1>3, <2>2 DEF Types
        <4> QED
          BY <2>1, <4>1
      <3> QED
        BY <1>1, <1>2, <1>3, <1>4, <2>2, <2>3, <3>1 DEF Types, counts
    <2>5. ASSUME NEW q \in Procs PROVE Own(q)' \in Int /\ Own(q)' <= Own(q)
      <3>1. /\ SqOf(q) \in Nat /\ RqOf(q) \in Nat /\ AckedOf(q) \in Nat /\ CqOf(q) \in Nat
            /\ CqOf(q)' \in Nat
        BY <1>6, <2>3
      <3>2. RqOf(q)' + CqOf(q)' <= RqOf(q) + CqOf(q) /\ RqOf(q)' \in Int
        <4>1. CASE q = r
          <5>1. RqOf(q)' = RqOf(q) - 1 /\ CqOf(q)' <= CqOf(q) + 1
            BY <2>2, <2>3, <3>1, <4>1
          <5> QED
            BY <3>1, <5>1
        <4>2. CASE q # r
          <5>1. RqOf(q)' = RqOf(q) /\ CqOf(q)' <= CqOf(q)
            BY <2>2, <2>3, <3>1, <4>2
          <5> QED
            BY <3>1, <5>1
        <4> QED
          BY <4>1, <4>2
      <3> QED
        BY <1>8, <3>1, <3>2 DEF Own
    <2>6. ASSUME NEW g \in Hosts
          PROVE  /\ SqLen(g)' + AckedLen(g)' + SqWcs(g)' \in Int
                 /\ SqLen(g)' + AckedLen(g)' + SqWcs(g)' <= SqLen(g) + AckedLen(g) + SqWcs(g)
                 /\ RqLen(g)' + RqWcs(g)' \in Int
                 /\ RqLen(g)' + RqWcs(g)' <= RqLen(g) + RqWcs(g)
                 /\ CqLen(g)' <= CqSize
      <3>1. /\ SqLen(g) \in Nat /\ RqLen(g) \in Nat /\ AckedLen(g) \in Nat
            /\ SqWcs(g) \in Nat /\ RqWcs(g) \in Nat
            /\ SqWcs(g)' \in Nat /\ RqWcs(g)' \in Nat
            /\ SqWcs(g)' <= SqWcs(g) /\ CqLen(g)' <= CqSize
        BY <1>5, <2>3
      <3>2. RqLen(g)' + RqWcs(g)' <= RqLen(g) + RqWcs(g) /\ RqLen(g)' \in Int
        <4>1. CASE g = o
          <5>1. RqLen(g)' = RqLen(g) - 1 /\ RqWcs(g)' <= RqWcs(g) + 1
            BY <2>2, <2>3, <3>1, <4>1
          <5> QED
            BY <3>1, <5>1
        <4>2. CASE g # o
          <5>1. RqLen(g)' = RqLen(g) /\ RqWcs(g)' <= RqWcs(g)
            BY <2>2, <2>3, <3>1, <4>2
          <5> QED
            BY <3>1, <5>1
        <4> QED
          BY <4>1, <4>2
      <3> QED
        BY <1>7, <3>1, <3>2
    <2>7. BaseInv'
      BY <1>2, <2>4, <2>5, <2>6, NicBase
    <2>8. Accounted /\ (overran' = {} => err' = err)
      <3>1. Spare => ~Overruns(o)
        <4>1. /\ SqLen(o) \in Nat /\ RqLen(o) \in Nat /\ AckedLen(o) \in Nat
              /\ CqLen(o) \in Nat /\ RqLen(o) > 0
          BY <1>1, <1>5, <2>2
        <4>2. SqLen(o) + RqLen(o) + AckedLen(o) > 0
          BY <4>1
        <4> QED
          BY <1>1, <4>1, <4>2, Sizes DEF Spare, Overruns, CqLen
      <3>2. ASSUME NEW g \in Hosts \ overran' PROVE Queued(g)' = Queued(g)
        <4>1. /\ SqLen(g) \in Nat /\ RqLen(g) \in Nat /\ AckedLen(g) \in Nat
              /\ CqLen(g) \in Nat
          BY <1>5
        <4>2. /\ RqLen(g)' + CqLen(g)' = RqLen(g) + CqLen(g)
              /\ RqLen(g)' \in Int /\ CqLen(g)' \in Int
          <5>1. CASE g = o
            <6>1. RqLen(g)' = RqLen(g) - 1 /\ CqLen(g)' = CqLen(g) + 1
              BY <2>2, <2>3, <4>1, <5>1
            <6> QED
              BY <4>1, <6>1
          <5>2. CASE g # o
            <6>1. RqLen(g)' = RqLen(g) /\ CqLen(g)' = CqLen(g)
              BY <2>2, <2>3, <4>1, <5>2
            <6> QED
              BY <4>1, <6>1
          <5> QED
            BY <5>1, <5>2
        <4> QED
          BY <1>7, <4>1, <4>2 DEF Queued
      <3> QED
        BY <2>3, <3>1, <3>2 DEF Accounted
    <2>9. ASSUME NEW g \in Hosts
          PROVE  SendsIn(g)' + RqLen(Other(g)) = SendsIn(g) + RqLen(Other(g))'
      <3>1. (g = h <=> Other(g) = o) /\ Other(g) \in Hosts
        BY <1>1, TwoHosts DEF o
      <3>2. SendsIn(g) \in Nat /\ RqLen(Other(g)) \in Nat
        BY <1>5, <3>1
      <3>3. CASE g = h
        <4>1. SendsIn(g)' = SendsIn(g) - 1 /\ RqLen(Other(g))' = RqLen(Other(g)) - 1
          BY <1>3, <1>9, <2>2, <3>1, <3>2, <3>3
        <4> QED
          BY <3>2, <4>1
      <3>4. CASE g # h
        <4>1. SendsIn(g)' = SendsIn(g) /\ RqLen(Other(g))' = RqLen(Other(g))
          BY <1>3, <2>2, <3>1, <3>2, <3>4
        <4> QED
          BY <3>2, <4>1
      <3> QED
        BY <3>3, <3>4
    <2> QED
      BY <2>7, <2>8, <2>9
  <1>10. CASE wr.op # "SEND"
    <2>1. UNCHANGED <<rq, landed, cq, err, overran>>
      BY <1>10 DEF Arrive
    <2>2. /\ \A g \in Hosts : /\ RqLen(g)' = RqLen(g) /\ CqLen(g)' = CqLen(g)
                              /\ SqWcs(g)' = SqWcs(g) /\ RqWcs(g)' = RqWcs(g)
          /\ \A q \in Procs : RqOf(q)' = RqOf(q) /\ CqOf(q)' = CqOf(q)
      BY <2>1, Stays
    <2> HIDE DEF o, wr, r
    <2>3. Types'
      BY <1>1, <1>2, <1>3, <1>4, <2>1 DEF Types, counts
    <2>4. ASSUME NEW q \in Procs PROVE Own(q)' \in Int /\ Own(q)' <= Own(q)
      <3>1. /\ SqOf(q) \in Nat /\ RqOf(q) \in Nat /\ AckedOf(q) \in Nat /\ CqOf(q) \in Nat
            /\ RqOf(q)' = RqOf(q) /\ CqOf(q)' = CqOf(q)
        BY <1>6, <2>2
      <3> QED
        BY <1>8, <3>1 DEF Own
    <2>5. ASSUME NEW g \in Hosts
          PROVE  /\ SqLen(g)' + AckedLen(g)' + SqWcs(g)' \in Int
                 /\ SqLen(g)' + AckedLen(g)' + SqWcs(g)' <= SqLen(g) + AckedLen(g) + SqWcs(g)
                 /\ RqLen(g)' + RqWcs(g)' \in Int
                 /\ RqLen(g)' + RqWcs(g)' <= RqLen(g) + RqWcs(g)
                 /\ CqLen(g)' <= CqSize
      <3>1. /\ SqLen(g) \in Nat /\ RqLen(g) \in Nat /\ AckedLen(g) \in Nat
            /\ SqWcs(g) \in Nat /\ RqWcs(g) \in Nat /\ RqLen(g)' = RqLen(g)
            /\ SqWcs(g)' = SqWcs(g) /\ RqWcs(g)' = RqWcs(g) /\ CqLen(g)' <= CqSize
        BY <1>5, <2>2
      <3> QED
        BY <1>7, <3>1
    <2>6. BaseInv'
      BY <1>2, <2>3, <2>4, <2>5, NicBase
    <2>7. ASSUME NEW g \in Hosts PROVE Queued(g)' = Queued(g)
      <3>1. /\ SqLen(g) \in Nat /\ RqLen(g) \in Nat /\ AckedLen(g) \in Nat
            /\ CqLen(g) \in Nat /\ RqLen(g)' = RqLen(g) /\ CqLen(g)' = CqLen(g)
        BY <1>5, <2>2
      <3> QED
        BY <1>7, <3>1 DEF Queued
    <2>8. ASSUME NEW g \in Hosts
          PROVE  SendsIn(g)' + RqLen(Other(g)) = SendsIn(g) + RqLen(Other(g))'
      BY <1>3, <1>5, <1>10, <2>2
    <2>9. overran \subseteq Hosts
      BY <1>1 DEF Types
    <2> QED
      BY <2>1, <2>6, <2>7, <2>8, <2>9 DEF Accounted
  <1> QED
    BY <1>9, <1>10

\* An error completes the next request of a send queue, or of either queue.
LEMMA FailBase ==
  ASSUME BaseInv, NEW h \in Hosts, Fail(h)
  PROVE  BaseInv' /\ Accounted
  <1>1. /\ sq[h] # <<>> /\ sq' = [sq EXCEPT ![h] = Tail(sq[h])]
        /\ Complete(Head(sq[h]).proc, "sq", FALSE)
        /\ UNCHANGED <<rq, acked, counts, got, uncalled, landed, stuck>>
    BY DEF Fail
  <1> QED
    BY <1>1, SendErrorBase

LEMMA FlushBase ==
  ASSUME BaseInv, NEW h \in Hosts, Flush(h)
  PROVE  BaseInv' /\ Accounted
  <1>1. CASE /\ sq[h] # <<>> /\ sq' = [sq EXCEPT ![h] = Tail(sq[h])]
             /\ Complete(Head(sq[h]).proc, "sq", FALSE)
             /\ UNCHANGED <<rq, acked, counts, got, uncalled, landed, stuck>>
    BY <1>1, SendErrorBase
  <1>2. CASE /\ rq[h] # <<>> /\ rq' = [rq EXCEPT ![h] = Tail(rq[h])]
             /\ Complete(Head(rq[h]), "rq", FALSE)
             /\ UNCHANGED <<sq, acked, counts, got, uncalled, landed, stuck>>
    BY <1>2, RecvErrorBase
  <1> QED
    BY <1>1, <1>2 DEF Flush

LEMMA BaseStep == BaseInv /\ [Next]_vars => BaseInv'
  <1> SUFFICES ASSUME BaseInv, [Next]_vars PROVE BaseInv'
    OBVIOUS
  <1>1. ASSUME NEW p \in Procs, NEW op \in {"SEND", "RDMA"}, PostSend(p, op) PROVE BaseInv'
    BY <1>1, PostSendBase
  <1>2. ASSUME NEW p \in Procs, PostRecv(p) PROVE BaseInv'
    BY <1>2, PostRecvBase
  <1>3. ASSUME NEW p \in Procs, PollCq(p) PROVE BaseInv'
    BY <1>3, PollCqBase
  <1>4. ASSUME NEW h \in Hosts, Nic(h) PROVE BaseInv'
    <2>1. CASE Arrive(h)
      BY <2>1, ArriveBase
    <2>2. CASE Ack(h)
      BY <2>2, AckBase
    <2>3. CASE Fail(h)
      BY <2>3, FailBase
    <2>4. CASE Flush(h)
      BY <2>4, FlushBase
    <2> QED
      BY <1>4, <2>1, <2>2, <2>3, <2>4 DEF Nic
  <1>5. CASE UNCHANGED vars
    <2>1. Types'
      BY <1>5 DEF BaseInv, Types, vars
    <2>2. OwnInv'
      BY <1>5 DEF BaseInv, OwnInv, Own, SqOf, RqOf, AckedOf, CqOf, Outstanding, vars
    <2>3. RoomInv'
      BY <1>5 DEF BaseInv, RoomInv, SqLen, AckedLen, SqWcs, RqLen, RqWcs, CqLen, vars
    <2> QED
      BY <2>1, <2>2, <2>3 DEF BaseInv
  <1> QED
    BY <1>1, <1>2, <1>3, <1>4, <1>5 DEF Next

\* The invariant of the queues, of the data path as it is.
THEOREM BaseInvariance == Spec => []BaseInv
  <1> QED
    BY BaseInit, BaseStep, PTL DEF Spec

\* TypeOK: in particular no queue ever exceeds its capacity.
THEOREM TypeCorrect == Spec => []TypeOK
  <1>1. BaseInv => TypeOK
    <2> SUFFICES ASSUME BaseInv PROVE TypeOK
      OBVIOUS
    <2>1. Types /\ OwnInv /\ RoomInv
      BY DEF BaseInv
    <2>2. ASSUME NEW h \in Hosts
          PROVE  /\ cq[h] \in Seq(Wc) /\ Len(cq[h]) <= CqSize
                 /\ SqUsed(h) <= MaxWr /\ RqUsed(h) <= MaxWr
      BY <2>1, UsedCounts DEF Types, RoomInv, CqLen
    <2>3. ASSUME NEW p \in Procs PROVE got[p] \in 0 .. 2 * MaxPosts
      <3>1. Own(p) \in Nat /\ Own(p) <= Outstanding(p)
        BY <2>1, ProcNumbers DEF OwnInv, Own
      <3>2. sends[p] \in 0 .. MaxPosts /\ recvs[p] \in 0 .. MaxPosts /\ got[p] \in Nat
        BY <2>1 DEF Types
      <3> QED
        BY <3>1, <3>2, Sizes DEF Outstanding
    <2>4. got \in [Procs -> 0 .. 2 * MaxPosts]
      BY <2>1, <2>3 DEF Types
    <2> QED
      BY <2>1, <2>2, <2>4 DEF Types, TypeOK
  <1> QED
    BY <1>1, BaseInvariance, PTL

\* What a process owns, and so what it has posted and was not handed, is no
\* less than nothing.
LEMMA OwnsNothingLess == BaseInv => HandedOwn
  <1> SUFFICES ASSUME BaseInv, NEW p \in Procs PROVE Outstanding(p) >= 0
    BY DEF HandedOwn
  <1>1. Own(p) \in Nat /\ Own(p) <= Outstanding(p) /\ Outstanding(p) \in Int
    BY ProcNumbers DEF BaseInv, OwnInv, Own
  <1> QED
    BY <1>1

\* No process is ever handed more completions than it has posted requests:
\* what it is handed are its own, whatever the others post and poll.
THEOREM HandsOwn == Spec => []HandedOwn
  BY BaseInvariance, OwnsNothingLess, PTL

-----------------------------------------------------------------------------
(* No request is lost.                                                      *)

\* The processes of a host that gave a completion up with their poll.
Waiting(h) == {p \in ProcsOn(h) : stuck[p] = "poll"}
Outs == [p \in Procs |-> Outstanding(p)]

\* Conserved, in these terms.
LEMMA ConservedIs ==
  /\ Conserved <=> \A h \in Hosts \ overran :
                     Cardinality(Numbered(Outs, h, MaxOut))
                       = Queued(h) + Cardinality(Waiting(h))
  /\ \A h : IsFiniteSet(Waiting(h)) /\ Cardinality(Waiting(h)) \in Nat
  <1>1. ASSUME NEW h PROVE Unanswered(h) = Numbered(Outs, h, MaxOut)
    BY DEF Unanswered, Numbered, Outs, ProcsOn
  <1>2. ASSUME NEW h PROVE IsFiniteSet(Waiting(h)) /\ Cardinality(Waiting(h)) \in Nat
    <2>1. Waiting(h) \in SUBSET Procs
      BY DEF Waiting, ProcsOn
    <2> QED
      BY <2>1, FS_Subset, FS_CardinalityType, DataPathAssumption
  <1> QED
    BY <1>1, <1>2 DEF Conserved, Queued, Waiting, SqLen, RqLen, AckedLen, CqLen

\* The same after a step.
LEMMA ConservedPrimed ==
  ASSUME \A h \in Hosts \ overran' : Cardinality(Numbered(Outs', h, MaxOut))
                                       = Queued(h)' + Cardinality(Waiting(h)')
  PROVE  Conserved'
  <1>1. ASSUME NEW h PROVE Unanswered(h)' = Numbered(Outs', h, MaxOut)
    BY DEF Unanswered, Numbered, Outs, ProcsOn
  <1> QED
    BY <1>1 DEF Conserved, Queued, Waiting, SqLen, RqLen, AckedLen, CqLen, ProcsOn

LEMMA OwnsPrimed == BaseInv' => HandedOwn'
  BY OwnsNothingLess, PTL

\* With enough room, a host with requests in its queues has a place for a
\* completion: the requests it has are at most what the place is for.
LEMMA ConservedSpares ==
  ASSUME Roomy, BaseInv, Conserved, overran = {}
  PROVE  Spare
  <1> SUFFICES ASSUME NEW h \in Hosts, SqLen(h) + RqLen(h) + AckedLen(h) > 0
               PROVE  CqLen(h) < CqSize
    BY DEF Spare
  <1>1. Types /\ RoomInv
    BY DEF BaseInv
  <1>2. /\ SqLen(h) \in Nat /\ RqLen(h) \in Nat /\ AckedLen(h) \in Nat
        /\ CqLen(h) \in Nat /\ SqWcs(h) \in Nat /\ RqWcs(h) \in Nat
        /\ MaxWr \in Nat /\ CqSize \in Nat
    BY <1>1, HostNumbers, Sizes
  <1>3. CASE CqSize >= 2 * MaxWr
    <2>1. SqLen(h) + AckedLen(h) + SqWcs(h) <= MaxWr /\ RqLen(h) + RqWcs(h) <= MaxWr
      BY <1>1 DEF RoomInv
    <2>2. CqLen(h) = SqWcs(h) + RqWcs(h)
      BY <1>1, UsedCounts
    <2> QED
      BY <1>2, <1>3, <2>1, <2>2
  <1>4. CASE Cardinality(ProcsOn(h)) * MaxOut <= CqSize
    <2> DEFINE n == Cardinality(Numbered(Outs, h, MaxOut))
    <2> DEFINE m == Cardinality(ProcsOn(h)) * MaxOut
    <2> DEFINE w == Cardinality(Waiting(h))
    <2>1. n = Queued(h) + w /\ w \in Nat
      BY ConservedIs
    <2>2. n \in Nat /\ n <= m /\ m \in Nat /\ m <= CqSize
      <3>1. Cardinality(ProcsOn(h)) \in Nat /\ MaxOut \in Nat
        BY NumberedFinite, Sizes
      <3> QED
        BY <1>4, <3>1, NumberedFinite
    <2> HIDE DEF n, m, w
    <2>3. Queued(h) <= CqSize
      BY <1>2, <2>1, <2>2 DEF Queued
    <2> QED
      BY <1>2, <2>3 DEF Queued
  <1> QED
    BY <1>3, <1>4 DEF Roomy

\* What moves from one queue to another is conserved.
LEMMA ConservedKept ==
  ASSUME Conserved, overran \subseteq overran',
         \A h \in Hosts \ overran' : Queued(h)' = Queued(h),
         \A p \in Procs : Outstanding(p)' = Outstanding(p),
         \A p \in Procs : stuck'[p] = "poll" <=> stuck[p] = "poll"
  PROVE  Conserved'
  <1>1. Outs' = Outs
    BY DEF Outs
  <1>2. \A h : Waiting(h)' = Waiting(h)
    BY DEF Waiting, ProcsOn
  <1>3. \A h \in Hosts \ overran' : Cardinality(Numbered(Outs, h, MaxOut))
                           = Queued(h) + Cardinality(Waiting(h))
    BY ConservedIs
  <1>4. \A h \in Hosts \ overran' : Cardinality(Numbered(Outs', h, MaxOut))
                           = Queued(h)' + Cardinality(Waiting(h)')
    BY <1>1, <1>2, <1>3
  <1> QED
    BY <1>4, ConservedPrimed

\* A post is one more request and one more entry.
LEMMA ConservedPost ==
  ASSUME BaseInv, Conserved, NEW p \in Procs, Outstanding(p) < MaxOut,
         \A q \in Procs : Outstanding(q)' = Outstanding(q) + (IF q = p THEN 1 ELSE 0),
         \A h \in Hosts : Queued(h)' = Queued(h) + (IF h = Host[p] THEN 1 ELSE 0),
         UNCHANGED <<stuck, overran>>
  PROVE  Conserved'
  <1>1. Outs \in [Procs -> Int] /\ Outs[p] \in 0 .. MaxOut - 1
    <2>1. \A q \in Procs : Outstanding(q) \in Int /\ Own(q) \in Nat /\ Own(q) <= Outstanding(q)
      BY ProcNumbers DEF BaseInv, OwnInv, Own
    <2> QED
      BY <2>1, Sizes DEF Outs
  <1>2. Outs' = [Outs EXCEPT ![p] = Outs[p] + 1]
    <2>1. \A q \in Procs : Outstanding(q)' = IF q = p THEN Outstanding(p) + 1 ELSE Outstanding(q)
      BY <1>1 DEF Outs
    <2> QED
      BY <2>1 DEF Outs
  <1>3. \A h : Waiting(h)' = Waiting(h)
    BY DEF Waiting, ProcsOn
  <1>4. ASSUME NEW h \in Hosts \ overran'
        PROVE  Cardinality(Numbered(Outs', h, MaxOut)) = Queued(h)' + Cardinality(Waiting(h)')
    <2> DEFINE n == Cardinality(Numbered(Outs, h, MaxOut))
    <2> DEFINE k == Cardinality(Numbered(Outs', h, MaxOut))
    <2> DEFINE w == Cardinality(Waiting(h))
    <2>1. n = Queued(h) + w /\ w \in Nat
      BY ConservedIs
    <2>2. n \in Nat
      BY NumberedFinite, Sizes
    <2>3. k = n + (IF h = Host[p] THEN 1 ELSE 0)
      <3> DEFINE o == Outs
      <3> DEFINE t == Outs'
      <3>1. /\ o \in [Procs -> Int] /\ o[p] \in 0 .. MaxOut - 1
            /\ t = [o EXCEPT ![p] = o[p] + 1]
        BY <1>1, <1>2
      <3>2. SUFFICES Cardinality(Numbered(t, h, MaxOut)) =
                       Cardinality(Numbered(o, h, MaxOut)) + (IF h = Host[p] THEN 1 ELSE 0)
        OBVIOUS
      <3> HIDE DEF o, t
      <3> QED
        BY <3>1, NumberedMore, Sizes
    <2>4. Queued(h) \in Int
      BY HostNumbers DEF BaseInv, Queued
    <2>5. SUFFICES k = Queued(h)' + w
      BY <1>3
    <2> HIDE DEF n, k, w
    <2> QED
      BY <2>1, <2>2, <2>3, <2>4
  <1> QED
    BY <1>4, ConservedPrimed

\* A completion that its process is handed is one request and one entry less.
LEMMA ConservedTaken ==
  ASSUME BaseInv, BaseInv', Conserved, NEW p \in Procs,
         \A q \in Procs : Outstanding(q)' = Outstanding(q) - (IF q = p THEN 1 ELSE 0),
         \A h \in Hosts : Queued(h)' = Queued(h) - (IF h = Host[p] THEN 1 ELSE 0),
         UNCHANGED <<stuck, overran>>
  PROVE  Conserved'
  <1>1. ASSUME NEW q \in Procs
        PROVE  /\ Outstanding(q) \in Int /\ Outstanding(q) <= MaxOut
               /\ Outstanding(q)' \in Int /\ Outstanding(q)' >= 0
    <2>1. Outstanding(q) \in Int /\ Outstanding(q) <= MaxOut
      BY ProcNumbers DEF BaseInv, OwnInv
    <2>2. Outstanding(q)' \in Int
      BY <2>1
    <2>3. Outstanding(q)' >= 0
      BY OwnsPrimed DEF HandedOwn
    <2> QED
      BY <2>1, <2>2, <2>3
  <1>2. Outs' \in [Procs -> Int] /\ (Outs')[p] \in 0 .. MaxOut - 1
    BY <1>1, Sizes DEF Outs
  <1>3. Outs = [Outs' EXCEPT ![p] = (Outs')[p] + 1]
    <2>1. \A q \in Procs : Outstanding(q) = IF q = p THEN Outstanding(p)' + 1 ELSE Outstanding(q)'
      BY <1>1
    <2> QED
      BY <2>1 DEF Outs
  <1>4. \A h : Waiting(h)' = Waiting(h)
    BY DEF Waiting, ProcsOn
  <1>5. ASSUME NEW h \in Hosts \ overran'
        PROVE  Cardinality(Numbered(Outs', h, MaxOut)) = Queued(h)' + Cardinality(Waiting(h)')
    <2> DEFINE n == Cardinality(Numbered(Outs, h, MaxOut))
    <2> DEFINE k == Cardinality(Numbered(Outs', h, MaxOut))
    <2> DEFINE w == Cardinality(Waiting(h))
    <2>1. n = Queued(h) + w /\ w \in Nat
      BY ConservedIs
    <2>2. k \in Nat
      BY NumberedFinite, Sizes
    <2>3. n = k + (IF h = Host[p] THEN 1 ELSE 0)
      <3> DEFINE o == Outs'
      <3> DEFINE t == Outs
      <3>1. /\ o \in [Procs -> Int] /\ o[p] \in 0 .. MaxOut - 1
            /\ t = [o EXCEPT ![p] = o[p] + 1]
        BY <1>2, <1>3
      <3>2. SUFFICES Cardinality(Numbered(t, h, MaxOut)) =
                       Cardinality(Numbered(o, h, MaxOut)) + (IF h = Host[p] THEN 1 ELSE 0)
        OBVIOUS
      <3> HIDE DEF o, t
      <3> QED
        BY <3>1, NumberedMore, Sizes
    <2>4. Queued(h) \in Int
      BY HostNumbers DEF BaseInv, Queued
    <2>5. SUFFICES k = Queued(h)' + w
      BY <1>4
    <2> HIDE DEF n, k, w
    <2> QED
      BY <2>1, <2>2, <2>3, <2>4
  <1> QED
    BY <1>5, ConservedPrimed

\* A completion that is given up is one entry less and one process stuck.
LEMMA ConservedGivenUp ==
  ASSUME BaseInv, Conserved, NEW p \in Procs, stuck[p] = "no",
         \A q \in Procs : Outstanding(q)' = Outstanding(q),
         \A h \in Hosts : Queued(h)' = Queued(h) - (IF h = Host[p] THEN 1 ELSE 0),
         stuck' = [stuck EXCEPT ![p] = "poll"], UNCHANGED overran
  PROVE  Conserved'
  <1>1. Outs' = Outs
    BY DEF Outs
  <1>2. ASSUME NEW h \in Hosts
        PROVE  Cardinality(Waiting(h)') =
                 Cardinality(Waiting(h)) + (IF h = Host[p] THEN 1 ELSE 0)
    <2>1. stuck \in [Procs -> {"no", "post", "poll"}]
      BY DEF BaseInv, Types
    <2>2. CASE h = Host[p]
      <3>1. Waiting(h)' = Waiting(h) \cup {p} /\ p \notin Waiting(h)
        BY <2>1, <2>2 DEF Waiting, ProcsOn
      <3>2. IsFiniteSet(Waiting(h))
        BY ConservedIs
      <3>3. Cardinality(Waiting(h) \cup {p}) = Cardinality(Waiting(h)) + 1
        BY <3>1, <3>2, FS_AddElement
      <3> QED
        BY <2>2, <3>1, <3>3
    <2>3. CASE h # Host[p]
      <3>1. Waiting(h)' = Waiting(h)
        BY <2>1, <2>3 DEF Waiting, ProcsOn
      <3>2. Cardinality(Waiting(h)) \in Nat
        BY ConservedIs
      <3> QED
        BY <2>3, <3>1, <3>2
    <2> QED
      BY <2>2, <2>3
  <1>3. ASSUME NEW h \in Hosts \ overran'
        PROVE  Cardinality(Numbered(Outs', h, MaxOut)) = Queued(h)' + Cardinality(Waiting(h)')
    <2> DEFINE n == Cardinality(Numbered(Outs, h, MaxOut))
    <2> DEFINE w == Cardinality(Waiting(h))
    <2> DEFINE x == Cardinality(Waiting(h)')
    <2>1. n = Queued(h) + w /\ w \in Nat
      BY ConservedIs
    <2>2. x = w + (IF h = Host[p] THEN 1 ELSE 0)
      BY <1>2
    <2>3. Queued(h) \in Int
      BY HostNumbers DEF BaseInv, Queued
    <2>4. SUFFICES n = Queued(h)' + x
      BY <1>1
    <2> HIDE DEF n, w, x
    <2> QED
      BY <2>1, <2>2, <2>3
  <1> QED
    BY <1>3, ConservedPrimed

\* What a post that is answered does to the numbers; one that is refused makes
\* its process stuck and does nothing else.
LEMMA PostSendCounts ==
  ASSUME BaseInv, NEW p \in Procs, NEW op \in {"SEND", "RDMA"}, PostSend(p, op),
         SqUsed(Host[p]) < MaxWr
  PROVE  /\ Outstanding(p) < MaxOut
         /\ \A q \in Procs : Outstanding(q)' = Outstanding(q) + (IF q = p THEN 1 ELSE 0)
         /\ \A h \in Hosts : Queued(h)' = Queued(h) + (IF h = Host[p] THEN 1 ELSE 0)
         /\ \A h \in Hosts :
              SendsIn(h)' = SendsIn(h) + (IF h = Host[p] /\ op = "SEND" THEN 1 ELSE 0)
         /\ \A h : RqLen(h)' = RqLen(h)
         /\ sends' = [sends EXCEPT ![p] = sends[p] + 1] /\ sends[p] < MaxPosts
         /\ UNCHANGED <<recvs, err, overran, stuck>>
  <1> DEFINE h == Host[p]
  <1> DEFINE wr == [proc |-> p, op |-> op]
  <1>1. Types /\ h \in Hosts
    BY DataPathAssumption DEF BaseInv
  <1>2. /\ sq' = [sq EXCEPT ![h] = Append(sq[h], wr)]
        /\ sends' = [sends EXCEPT ![p] = sends[p] + 1]
        /\ UNCHANGED <<rq, acked, cq, err, overran, recvs, got, stuck>>
        /\ sends[p] < MaxPosts /\ Outstanding(p) < MaxOut
    BY DEF PostSend, Posted, MayPost
  <1>3. wr \in Wr /\ wr.proc = p /\ wr.op = op /\ h = Host[wr.proc]
    BY DEF Wr
  <1>4. \A q \in Procs : Outstanding(q)' = Outstanding(q) + (IF q = p THEN 1 ELSE 0)
    BY <1>1, <1>2, OneMore
  <1>5. h = Host[p]
    OBVIOUS
  <1> HIDE DEF h, wr
  <1>6. \A g \in Hosts : /\ SqLen(g)' = SqLen(g) + (IF g = h THEN 1 ELSE 0)
                         /\ SendsIn(g)' = SendsIn(g) +
                              (IF g = h /\ wr.op = "SEND" THEN 1 ELSE 0)
    BY <1>1, <1>2, <1>3, SqPush
  <1>7. \A g : RqLen(g)' = RqLen(g) /\ AckedLen(g)' = AckedLen(g) /\ CqLen(g)' = CqLen(g)
    BY <1>2, Stays
  <1>8. ASSUME NEW g \in Hosts
        PROVE  Queued(g)' = Queued(g) + (IF g = h THEN 1 ELSE 0)
    <2>1. /\ SqLen(g) \in Nat /\ RqLen(g) \in Nat /\ AckedLen(g) \in Nat /\ CqLen(g) \in Nat
      BY <1>1, HostNumbers
    <2> QED
      BY <1>6, <1>7, <2>1 DEF Queued
  <1> QED
    BY <1>2, <1>3, <1>4, <1>5, <1>6, <1>7, <1>8

LEMMA PostRecvCounts ==
  ASSUME BaseInv, NEW p \in Procs, PostRecv(p), RqUsed(Host[p]) < MaxWr
  PROVE  /\ Outstanding(p) < MaxOut
         /\ \A q \in Procs : Outstanding(q)' = Outstanding(q) + (IF q = p THEN 1 ELSE 0)
         /\ \A h \in Hosts : Queued(h)' = Queued(h) + (IF h = Host[p] THEN 1 ELSE 0)
         /\ \A h : SendsIn(h)' = SendsIn(h)
         /\ \A h \in Hosts : RqLen(h)' = RqLen(h) + (IF h = Host[p] THEN 1 ELSE 0)
         /\ recvs' = [recvs EXCEPT ![p] = recvs[p] + 1] /\ recvs[p] < MaxPosts
         /\ UNCHANGED <<sends, err, overran, uncalled, stuck>>
  <1> DEFINE h == Host[p]
  <1>1. Types /\ h \in Hosts
    BY DataPathAssumption DEF BaseInv
  <1>2. /\ rq' = [rq EXCEPT ![h] = Append(rq[h], p)]
        /\ recvs' = [recvs EXCEPT ![p] = recvs[p] + 1]
        /\ UNCHANGED <<sq, acked, cq, err, overran, sends, got, uncalled, stuck>>
        /\ recvs[p] < MaxPosts /\ Outstanding(p) < MaxOut
    BY DEF PostRecv, RecvPosted, MayPost
  <1>3. \A q \in Procs : Outstanding(q)' = Outstanding(q) + (IF q = p THEN 1 ELSE 0)
    BY <1>1, <1>2, OneMore
  <1>4. h = Host[p]
    OBVIOUS
  <1> HIDE DEF h
  <1>5. \A g \in Hosts : RqLen(g)' = RqLen(g) + (IF g = h THEN 1 ELSE 0)
    BY <1>1, <1>2, <1>4, RqPush
  <1>6. \A g : /\ SqLen(g)' = SqLen(g) /\ SendsIn(g)' = SendsIn(g)
               /\ AckedLen(g)' = AckedLen(g) /\ CqLen(g)' = CqLen(g)
    BY <1>2, Stays
  <1>7. ASSUME NEW g \in Hosts
        PROVE  Queued(g)' = Queued(g) + (IF g = h THEN 1 ELSE 0)
    <2>1. /\ SqLen(g) \in Nat /\ RqLen(g) \in Nat /\ AckedLen(g) \in Nat /\ CqLen(g) \in Nat
      BY <1>1, HostNumbers
    <2> QED
      BY <1>5, <1>6, <2>1 DEF Queued
  <1> QED
    BY <1>2, <1>3, <1>4, <1>5, <1>6, <1>7

\* A step of a process conserves the requests of every host.
LEMMA ProcConserves ==
  ASSUME BaseInv, BaseInv', Conserved, NEW p \in Procs,
         \/ \E op \in {"SEND", "RDMA"} : PostSend(p, op)
         \/ PostRecv(p) \/ PollCq(p)
  PROVE  Conserved'
  <1>1. ASSUME stuck[p] = "no", stuck' = [stuck EXCEPT ![p] = "post"],
               UNCHANGED <<sq, rq, acked, cq, overran, counts, got>>
        PROVE  Conserved'
    <2>1. \A h \in Hosts : Queued(h)' = Queued(h)
      BY <1>1 DEF Queued, SqLen, RqLen, AckedLen, CqLen
    <2>2. \A q \in Procs : Outstanding(q)' = Outstanding(q)
      BY <1>1 DEF Outstanding, counts
    <2>3. \A q \in Procs : stuck'[q] = "poll" <=> stuck[q] = "poll"
      BY <1>1 DEF BaseInv, Types
    <2> QED
      BY <1>1, <2>1, <2>2, <2>3, ConservedKept
  <1>2. ASSUME NEW op \in {"SEND", "RDMA"}, PostSend(p, op) PROVE Conserved'
    <2>1. CASE SqUsed(Host[p]) < MaxWr
      <3>1. /\ Outstanding(p) < MaxOut
            /\ \A q \in Procs : Outstanding(q)' = Outstanding(q) + (IF q = p THEN 1 ELSE 0)
            /\ \A h \in Hosts : Queued(h)' = Queued(h) + (IF h = Host[p] THEN 1 ELSE 0)
            /\ UNCHANGED <<stuck, overran>>
        BY <1>2, <2>1, PostSendCounts
      <3> QED
        BY <3>1, ConservedPost
    <2>2. CASE ~(SqUsed(Host[p]) < MaxWr)
      BY <1>1, <1>2, <2>2 DEF PostSend, MayPost, counts
    <2> QED
      BY <2>1, <2>2
  <1>3. CASE PostRecv(p)
    <2>1. CASE RqUsed(Host[p]) < MaxWr
      <3>1. /\ Outstanding(p) < MaxOut
            /\ \A q \in Procs : Outstanding(q)' = Outstanding(q) + (IF q = p THEN 1 ELSE 0)
            /\ \A h \in Hosts : Queued(h)' = Queued(h) + (IF h = Host[p] THEN 1 ELSE 0)
            /\ UNCHANGED <<stuck, overran>>
        BY <1>3, <2>1, PostRecvCounts
      <3> QED
        BY <3>1, ConservedPost
    <2>2. CASE ~(RqUsed(Host[p]) < MaxWr)
      BY <1>1, <1>3, <2>2 DEF PostRecv, MayPost, counts
    <2> QED
      BY <2>1, <2>2
  <1>4. CASE PollCq(p)
    <2> DEFINE h == Host[p]
    <2>1. Types /\ h \in Hosts
      BY DataPathAssumption DEF BaseInv
    <2>2. /\ cq[h] # <<>> /\ cq' = [cq EXCEPT ![h] = Tail(cq[h])] /\ stuck[p] = "no"
          /\ UNCHANGED <<sq, rq, acked, overran, sends, recvs>>
          /\ \/ got' = [got EXCEPT ![p] = got[p] + 1] /\ UNCHANGED stuck
             \/ stuck' = [stuck EXCEPT ![p] = "poll"] /\ UNCHANGED got
      BY <1>4 DEF PollCq, Polled, counts
    <2>3. h = Host[p]
      OBVIOUS
    <2> HIDE DEF h
    <2>4. \A g \in Hosts : CqLen(g)' = CqLen(g) - (IF g = h THEN 1 ELSE 0)
      BY <2>1, <2>2, CqPop
    <2>5. ASSUME NEW g \in Hosts PROVE Queued(g)' = Queued(g) - (IF g = h THEN 1 ELSE 0)
      <3>1. SqLen(g)' = SqLen(g) /\ RqLen(g)' = RqLen(g) /\ AckedLen(g)' = AckedLen(g)
        BY <2>2, Stays
      <3>2. SqLen(g) \in Nat /\ RqLen(g) \in Nat /\ AckedLen(g) \in Nat /\ CqLen(g) \in Nat
        BY <2>1, HostNumbers
      <3> QED
        BY <2>4, <3>1, <3>2 DEF Queued
    <2>6. CASE got' = [got EXCEPT ![p] = got[p] + 1] /\ UNCHANGED stuck
      <3>1. ASSUME NEW q \in Procs
            PROVE  Outstanding(q)' = Outstanding(q) - (IF q = p THEN 1 ELSE 0)
        <4>1. sends[q] \in Nat /\ recvs[q] \in Nat /\ got[q] \in Nat
          BY <2>1, ProcNumbers
        <4>2. got'[q] = got[q] + (IF q = p THEN 1 ELSE 0)
          BY <2>1, <2>6, <4>1 DEF Types
        <4> QED
          BY <2>2, <4>1, <4>2 DEF Outstanding
      <3> QED
        BY <2>2, <2>3, <2>5, <2>6, <3>1, ConservedTaken
    <2>7. CASE stuck' = [stuck EXCEPT ![p] = "poll"] /\ UNCHANGED got
      <3>1. \A q \in Procs : Outstanding(q)' = Outstanding(q)
        BY <2>2, <2>7 DEF Outstanding
      <3> QED
        BY <2>2, <2>3, <2>5, <2>7, <3>1, ConservedGivenUp
    <2> QED
      BY <2>2, <2>6, <2>7
  <1> QED
    BY <1>2, <1>3, <1>4

\* So does a step of a NIC, but for a host whose completion queue overflows.
LEMMA NicConserves ==
  ASSUME BaseInv, Conserved, NEW h \in Hosts, Nic(h)
  PROVE  Conserved'
  <1>1. Accounted
    <2>1. CASE Arrive(h)
      BY <2>1, ArriveBase
    <2>2. CASE Ack(h)
      BY <2>2, AckBase
    <2>3. CASE Fail(h)
      BY <2>3, FailBase
    <2>4. CASE Flush(h)
      BY <2>4, FlushBase
    <2> QED
      BY <2>1, <2>2, <2>3, <2>4 DEF Nic
  <1>2. UNCHANGED <<counts, got, stuck>>
    BY DEF Nic, Arrive, Ack, Fail, Flush
  <1>3. \A q \in Procs : Outstanding(q)' = Outstanding(q)
    BY <1>2 DEF Outstanding, counts
  <1> QED
    BY <1>1, <1>2, <1>3, ConservedKept DEF Accounted

-----------------------------------------------------------------------------
(* As long as nobody sends what was not called for, and no completion queue *)
(* overflows, the path holds.                                               *)

\* A credit is a receive of the partner's, which is on the other host.
LEMMA CreditsFit ==
  ASSUME Types, NEW h \in Hosts
  PROVE  Cardinality(Credits(h)) <= Cardinality(Receives(Other(h)))
  <1> DEFINE f == [r \in Credits(h) |-> <<Partner[r[1]], r[2]>>]
  <1>1. ASSUME NEW r \in Credits(h)
        PROVE  /\ r[1] \in Procs /\ Partner[r[1]] \in Procs
               /\ Partner[Partner[r[1]]] = r[1] /\ r = <<r[1], r[2]>>
               /\ <<Partner[r[1]], r[2]>> \in Receives(Other(h))
    <2>1. /\ r \in ProcsOn(h) \X (1 .. MaxPosts) /\ r[2] <= Credited[r[1]]
          /\ r[1] \in Procs /\ Host[r[1]] = h /\ r[2] \in 1 .. MaxPosts /\ r = <<r[1], r[2]>>
      BY DEF Credits, Numbered, ProcsOn
    <2> DEFINE q == Partner[r[1]]
    <2>2. q \in Procs /\ Partner[q] = r[1] /\ Host[q] # h /\ Host[q] \in Hosts
      BY <2>1, DataPathAssumption
    <2>3. Host[q] = Other(h)
      BY <2>2, TwoHosts
    <2>4. r[2] <= recvs[q]
      <3>1. sends[r[1]] \in Nat /\ recvs[q] \in Nat
        BY <2>1, <2>2, ProcNumbers
      <3> QED
        BY <2>1, <3>1 DEF Credited
    <2>5. <<q, r[2]>> \in Receives(Other(h))
      BY <2>1, <2>2, <2>3, <2>4 DEF Receives, Numbered, ProcsOn
    <2> QED
      BY <2>1, <2>2, <2>5
  <1>2. f \in [Credits(h) -> Receives(Other(h))]
    BY <1>1
  <1>3. \A r, s \in Credits(h) : f[r] = f[s] => r = s
    BY <1>1
  <1>4. f \in Injection(Credits(h), Receives(Other(h)))
    BY <1>2, <1>3 DEF Injection, IsInjective
  <1>5. IsFiniteSet(Receives(Other(h)))
    BY NumberedFinite, Sizes DEF Receives
  <1> QED
    BY <1>4, <1>5, FS_Injection

\* The numbers of the credits.
LEMMA CreditNumbers ==
  ASSUME Types, NEW h \in Hosts
  PROVE  /\ SendsIn(h) \in Nat /\ RqLen(Other(h)) \in Nat
         /\ Cardinality(Credits(h)) \in Nat /\ Cardinality(Receives(Other(h))) \in Nat
  <1>1. Other(h) \in Hosts
    BY TwoHosts
  <1> QED
    BY <1>1, HostNumbers, NumberedFinite, Sizes DEF Credits, Receives

LEMMA CreditedType ==
  ASSUME Types
  PROVE  Credited \in [Procs -> Int] /\ recvs \in [Procs -> Int]
  BY DataPathAssumption DEF Types, Credited

\* More sends and receives, no fewer credits.
LEMMA CreditsGrow ==
  ASSUME Types, Types', \A p \in Procs : sends[p] <= sends'[p] /\ recvs[p] <= recvs'[p],
         NEW h \in Hosts
  PROVE  Cardinality(Credits(h)) <= Cardinality(Credits(h)')
         /\ Cardinality(Credits(h)') \in Nat
  <1>1. \A p \in Procs : /\ sends[p] \in Int /\ recvs[p] \in Int /\ Partner[p] \in Procs
                         /\ sends'[p] \in Int /\ recvs'[p] \in Int
    BY DataPathAssumption DEF Types
  <1>2. Credited \in [Procs -> Int] /\ Credited' \in [Procs -> Int]
    BY <1>1 DEF Credited
  <1>3. \A p \in Procs : Credited[p] <= (Credited')[p]
    BY <1>1 DEF Credited
  <1>4. Cardinality(Numbered(Credited, h, MaxPosts))
          <= Cardinality(Numbered(Credited', h, MaxPosts))
    BY <1>2, <1>3, NumberedMonotone, Sizes
  <1>5. Credits(h)' = Numbered(Credited', h, MaxPosts)
    BY DEF Credits
  <1> QED
    BY <1>4, <1>5, NumberedFinite, Sizes DEF Credits

\* The numbers after a step.
HostNats == \A h \in Hosts : SendsIn(h) \in Nat /\ RqLen(Other(h)) \in Nat

LEMMA NumbersPrimed == Types' => HostNats'
  <1>1. Types => HostNats
    BY CreditNumbers DEF HostNats
  <1> QED
    BY <1>1, PTL

\* Nothing is sent or received anew, nothing taken.
LEMMA CreditKept ==
  ASSUME CreditInv, UNCHANGED counts, uncalled \subseteq uncalled',
         overran \subseteq overran',
         uncalled' = {} /\ overran' = {} => err' = err,
         \A h \in Hosts : SendsIn(h)' + RqLen(Other(h)) = SendsIn(h) + RqLen(Other(h))',
         Types, Types'
  PROVE  CreditInv'
  <1> SUFFICES ASSUME uncalled' = {}, overran' = {}
               PROVE  /\ err' = {}
                      /\ \A h \in Hosts :
                           SendsIn(h)' + Cardinality(Receives(Other(h))')
                             <= Cardinality(Credits(h)') + RqLen(Other(h))'
    BY DEF CreditInv
  <1>1. uncalled = {} /\ overran = {}
    OBVIOUS
  <1>2. ASSUME NEW h \in Hosts
        PROVE  SendsIn(h)' + Cardinality(Receives(Other(h))')
                 <= Cardinality(Credits(h)') + RqLen(Other(h))'
    <2> DEFINE a == Cardinality(Receives(Other(h)))
    <2> DEFINE b == Cardinality(Credits(h))
    <2>1. Receives(Other(h))' = Receives(Other(h)) /\ Credits(h)' = Credits(h)
      BY DEF Receives, Credits, Credited, Numbered, counts
    <2>2. /\ SendsIn(h) \in Nat /\ RqLen(Other(h)) \in Nat /\ a \in Nat /\ b \in Nat
          /\ SendsIn(h) + a <= b + RqLen(Other(h))
      BY <1>1, CreditNumbers DEF CreditInv
    <2>3. SendsIn(h)' \in Nat /\ RqLen(Other(h))' \in Nat
      BY NumbersPrimed DEF HostNats
    <2>4. SendsIn(h)' + RqLen(Other(h)) = SendsIn(h) + RqLen(Other(h))'
      OBVIOUS
    <2>5. SUFFICES SendsIn(h)' + a <= b + RqLen(Other(h))'
      BY <2>1
    <2> HIDE DEF a, b
    <2> QED
      BY <2>2, <2>3, <2>4
  <1> QED
    BY <1>1, <1>2 DEF CreditInv

\* A SEND that is called for uses a credit that was not used; RDMA uses none.
LEMMA CreditSend ==
  ASSUME BaseInv, Types', CreditInv, NEW p \in Procs, NEW op \in {"SEND", "RDMA"},
         PostSend(p, op), SqUsed(Host[p]) < MaxWr
  PROVE  CreditInv'
  <1> SUFFICES ASSUME uncalled' = {}, overran' = {}
               PROVE  /\ err' = {}
                      /\ \A h \in Hosts :
                           SendsIn(h)' + Cardinality(Receives(Other(h))')
                             <= Cardinality(Credits(h)') + RqLen(Other(h))'
    BY DEF CreditInv
  <1>1. Types /\ sends[p] \in Nat /\ recvs[Partner[p]] \in Nat
    BY ProcNumbers, DataPathAssumption DEF BaseInv
  <1>2. uncalled = {} /\ (op = "SEND" => HasCredit(p))
    BY DEF PostSend
  <1>3. /\ \A h \in Hosts :
             SendsIn(h)' = SendsIn(h) + (IF h = Host[p] /\ op = "SEND" THEN 1 ELSE 0)
        /\ \A h : RqLen(h)' = RqLen(h)
        /\ sends' = [sends EXCEPT ![p] = sends[p] + 1] /\ sends[p] < MaxPosts
        /\ UNCHANGED <<recvs, err, overran>>
    BY PostSendCounts
  <1>4. ASSUME NEW h \in Hosts
        PROVE  /\ Cardinality(Credits(h)') \in Nat
               /\ Cardinality(Credits(h)') >=
                    Cardinality(Credits(h)) + (IF h = Host[p] /\ op = "SEND" THEN 1 ELSE 0)
    <2>1. CASE op = "SEND"
      <3> DEFINE o == Credited
      <3> DEFINE t == Credited'
      <3>1. o \in [Procs -> Int] /\ o[p] \in 0 .. MaxPosts - 1
        BY <1>1, <1>2, <1>3, <2>1, CreditedType, Sizes DEF HasCredit, Credited
      <3>2. t = [o EXCEPT ![p] = o[p] + 1]
        <4>1. sends'[p] = sends[p] + 1 /\ sends'[p] <= recvs[Partner[p]]
          <5>1. sends \in [Procs -> 0 .. MaxPosts] /\ sends[p] < recvs[Partner[p]]
            BY <1>1, <1>2, <2>1 DEF HasCredit, Types
          <5>2. sends'[p] = sends[p] + 1
            BY <1>3, <5>1, CounterStep, Sizes
          <5> QED
            BY <1>1, <5>1, <5>2
        <4>2. \A q \in Procs \ {p} : sends'[q] = sends[q]
          BY <1>1, <1>3 DEF Types
        <4>3. o[p] = sends[p] /\ t[p] = sends[p] + 1 /\ o[p] + 1 = t[p]
          BY <1>1, <1>2, <1>3, <2>1, <4>1 DEF HasCredit, Credited
        <4>4. \A q \in Procs \ {p} : t[q] = o[q]
          BY <1>3, <4>2 DEF Credited
        <4>5. o \in [Procs -> Int] /\ t = [q \in Procs |-> t[q]]
          BY <3>1 DEF Credited
        <4> HIDE DEF o, t
        <4> QED
          BY <4>3, <4>4, <4>5
      <3>3. Credits(h) = Numbered(o, h, MaxPosts) /\ Credits(h)' = Numbered(t, h, MaxPosts)
        BY DEF Credits
      <3> HIDE DEF o, t
      <3>4. Cardinality(Numbered(t, h, MaxPosts)) =
              Cardinality(Numbered(o, h, MaxPosts)) + (IF h = Host[p] THEN 1 ELSE 0)
        BY <3>1, <3>2, NumberedMore, Sizes
      <3>5. Cardinality(Numbered(t, h, MaxPosts)) \in Nat
        BY NumberedFinite, Sizes
      <3> QED
        BY <2>1, <3>3, <3>4, <3>5
    <2>2. CASE op # "SEND"
      <3>1. \A q \in Procs : sends[q] <= sends'[q] /\ recvs[q] <= recvs'[q]
        <4>1. \A q \in Procs : sends[q] \in Nat /\ recvs[q] \in Nat
          BY <1>1, ProcNumbers
        <4>2. \A q \in Procs : sends'[q] = sends[q] + (IF q = p THEN 1 ELSE 0)
          <5>1. sends \in [Procs -> 0 .. MaxPosts]
            BY <1>1 DEF Types
          <5> QED
            BY <1>3, <5>1, CounterStep, Sizes
        <4>3. recvs' = recvs
          BY <1>3
        <4> QED
          BY <4>1, <4>2, <4>3
      <3>2. Cardinality(Credits(h)) \in Nat
        BY <1>1, CreditNumbers
      <3> QED
        BY <1>1, <2>2, <3>1, <3>2, CreditsGrow
    <2> QED
      BY <2>1, <2>2
  <1>5. ASSUME NEW h \in Hosts
        PROVE  SendsIn(h)' + Cardinality(Receives(Other(h))')
                 <= Cardinality(Credits(h)') + RqLen(Other(h))'
    <2> DEFINE a == Cardinality(Receives(Other(h)))
    <2> DEFINE b == Cardinality(Credits(h))
    <2> DEFINE c == Cardinality(Credits(h)')
    <2>1. Receives(Other(h))' = Receives(Other(h))
      BY <1>3 DEF Receives, Numbered
    <2>2. /\ SendsIn(h) \in Nat /\ RqLen(Other(h)) \in Nat /\ a \in Nat /\ b \in Nat
          /\ SendsIn(h) + a <= b + RqLen(Other(h))
      BY <1>1, <1>2, <1>3, CreditNumbers DEF CreditInv
    <2>3. c \in Nat /\ c >= b + (IF h = Host[p] /\ op = "SEND" THEN 1 ELSE 0)
      BY <1>4
    <2>4. SUFFICES SendsIn(h)' + a <= c + RqLen(Other(h))
      BY <1>3, <2>1
    <2>5. SendsIn(h)' = SendsIn(h) + (IF h = Host[p] /\ op = "SEND" THEN 1 ELSE 0)
      BY <1>3
    <2> HIDE DEF a, b, c
    <2> QED
      BY <2>2, <2>3, <2>5
  <1> QED
    BY <1>2, <1>3, <1>5 DEF CreditInv

\* A receive adds a buffer, and calls for one send more.
LEMMA CreditRecv ==
  ASSUME BaseInv, Types', CreditInv, NEW p \in Procs, PostRecv(p), RqUsed(Host[p]) < MaxWr
  PROVE  CreditInv'
  <1> SUFFICES ASSUME uncalled' = {}, overran' = {}
               PROVE  /\ err' = {}
                      /\ \A h \in Hosts :
                           SendsIn(h)' + Cardinality(Receives(Other(h))')
                             <= Cardinality(Credits(h)') + RqLen(Other(h))'
    BY DEF CreditInv
  <1>1. Types /\ \A q \in Procs : sends[q] \in Nat /\ recvs[q] \in Nat
    BY ProcNumbers DEF BaseInv
  <1>2. /\ \A h : SendsIn(h)' = SendsIn(h)
        /\ \A h \in Hosts : RqLen(h)' = RqLen(h) + (IF h = Host[p] THEN 1 ELSE 0)
        /\ recvs' = [recvs EXCEPT ![p] = recvs[p] + 1] /\ recvs[p] < MaxPosts
        /\ UNCHANGED <<sends, err, overran, uncalled>>
    BY PostRecvCounts
  <1>3. uncalled = {} /\ overran = {}
    BY <1>2
  <1>4. \A q \in Procs : sends[q] <= sends'[q] /\ recvs[q] <= recvs'[q]
    BY <1>1, <1>2 DEF Types
  <1>5. ASSUME NEW h \in Hosts
        PROVE  SendsIn(h)' + Cardinality(Receives(Other(h))')
                 <= Cardinality(Credits(h)') + RqLen(Other(h))'
    <2> DEFINE a == Cardinality(Receives(Other(h)))
    <2> DEFINE b == Cardinality(Credits(h))
    <2> DEFINE c == Cardinality(Credits(h)')
    <2> DEFINE d == Cardinality(Receives(Other(h))')
    <2>1. Other(h) \in Hosts
      BY TwoHosts
    <2>2. /\ SendsIn(h) \in Nat /\ RqLen(Other(h)) \in Nat /\ a \in Nat /\ b \in Nat
          /\ SendsIn(h) + a <= b + RqLen(Other(h))
      BY <1>1, <1>3, CreditNumbers DEF CreditInv
    <2>3. c \in Nat /\ b <= c
      BY <1>1, <1>4, CreditsGrow
    <2>4. d = a + (IF Other(h) = Host[p] THEN 1 ELSE 0)
      <3> DEFINE o == recvs
      <3> DEFINE t == recvs'
      <3>1. o \in [Procs -> Int] /\ o[p] \in 0 .. MaxPosts - 1 /\ t = [o EXCEPT ![p] = o[p] + 1]
        BY <1>1, <1>2, CreditedType, Sizes
      <3>2. Receives(Other(h))' = Numbered(t, Other(h), MaxPosts)
        BY DEF Receives
      <3>3. a = Cardinality(Numbered(o, Other(h), MaxPosts))
        BY DEF Receives
      <3> HIDE DEF o, t, a
      <3>4. Cardinality(Numbered(t, Other(h), MaxPosts)) =
              Cardinality(Numbered(o, Other(h), MaxPosts))
                + (IF Other(h) = Host[p] THEN 1 ELSE 0)
        BY <3>1, NumberedMore, Sizes
      <3> QED
        BY <3>2, <3>3, <3>4
    <2>5. RqLen(Other(h))' = RqLen(Other(h)) + (IF Other(h) = Host[p] THEN 1 ELSE 0)
      BY <1>2, <2>1
    <2>6. SUFFICES SendsIn(h) + d <= c + RqLen(Other(h))'
      BY <1>2
    <2> HIDE DEF a, b, c, d
    <2> QED
      BY <2>2, <2>3, <2>4, <2>5
  <1> QED
    BY <1>2, <1>3, <1>5 DEF CreditInv

\* Any other step of a process takes no message and no buffer.
LEMMA CreditProc ==
  ASSUME BaseInv, Types', CreditInv, NEW p \in Procs,
         \/ \E op \in {"SEND", "RDMA"} : PostSend(p, op)
         \/ PostRecv(p) \/ PollCq(p)
  PROVE  CreditInv'
  <1>1. ASSUME UNCHANGED <<sq, rq, err, overran, counts, uncalled>> PROVE CreditInv'
    <2>1. \A h : SendsIn(h)' = SendsIn(h) /\ RqLen(h)' = RqLen(h)
      BY <1>1, Stays
    <2>2. Types
      BY DEF BaseInv
    <2>3. \A h \in Hosts : SendsIn(h)' + RqLen(Other(h)) = SendsIn(h) + RqLen(Other(h))'
      BY <2>1
    <2> QED
      BY <1>1, <2>2, <2>3, CreditKept
  <1>2. ASSUME NEW op \in {"SEND", "RDMA"}, PostSend(p, op) PROVE CreditInv'
    <2>1. CASE SqUsed(Host[p]) < MaxWr
      BY <1>2, <2>1, CreditSend
    <2>2. CASE ~(SqUsed(Host[p]) < MaxWr)
      BY <1>1, <1>2, <2>2 DEF PostSend, counts
    <2> QED
      BY <2>1, <2>2
  <1>3. CASE PostRecv(p)
    <2>1. CASE RqUsed(Host[p]) < MaxWr
      BY <1>3, <2>1, CreditRecv
    <2>2. CASE ~(RqUsed(Host[p]) < MaxWr)
      BY <1>1, <1>3, <2>2 DEF PostRecv, counts
    <2> QED
      BY <2>1, <2>2
  <1>4. CASE PollCq(p)
    BY <1>1, <1>4 DEF PollCq
  <1> QED
    BY <1>2, <1>3, <1>4

\* A SEND that arrives takes a buffer with it; no SEND finds none, and no QP
\* is in the error state unless a completion queue has overflowed.
LEMMA CreditNic ==
  ASSUME BaseInv, Types', CreditInv, NEW h \in Hosts, Nic(h)
  PROVE  CreditInv'
  <1>1. Types /\ UNCHANGED <<counts, uncalled>>
    BY DEF BaseInv, Nic, Arrive, Ack, Fail, Flush
  <1>2. CASE Arrive(h)
    <2>1. /\ overran \subseteq overran' /\ (overran' = {} => err' = err)
          /\ \A g \in Hosts : SendsIn(g)' + RqLen(Other(g)) = SendsIn(g) + RqLen(Other(g))'
      BY <1>2, ArriveBase DEF Accounted
    <2> QED
      BY <1>1, <2>1, CreditKept
  <1>3. CASE Ack(h)
    <2>1. overran \subseteq overran' /\ (overran' = {} => err' = err)
      BY <1>3, AckBase DEF Accounted
    <2>2. UNCHANGED <<sq, rq>>
      BY <1>3 DEF Ack
    <2>3. \A g : SendsIn(g)' = SendsIn(g) /\ RqLen(g)' = RqLen(g)
      BY <2>2, Stays
    <2>4. \A g \in Hosts : SendsIn(g)' + RqLen(Other(g)) = SendsIn(g) + RqLen(Other(g))'
      BY <2>3
    <2> QED
      BY <1>1, <2>1, <2>4, CreditKept
  <1>4. ASSUME uncalled = {}, overran = {}, Fail(h) PROVE FALSE
    <2> DEFINE o == Other(h)
    <2>1. err = {} /\ o \in Hosts
      BY <1>4, TwoHosts DEF CreditInv
    <2>2. sq[h] # <<>> /\ Head(sq[h]).op # "RDMA" /\ rq[o] = <<>>
      BY <1>4, <2>1 DEF Fail, GivesUp, Reaches
    <2>3. SendsIn(h) >= 1
      <3> DEFINE wr == Head(sq[h])
      <3>1. sq[h] \in Seq(Wr)
        BY <1>1 DEF Types
      <3>2. /\ wr \in Wr /\ Tail(sq[h]) \in Seq(Wr)
            /\ CountIn(Tail(sq[h]), SendWr)
                 = CountIn(sq[h], SendWr) - (IF wr \in SendWr THEN 1 ELSE 0)
        BY <2>2, <3>1, Pop
      <3>3. wr \in SendWr
        BY <2>2, <3>2 DEF SendWr, Wr
      <3>4. CountIn(Tail(sq[h]), SendWr) \in Nat /\ CountIn(sq[h], SendWr) \in Nat
        BY <3>1, <3>2, CountType
      <3> QED
        BY <3>2, <3>3, <3>4 DEF SendsIn
    <2>4. RqLen(o) = 0
      BY <2>2, EmptySeq DEF RqLen
    <2>5. Cardinality(Credits(h)) <= Cardinality(Receives(o))
      BY <1>1, CreditsFit
    <2>6. SendsIn(h) + Cardinality(Receives(o)) <= Cardinality(Credits(h)) + RqLen(o)
      BY <1>4 DEF CreditInv
    <2>7. /\ SendsIn(h) \in Nat /\ Cardinality(Credits(h)) \in Nat
          /\ Cardinality(Receives(o)) \in Nat
      BY <1>1, CreditNumbers
    <2> HIDE DEF o
    <2> QED
      BY <2>3, <2>4, <2>5, <2>6, <2>7
  <1>5. ASSUME uncalled = {}, overran = {}, Flush(h) PROVE FALSE
    BY <1>5 DEF Flush, CreditInv
  <1>6. CASE uncalled # {}
    BY <1>1, <1>6 DEF CreditInv
  <1>7. CASE overran # {}
    <2>1. Accounted
      BY ArriveBase, AckBase, FailBase, FlushBase DEF Nic
    <2> QED
      BY <1>7, <2>1 DEF CreditInv, Accounted
  <1> QED
    BY <1>2, <1>3, <1>4, <1>5, <1>6, <1>7 DEF Nic

-----------------------------------------------------------------------------

FullInv == BaseInv /\ Conserved /\ CreditInv

LEMMA FullInit == Init => FullInv
  <1> SUFFICES ASSUME Init PROVE FullInv
    OBVIOUS
  <1>1. BaseInv
    BY BaseInit
  <1>2. \A S : <<>> \in Seq(S) /\ Len(<<>>) = 0
    BY EmptySeq
  <1>3. ASSUME NEW h \in Hosts
        PROVE  /\ Cardinality(Numbered(Outs, h, MaxOut)) = 0
               /\ Cardinality(Waiting(h)) = 0
    <2>1. Numbered(Outs, h, MaxOut) = {}
      <3>1. \A p \in Procs : Outs[p] = 0
        BY DEF Init, Outs, Outstanding
      <3>2. \A r \in ProcsOn(h) \X (1 .. MaxOut) : ~(r[2] <= Outs[r[1]])
        BY <3>1 DEF ProcsOn
      <3> QED
        BY <3>2 DEF Numbered
    <2>2. Waiting(h) = {}
      BY DEF Init, Waiting, ProcsOn
    <2> QED
      BY <2>1, <2>2, FS_EmptySet
  <1>4. ASSUME NEW h \in Hosts
        PROVE  SqLen(h) = 0 /\ RqLen(h) = 0 /\ AckedLen(h) = 0 /\ CqLen(h) = 0 /\ SendsIn(h) = 0
    BY <1>2, CountEmpty DEF Init, SqLen, RqLen, AckedLen, CqLen, SendsIn
  <1>5. Conserved
    BY <1>3, <1>4, ConservedIs DEF Queued
  <1>6. CreditInv
    <2> SUFFICES ASSUME NEW h \in Hosts
                 PROVE  SendsIn(h) + Cardinality(Receives(Other(h)))
                          <= Cardinality(Credits(h)) + RqLen(Other(h))
      BY DEF CreditInv, Init
    <2>1. Receives(Other(h)) = {}
      <3>1. \A p \in Procs : recvs[p] = 0
        BY DEF Init
      <3>2. \A r \in ProcsOn(Other(h)) \X (1 .. MaxPosts) : ~(r[2] <= recvs[r[1]])
        BY <3>1 DEF ProcsOn
      <3> QED
        BY <3>2 DEF Receives, Numbered
    <2>2. Cardinality(Receives(Other(h))) = 0
      BY <2>1, FS_EmptySet
    <2>3. Cardinality(Credits(h)) \in Nat /\ RqLen(Other(h)) \in Nat
      BY <1>1, CreditNumbers DEF BaseInv
    <2> QED
      BY <1>4, <2>2, <2>3
  <1> QED
    BY <1>1, <1>5, <1>6 DEF FullInv

LEMMA FullStep == FullInv /\ [Next]_vars => FullInv'
  <1> SUFFICES ASSUME FullInv, [Next]_vars PROVE FullInv'
    OBVIOUS
  <1>1. BaseInv /\ Conserved /\ CreditInv /\ BaseInv'
    BY BaseStep DEF FullInv
  <1>2. Types /\ Types'
    BY <1>1 DEF BaseInv
  <1>3. ASSUME NEW p \in Procs,
               \/ \E op \in {"SEND", "RDMA"} : PostSend(p, op)
               \/ PostRecv(p) \/ PollCq(p)
        PROVE  Conserved' /\ CreditInv'
    BY <1>1, <1>2, <1>3, ProcConserves, CreditProc
  <1>4. ASSUME NEW h \in Hosts, Nic(h) PROVE Conserved' /\ CreditInv'
    BY <1>1, <1>2, <1>4, NicConserves, CreditNic
  <1>5. ASSUME UNCHANGED vars PROVE Conserved' /\ CreditInv'
    <2>1. UNCHANGED <<sq, rq, acked, cq, err, overran, counts, got, uncalled, stuck>>
      BY <1>5 DEF vars, counts
    <2>2. Conserved'
      BY <1>1, <2>1 DEF Conserved, Unanswered, Outstanding, ProcsOn, counts
    <2>3. CreditInv'
      BY <1>1, <2>1 DEF CreditInv, SendsIn, RqLen, Receives, Credits, Credited, Numbered, counts
    <2> QED
      BY <2>2, <2>3
  <1>6. Conserved' /\ CreditInv'
    BY <1>3, <1>4, <1>5 DEF Next
  <1> QED
    BY <1>1, <1>6 DEF FullInv

\* The invariant of the data path, with completion queues of any size.
THEOREM Invariance == Spec => []FullInv
  BY FullInit, FullStep, PTL DEF Spec

\* Conserved: no request is lost but to a poll that gives its completion up, or
\* on a host whose completion queue has overflowed.
THEOREM NothingLost == Spec => []Conserved
  BY Invariance, PTL DEF FullInv

\* PathHolds: as long as no process sends what its partner has no buffer for, and
\* no completion queue overflows, neither QP enters the error state, whosever
\* buffers the messages take.
THEOREM PathStays == Spec => []PathHolds
  <1>1. FullInv => PathHolds
    BY DEF FullInv, CreditInv, PathHolds
  <1> QED
    BY <1>1, Invariance, PTL

\* With enough room, none overflows.
LEMMA RoomyStep ==
  ASSUME Roomy
  PROVE  FullInv /\ overran = {} /\ [Next]_vars => (overran = {})'
  <1> SUFFICES ASSUME FullInv, overran = {}, [Next]_vars PROVE overran' = {}
    OBVIOUS
  <1>1. BaseInv /\ Spare
    BY ConservedSpares DEF FullInv
  <1>2. ASSUME NEW p \in Procs,
               \/ \E op \in {"SEND", "RDMA"} : PostSend(p, op)
               \/ PostRecv(p) \/ PollCq(p)
        PROVE  UNCHANGED overran
    BY <1>2 DEF PostSend, PostRecv, PollCq
  <1>3. ASSUME NEW h \in Hosts, Nic(h) PROVE UNCHANGED overran
    <2>1. Accounted
      BY <1>1, <1>3, ArriveBase, AckBase, FailBase, FlushBase DEF Nic
    <2> QED
      BY <1>1, <2>1 DEF Accounted
  <1>4. CASE UNCHANGED vars
    BY <1>4 DEF vars
  <1> QED
    BY <1>2, <1>3, <1>4 DEF Next

\* The completion queue of a host whose processes keep no more requests
\* outstanding than it has places never overflows: with sizes as the code's, where
\* it is no larger than either work queue (types.h:22-24), that is what its clients
\* have to see to.
THEOREM NeverOverruns ==
  ASSUME Roomy
  PROVE  Spec => [](overran = {})
  <1>1. Init => overran = {}
    BY DEF Init
  <1> QED
    BY <1>1, RoomyStep, Invariance, PTL DEF Spec

-----------------------------------------------------------------------------
(* A process with a host to itself: what the shared connection breaks for    *)
(* several processes (Served, RightBuffer) it keeps for one.                 *)

\* Each host has one process of the connection, as in the test program; it
\* sends only what its partner expects, and keeps no more requests outstanding
\* than a queue takes.
Dedicated ==
  /\ Careful = Procs
  /\ \A p, q \in Procs : Host[p] = Host[q] => p = q
  /\ MaxOut <= MaxWr

\* The completions that a process of the host is ready to take.
GoodWc(h) == {w \in Wc : w.ok /\ Host[w.proc] = h}

DedicatedInv ==
  /\ FullInv /\ uncalled = {} /\ overran = {}
  /\ \A h \in Hosts : cq[h] \in Seq(GoodWc(h))
  /\ \A p \in Procs : stuck[p] = "no"
  /\ RightBuffer

\* A process that may post one more finds a place in both queues: all that is
\* in them is its own.
LEMMA RoomForOwn ==
  ASSUME Dedicated, DedicatedInv, NEW p \in Procs, MayPost(p)
  PROVE  SqUsed(Host[p]) < MaxWr /\ RqUsed(Host[p]) < MaxWr
  <1> DEFINE h == Host[p]
  <1> DEFINE n == Outstanding(p)
  <1> DEFINE N == Numbered(Outs, h, MaxOut)
  <1>1. Types /\ h \in Hosts /\ n \in Int /\ n < MaxWr
    BY ProcNumbers, Sizes DEF DedicatedInv, FullInv, BaseInv, Dedicated, MayPost
  <1>2. n \in Nat
    BY <1>1, ProcNumbers DEF DedicatedInv, FullInv, BaseInv, OwnInv, Own
  <1>3. N \subseteq {p} \X (1 .. n)
    <2>1. ASSUME NEW r \in N PROVE r \in {p} \X (1 .. n)
      <3>1. r \in ProcsOn(h) \X (1 .. MaxOut) /\ r[2] <= Outs[r[1]]
        BY DEF Numbered
      <3>2. r[1] = p /\ r = <<r[1], r[2]>> /\ r[2] \in 1 .. MaxOut
        BY <3>1 DEF Dedicated, ProcsOn
      <3>3. r[2] <= n
        BY <3>1, <3>2 DEF Outs
      <3> QED
        BY <1>2, <3>2, <3>3, Sizes
    <2> QED
      BY <2>1
  <1> HIDE DEF n
  <1>4. Cardinality(N) <= n
    <2>1. IsFiniteSet({p}) /\ Cardinality({p}) = 1
      BY FS_Singleton
    <2>2. IsFiniteSet(1 .. n) /\ Cardinality(1 .. n) = n
      BY <1>2, FS_Interval
    <2>3. /\ IsFiniteSet({p} \X (1 .. n))
          /\ Cardinality({p} \X (1 .. n)) = Cardinality({p}) * Cardinality(1 .. n)
      BY <2>1, <2>2, FS_Product
    <2>4. Cardinality(N) <= Cardinality({p} \X (1 .. n))
      BY <1>3, <2>3, FS_Subset
    <2> QED
      BY <1>2, <2>1, <2>2, <2>3, <2>4
  <1>5. /\ Cardinality(N) = Queued(h) + Cardinality(Waiting(h))
        /\ Cardinality(Waiting(h)) \in Nat
    BY <1>1, ConservedIs DEF DedicatedInv, FullInv
  <1>6. /\ SqLen(h) \in Nat /\ RqLen(h) \in Nat /\ AckedLen(h) \in Nat
        /\ SqWcs(h) \in Nat /\ RqWcs(h) \in Nat
    BY <1>1, HostNumbers
  <1>7. /\ SqUsed(h) = SqLen(h) + AckedLen(h) + SqWcs(h)
        /\ RqUsed(h) = RqLen(h) + RqWcs(h)
        /\ Queued(h) = SqLen(h) + RqLen(h) + AckedLen(h) + SqWcs(h) + RqWcs(h)
    BY <1>1, <1>6, UsedCounts DEF Queued
  <1> HIDE DEF h, N
  <1>8. SqUsed(h) < MaxWr /\ RqUsed(h) < MaxWr
    BY <1>1, <1>2, <1>4, <1>5, <1>6, <1>7, Sizes
  <1> QED
    BY <1>8 DEF h

\* A completion that breaks no QP is a good one, and is there to be polled.
LEMMA GoodCompletion ==
  ASSUME Types, \A h \in Hosts : cq[h] \in Seq(GoodWc(h)), err' = {},
         NEW p \in Procs, NEW wq \in {"sq", "rq"}, NEW ok \in BOOLEAN, Complete(p, wq, ok)
  PROVE  ok /\ \A h \in Hosts : cq'[h] \in Seq(GoodWc(h))
  <1> DEFINE g == Host[p]
  <1> DEFINE wc == [proc |-> p, wq |-> wq, ok |-> ok]
  <1>1. g \in Hosts /\ ok /\ ~Overruns(g)
    BY ProcNumbers DEF Complete
  <1>2. cq' = [cq EXCEPT ![g] = Append(cq[g], wc)]
    BY <1>1 DEF Complete
  <1>3. wc \in GoodWc(g)
    BY <1>1 DEF GoodWc, Wc
  <1>4. Append(cq[g], wc) \in Seq(GoodWc(g))
    BY <1>1, <1>3, AppendProperties
  <1> HIDE DEF wc, g
  <1>5. \A h \in Hosts : cq'[h] = IF h = g THEN Append(cq[g], wc) ELSE cq[h]
    BY <1>1, <1>2 DEF Types
  <1> QED
    BY <1>1, <1>4, <1>5

\* The process that polls finds a completion of its own.
LEMMA DedicatedPoll ==
  ASSUME Dedicated, DedicatedInv, NEW p \in Procs, PollCq(p)
  PROVE  /\ \A h \in Hosts : cq'[h] \in Seq(GoodWc(h))
         /\ UNCHANGED <<uncalled, landed, stuck>>
  <1> DEFINE g == Host[p]
  <1>1. g \in Hosts /\ cq[g] \in Seq(GoodWc(g)) /\ cq[g] # <<>> /\ cq \in [Hosts -> Seq(Wc)]
    BY ProcNumbers DEF DedicatedInv, FullInv, BaseInv, Types, PollCq
  <1>2. Head(cq[g]) \in GoodWc(g) /\ Tail(cq[g]) \in Seq(GoodWc(g))
    BY <1>1, HeadTailProperties
  <1>3. Accepted(p, Head(cq[g]))
    BY <1>2 DEF GoodWc, Wc, Accepted, Dedicated
  <1>4. cq' = [cq EXCEPT ![g] = Tail(cq[g])] /\ UNCHANGED <<uncalled, landed, stuck>>
    BY <1>3 DEF PollCq, Polled
  <1> HIDE DEF g
  <1>5. \A h \in Hosts : cq'[h] = IF h = g THEN Tail(cq[g]) ELSE cq[h]
    BY <1>1, <1>4
  <1> QED
    BY <1>1, <1>2, <1>4, <1>5 DEF DedicatedInv

\* What arrives takes the buffer of the only process it can be meant for.
LEMMA DedicatedArrives ==
  ASSUME Dedicated, DedicatedInv, err' = {}, NEW h \in Hosts, Arrive(h)
  PROVE  /\ \A g \in Hosts : cq'[g] \in Seq(GoodWc(g))
         /\ RightBuffer'
  <1> DEFINE g == Other(h)
  <1> DEFINE p == Head(sq[h]).proc
  <1> DEFINE r == Head(rq[g])
  <1>1. Types /\ RightBuffer /\ \A k \in Hosts : cq[k] \in Seq(GoodWc(k))
    BY DEF DedicatedInv, FullInv, BaseInv
  <1>2. g \in Hosts /\ \A k \in Hosts : k = h \/ k = g
    BY TwoHosts
  <1>3. p \in Procs /\ Host[p] = h
    <2>1. sq[h] \in Seq(WrAt(h)) /\ sq[h] # <<>>
      BY <1>1 DEF Types, Arrive
    <2>2. Head(sq[h]) \in WrAt(h)
      BY <2>1, HeadTailProperties
    <2> QED
      BY <2>2 DEF WrAt, Wr
  <1>4. CASE Head(sq[h]).op = "SEND"
    <2>1. rq[g] # <<>> /\ rq[g] \in Seq(ProcsOn(g))
      BY <1>1, <1>2, <1>4 DEF Arrive, Reaches, Types
    <2>2. r \in Procs /\ Host[r] = g
      BY <2>1, HeadTailProperties DEF ProcsOn
    <2>3. Partner[p] \in Procs /\ Host[Partner[p]] = g
      BY <1>2, <1>3, DataPathAssumption
    <2>4. r = Partner[p]
      BY <2>2, <2>3 DEF Dedicated
    <2>5. landed' = landed \cup {<<p, r>>} /\ Complete(r, "rq", TRUE)
      BY <1>4 DEF Arrive
    <2> HIDE DEF g, p, r
    <2>6. RightBuffer'
      BY <1>1, <2>4, <2>5 DEF RightBuffer
    <2> QED
      BY <1>1, <2>2, <2>5, <2>6, GoodCompletion
  <1>5. CASE Head(sq[h]).op # "SEND"
    <2>1. UNCHANGED <<cq, landed>>
      BY <1>5 DEF Arrive
    <2> QED
      BY <1>1, <2>1 DEF RightBuffer
  <1> QED
    BY <1>4, <1>5

\* Nothing else completes but what has arrived: with an error, a QP would break.
LEMMA DedicatedNic ==
  ASSUME Dedicated, DedicatedInv, err' = {}, NEW h \in Hosts, Nic(h)
  PROVE  /\ \A g \in Hosts : cq'[g] \in Seq(GoodWc(g))
         /\ UNCHANGED <<uncalled, stuck>> /\ RightBuffer'
  <1>1. Types /\ RightBuffer /\ \A g \in Hosts : cq[g] \in Seq(GoodWc(g))
    BY DEF DedicatedInv, FullInv, BaseInv
  <1>2. UNCHANGED <<uncalled, stuck>>
    BY DEF Nic, Arrive, Ack, Fail, Flush
  <1>3. CASE Arrive(h)
    BY <1>2, <1>3, DedicatedArrives
  <1>4. CASE Ack(h)
    <2>1. acked[h] \in Seq(ProcsOn(h)) /\ acked[h] # <<>>
      BY <1>1, <1>4 DEF Types, Ack
    <2>2. Head(acked[h]) \in Procs
      BY <2>1, HeadTailProperties DEF ProcsOn
    <2>3. Complete(Head(acked[h]), "sq", TRUE) /\ landed' = landed
      BY <1>4 DEF Ack
    <2>4. \A g \in Hosts : cq'[g] \in Seq(GoodWc(g))
      BY <1>1, <2>2, <2>3, GoodCompletion
    <2> QED
      BY <1>1, <1>2, <2>3, <2>4 DEF RightBuffer
  <1>5. ASSUME sq[h] # <<>>, Complete(Head(sq[h]).proc, "sq", FALSE) PROVE FALSE
    <2>1. Head(sq[h]) \in WrAt(h)
      BY <1>1, <1>5, HeadTailProperties DEF Types
    <2>2. Head(sq[h]).proc \in Procs
      BY <2>1 DEF WrAt, Wr
    <2> QED
      BY <1>1, <1>5, <2>2, GoodCompletion
  <1>6. ASSUME rq[h] # <<>>, Complete(Head(rq[h]), "rq", FALSE) PROVE FALSE
    <2>1. Head(rq[h]) \in ProcsOn(h)
      BY <1>1, <1>6, HeadTailProperties DEF Types
    <2> QED
      BY <1>1, <1>6, <2>1, GoodCompletion DEF ProcsOn
  <1>7. CASE Fail(h)
    BY <1>5, <1>7 DEF Fail
  <1>8. CASE Flush(h)
    BY <1>5, <1>6, <1>8 DEF Flush
  <1> QED
    BY <1>3, <1>4, <1>7, <1>8 DEF Nic

\* No post is refused, every poll finds a completion of its own, and every
\* message the partner's buffer.
LEMMA DedicatedStep ==
  ASSUME Roomy, Dedicated
  PROVE  DedicatedInv /\ [Next]_vars => DedicatedInv'
  <1> SUFFICES ASSUME DedicatedInv, [Next]_vars PROVE DedicatedInv'
    OBVIOUS
  <1>1. FullInv /\ FullInv' /\ RightBuffer /\ uncalled = {} /\ overran' = {}
    BY FullStep, RoomyStep DEF DedicatedInv
  <1>2. ASSUME NEW p \in Procs, NEW op \in {"SEND", "RDMA"}, PostSend(p, op)
        PROVE  UNCHANGED <<cq, uncalled, landed, stuck>>
    <2>1. SqUsed(Host[p]) < MaxWr
      BY <1>2, RoomForOwn DEF PostSend
    <2>2. op = "SEND" => HasCredit(p)
      BY <1>2 DEF PostSend, Dedicated
    <2> QED
      BY <1>2, <2>1, <2>2 DEF PostSend
  <1>3. ASSUME NEW p \in Procs, PostRecv(p) PROVE UNCHANGED <<cq, uncalled, landed, stuck>>
    <2>1. RqUsed(Host[p]) < MaxWr
      BY <1>3, RoomForOwn DEF PostRecv
    <2> QED
      BY <1>3, <2>1 DEF PostRecv
  <1>4. ASSUME UNCHANGED <<cq, uncalled, landed, stuck>> PROVE DedicatedInv'
    BY <1>1, <1>4 DEF DedicatedInv, RightBuffer
  <1>5. ASSUME NEW p \in Procs, PollCq(p) PROVE DedicatedInv'
    <2>1. /\ \A h \in Hosts : cq'[h] \in Seq(GoodWc(h))
          /\ UNCHANGED <<uncalled, landed, stuck>>
      BY <1>5, DedicatedPoll
    <2> QED
      BY <1>1, <2>1 DEF DedicatedInv, RightBuffer
  <1>6. ASSUME NEW h \in Hosts, Nic(h) PROVE DedicatedInv'
    <2>1. UNCHANGED uncalled
      BY <1>6 DEF Nic, Arrive, Ack, Fail, Flush
    <2>2. err' = {}
      BY <1>1, <2>1 DEF FullInv, CreditInv
    <2>3. /\ \A g \in Hosts : cq'[g] \in Seq(GoodWc(g))
          /\ UNCHANGED <<uncalled, stuck>> /\ RightBuffer'
      BY <1>6, <2>2, DedicatedNic
    <2> QED
      BY <1>1, <2>3 DEF DedicatedInv
  <1>7. CASE UNCHANGED vars
    BY <1>4, <1>7 DEF vars
  <1> QED
    BY <1>2, <1>3, <1>4, <1>5, <1>6, <1>7 DEF Next

\* The invariant of a connection with one careful process at each end.
THEOREM DedicatedInvariance ==
  ASSUME Roomy, Dedicated
  PROVE  Spec => []DedicatedInv
  <1>1. Init => DedicatedInv
    <2> SUFFICES ASSUME Init PROVE DedicatedInv
      OBVIOUS
    <2>1. \A h \in Hosts : cq[h] \in Seq(GoodWc(h))
      BY EmptySeq DEF Init
    <2>2. RightBuffer
      BY DEF Init, RightBuffer
    <2> QED
      BY <2>1, <2>2, FullInit DEF Init, DedicatedInv
  <1> QED
    BY <1>1, DedicatedStep, PTL DEF Spec

\* Served: with one process at each end, a process that takes the completion of
\* its own request for the only outcome is right, and none is ever stuck: the
\* wr_id check (scalerouter.cpp:2111) and a full queue (scalerouter.cpp:1899, 2001)
\* never end in a kill.
THEOREM DedicatedServed ==
  ASSUME Roomy, Dedicated
  PROVE  Spec => []Served
  <1>1. DedicatedInv => Served
    BY DEF DedicatedInv, Served, Dedicated
  <1> QED
    BY <1>1, DedicatedInvariance, PTL

\* RightBuffer: and a message goes to the partner's buffer, though no work
\* request says whose it is.
THEOREM DedicatedBuffers ==
  ASSUME Roomy, Dedicated
  PROVE  Spec => []RightBuffer
  BY DedicatedInvariance, PTL DEF DedicatedInv

=============================================================================
