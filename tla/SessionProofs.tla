----------------------------- MODULE SessionProofs -----------------------------
(***************************************************************************)
(* Handles lead where they should, for any number of threads, processes    *)
(* and process numbers.  A handle has room for the low half of a process   *)
(* number only: what is proved of the handles of different processes       *)
(* assumes that the low half tells the numbers apart (PidsFit), as it does *)
(* for numbers below 2^16.                                                 *)
(***************************************************************************)
EXTENDS Session, TLAPS

PidsFit ==
  \A p, q \in Procs : PidOf[p] % Word = PidOf[q] % Word => PidOf[p] = PidOf[q]

\* Where a thread has a CQ, a QP, and both in the library's cq_qp_map.
HasCq == {"number", "map", "create", "made", "posted", "bound", "polled", "gone"} \cup Hung
HasQp == HasCq \ {"number", "gone"}
HasSlot == HasQp \ {"map"}

\* Threads run in living processes, which have different numbers; a process
\* has its device list before its other calls.
ProcInv ==
  /\ \A t \in Threads :
       /\ pc[t] \notin {"new", "ended"} => proc[ProcOf[t]] = "alive"
       /\ pc[t] \notin {"new", "open", "ended"} => ProcOf[t] \in opened
  /\ \A p, q \in Procs :
       proc[p] = "alive" /\ proc[q] = "alive" /\ PidOf[p] = PidOf[q] => p = q

\* Handle h is one of the first n that process p makes.
MadeBy(p, h, n) == Low(h) \in 0 .. n - 1 /\ h = Handle(p, Low(h))

\* The counters do not wrap, and what a thread has is made of them.
HandleInv ==
  /\ \A p \in Procs : cq_refcnt[p] \in 0 .. MaxCount /\ qp_refcnt[p] \in 0 .. MaxCount
  /\ \A t \in Threads :
       /\ IF pc[t] \in HasCq THEN MadeBy(ProcOf[t], cq[t], cq_refcnt[ProcOf[t]])
                             ELSE cq[t] = None
       /\ IF pc[t] \in HasQp THEN MadeBy(ProcOf[t], qp[t], qp_refcnt[ProcOf[t]])
                             ELSE qp[t] = None

\* A daemon that started has all resources, or no device list to give.
DaemonInv ==
  /\ daemon \in {"starting", "inited", "exited"} => opened = {}
  /\ daemon \in {"inited", "serving"} =>
       res["list"] = "null" \/ \A r \in Resources : res[r] = "held"
  /\ ServedMeansUp

CoreInv == SessionTypeOK /\ ProcInv /\ HandleInv /\ DaemonInv

\* The library's table leads from a CQ to its QP, the router's from the QP to
\* what it is bound to.
TableInv ==
  \A t \in Threads :
    /\ pc[t] \in HasSlot => slot[ProcOf[t]][Index(cq[t])] = Low(qp[t])
    /\ pc[t] \in {"bound", "polled"} => src_qp_map[qp[t]] = t

\* An ended process had the number of p.
HadNumber(p) == \E q \in Procs : proc[q] = "ended" /\ PidOf[q] = PidOf[p]

\* The router's cq_qp_map knows only CQs that were made, and a CQ that is in it
\* has had a QP or has the handle of one of an earlier process.
EntryInv ==
  /\ \A h \in Handles : cq_qp_map[h] # None =>
       \E p \in Procs : proc[p] # "new" /\ MadeBy(p, h, cq_refcnt[p])
  /\ \A t \in Threads : cq[t] # None /\ cq_qp_map[cq[t]] # None =>
       t \in used \/ HadNumber(ProcOf[t])
  /\ RefusedForCause

OwnInv == CoreInv /\ HandlesUnique /\ TableInv /\ EntryInv

-----------------------------------------------------------------------------
(* Handles are pairs of numbers.                                            *)

\* The sizes are positive numbers, and no counter reaches the end of a word.
LEMMA Sizes ==
  /\ Word \in Nat \ {0} /\ Slots \in Nat \ {0} /\ MaxCount \in Nat \ {0}
  /\ MaxCount < Slots /\ Slots <= Word
  BY SessionAssumption

\* A pair of a number and a remainder, packed into one number, is recovered.
LEMMA PackedLow ==
  ASSUME NEW w \in Nat \ {0}, NEW a \in Nat, NEW n \in 0 .. w - 1
  PROVE  (a * w + n) % w = n
  BY SMTT(30)

\* Equal multiples are of equal numbers.
LEMMA TimesInjective ==
  \A w \in Nat \ {0} : \A a, b \in Nat : a * w = b * w => a = b
  BY SMTT(30)

\* The low half of a handle is the counter it was made of.
LEMMA HandleParts ==
  ASSUME NEW p \in Procs, NEW n \in Numbers
  PROVE  /\ Handle(p, n) \in Handles /\ Handle(p, n) \in Nat /\ Handle(p, n) # None
         /\ Low(Handle(p, n)) = n /\ Index(Handle(p, n)) = n
  <1>1. Word \in Nat \ {0} /\ n \in 0 .. Word - 1
    BY Sizes DEF Numbers
  <1> PICK a : a = PidOf[p] % Word
    OBVIOUS
  <1>2. a \in Nat
    BY <1>1, SessionAssumption
  <1>3. a * Word \in Nat
    BY <1>1, <1>2
  <1>4. (a * Word + n) % Word = n
    BY <1>1, <1>2, PackedLow
  <1>5. Handle(p, n) = a * Word + n
    BY DEF Handle
  <1>6. Handle(p, n) \in Handles
    BY DEF Handles
  <1> QED
    BY <1>1, <1>3, <1>4, <1>5, <1>6, SessionAssumption DEF Low, Index

\* Equal handles are made of equal parts.
LEMMA HandleInjective ==
  ASSUME NEW p \in Procs, NEW q \in Procs, NEW n \in Numbers, NEW m \in Numbers,
         Handle(p, n) = Handle(q, m)
  PROVE  n = m /\ PidOf[p] % Word = PidOf[q] % Word
  <1>1. Word \in Nat \ {0} /\ n \in 0 .. Word - 1 /\ m \in 0 .. Word - 1
    BY Sizes DEF Numbers
  <1> PICK a, b : a = PidOf[p] % Word /\ b = PidOf[q] % Word
    OBVIOUS
  <1>2. a \in Nat /\ b \in Nat
    BY <1>1, SessionAssumption
  <1>3. n = m
    BY HandleParts
  <1>4. a * Word + n = b * Word + n
    BY <1>3 DEF Handle
  <1>5. a * Word \in Nat /\ b * Word \in Nat
    BY <1>1, <1>2
  <1>6. a * Word = b * Word
    BY <1>1, <1>4, <1>5
  <1> QED
    BY <1>1, <1>2, <1>3, <1>6, TimesInjective

\* A handle that a counter made is one, and another comes with each number.
LEMMA MadeParts ==
  ASSUME NEW p \in Procs, NEW n \in 0 .. MaxCount, NEW h, MadeBy(p, h, n)
  PROVE  /\ h \in Handles /\ h # None /\ Low(h) \in Numbers /\ Low(h) < n
         /\ h = Handle(p, Low(h)) /\ Index(h) = Low(h) /\ Low(h) \in 0 .. Slots - 1
  <1>1. Low(h) \in Numbers /\ Low(h) \in 0 .. Slots - 1 /\ Low(h) < n /\ Low(h) \in 0 .. n - 1
    BY Sizes DEF MadeBy, Numbers
  <1> QED
    BY <1>1, HandleParts DEF MadeBy

\* The next handle of a process is made by the counter after it.
LEMMA NextHandle ==
  ASSUME NEW p \in Procs, NEW n \in 0 .. MaxCount - 1
  PROVE  /\ n \in Numbers /\ Increment(n) = n + 1 /\ Increment(n) \in 0 .. MaxCount
         /\ MadeBy(p, Handle(p, n), n + 1)
         /\ \A h : MadeBy(p, h, n) => MadeBy(p, h, n + 1)
  <1>1. n \in Numbers /\ n + 1 \in 0 .. MaxCount /\ n + 1 \in 0 .. Word - 1
    BY Sizes DEF Numbers
  <1>2. (n + 1) % Word = n + 1
    BY <1>1, Sizes
  <1>3. Low(Handle(p, n)) = n
    BY <1>1, HandleParts
  <1> QED
    BY <1>1, <1>2, <1>3, Sizes DEF Increment, MadeBy

-----------------------------------------------------------------------------
(* Types, processes, handles and start-up: one lemma per action.            *)

\* What a thread has is a handle, with a place in the library's table.
LEMMA Handed ==
  ASSUME CoreInv, NEW t \in Threads
  PROVE  /\ ProcOf[t] \in Procs
         /\ pc[t] \in HasCq =>
              /\ cq[t] \in Handles /\ cq[t] # None
              /\ Index(cq[t]) = Low(cq[t]) /\ Low(cq[t]) \in 0 .. Slots - 1
              /\ Low(cq[t]) \in Numbers /\ cq[t] = Handle(ProcOf[t], Low(cq[t]))
              /\ Low(cq[t]) < cq_refcnt[ProcOf[t]]
         /\ pc[t] \in HasQp =>
              /\ qp[t] \in Handles /\ qp[t] # None /\ Low(qp[t]) \in Numbers
              /\ qp[t] = Handle(ProcOf[t], Low(qp[t]))
              /\ Low(qp[t]) < qp_refcnt[ProcOf[t]]
  <1>1. ProcOf[t] \in Procs
    BY SessionAssumption
  <1>2. cq_refcnt[ProcOf[t]] \in 0 .. MaxCount /\ qp_refcnt[ProcOf[t]] \in 0 .. MaxCount
    BY <1>1 DEF CoreInv, HandleInv
  <1>3. /\ pc[t] \in HasCq => MadeBy(ProcOf[t], cq[t], cq_refcnt[ProcOf[t]])
        /\ pc[t] \in HasQp => MadeBy(ProcOf[t], qp[t], qp_refcnt[ProcOf[t]])
    BY DEF CoreInv, HandleInv
  <1> QED
    BY <1>1, <1>2, <1>3, MadeParts

\* Nothing is made or open at first.
LEMMA InitCore == Init => CoreInv
  <1> SUFFICES ASSUME Init PROVE CoreInv
    OBVIOUS
  <1>1. 0 \in Numbers /\ 0 \in 0 .. MaxCount
    BY Sizes DEF Numbers
  <1>2. SessionTypeOK
    BY <1>1 DEF Init, SessionTypeOK
  <1>3. HandleInv
    BY <1>1 DEF Init, HandleInv, HasCq, HasQp, Hung
  <1>4. ProcInv /\ DaemonInv
    BY DEF Init, ProcInv, DaemonInv, ServedMeansUp
  <1> QED
    BY <1>2, <1>3, <1>4 DEF CoreInv

\* What a failed start-up leaves has no device list.
LEMMA InitGlobalResCore ==
  ASSUME CoreInv, NEW got \in Acquired, InitGlobalRes(got)
  PROVE  CoreInv'
  <1> USE SessionAssumption DEF CoreInv, router, library, session, At, Goto, InitGlobalRes, Destroyed, AfterFree, Resources
  <1>10. SessionTypeOK'
    BY DEF SessionTypeOK, Hung
  <1>11. ProcInv'
    BY DEF SessionTypeOK, ProcInv
  <1>12. HandleInv'
    BY DEF SessionTypeOK, HandleInv, HasCq, HasQp, Hung
  <1>13. DaemonInv'
    BY DEF SessionTypeOK, DaemonInv, ServedMeansUp
  <1> QED
    BY <1>10, <1>11, <1>12, <1>13

\* The daemon serves with what it has.
LEMMA StartListenersCore ==
  ASSUME CoreInv, StartListeners
  PROVE  CoreInv'
  <1> USE SessionAssumption DEF CoreInv, router, library, session, At, Goto, StartListeners
  <1>10. SessionTypeOK'
    BY DEF SessionTypeOK, Hung
  <1>11. ProcInv'
    BY DEF SessionTypeOK, ProcInv
  <1>12. HandleInv'
    BY DEF SessionTypeOK, HandleInv, HasCq, HasQp, Hung
  <1>13. DaemonInv'
    BY DEF SessionTypeOK, DaemonInv, ServedMeansUp
  <1> QED
    BY <1>10, <1>11, <1>12, <1>13

\* It exits with nothing opened.
LEMMA StopDaemonCore ==
  ASSUME CoreInv, StopDaemon
  PROVE  CoreInv'
  <1> USE SessionAssumption DEF CoreInv, router, library, session, At, Goto, StopDaemon, Destroyed, AfterFree, Resources
  <1>10. SessionTypeOK'
    BY DEF SessionTypeOK, Hung
  <1>11. ProcInv'
    BY DEF SessionTypeOK, ProcInv
  <1>12. HandleInv'
    BY DEF SessionTypeOK, HandleInv, HasCq, HasQp, Hung
  <1>13. DaemonInv'
    BY DEF SessionTypeOK, DaemonInv, ServedMeansUp
  <1> QED
    BY <1>10, <1>11, <1>12, <1>13

\* A process starts with a number no living one has.
LEMMA StartCore ==
  ASSUME CoreInv, NEW p \in Procs, Start(p)
  PROVE  CoreInv'
  <1> USE SessionAssumption DEF CoreInv, router, library, session, At, Goto, Start
  <1>10. SessionTypeOK'
    BY DEF SessionTypeOK, Hung
  <1>11. ProcInv'
    BY DEF SessionTypeOK, ProcInv
  <1>12. HandleInv'
    BY DEF SessionTypeOK, ProcInv, HandleInv, HasCq, HasQp, Hung
  <1>13. DaemonInv'
    BY DEF SessionTypeOK, DaemonInv, ServedMeansUp
  <1> QED
    BY <1>10, <1>11, <1>12, <1>13

\* Its threads end with it.
LEMMA EndCore ==
  ASSUME CoreInv, NEW p \in Procs, End(p)
  PROVE  CoreInv'
  <1> USE SessionAssumption DEF CoreInv, router, library, session, At, Goto, End
  <1>10. SessionTypeOK'
    BY DEF SessionTypeOK, Hung
  <1>11. ProcInv'
    BY DEF SessionTypeOK, ProcInv
  <1>12. HandleInv'
    BY DEF SessionTypeOK, HandleInv, HasCq, HasQp, Hung
  <1>13. DaemonInv'
    BY DEF SessionTypeOK, DaemonInv, ServedMeansUp
  <1> QED
    BY <1>10, <1>11, <1>12, <1>13

\* The device list comes from a daemon that has it.
LEMMA OpenDevicesCore ==
  ASSUME CoreInv, NEW t \in Threads, OpenDevices(t)
  PROVE  CoreInv'
  <1> USE SessionAssumption DEF CoreInv, router, library, session, At, Goto, OpenDevices, Resources
  <1>1. ProcOf[t] \in Procs
    OBVIOUS
  <1>10. SessionTypeOK'
    <2>1. 0 \in Numbers
      BY Sizes DEF Numbers
    <2>2. CASE res["list"] = "null"
      BY <1>1, <2>2 DEF SessionTypeOK
    <2>3. CASE res["list"] # "null"
      <3>1. slot' \in [Procs -> [0 .. Slots - 1 -> Numbers]]
        <4>1. [i \in 0 .. Slots - 1 |-> 0] \in [0 .. Slots - 1 -> Numbers]
          BY <2>1
        <4>2. slot' = [slot EXCEPT ![ProcOf[t]] = [i \in 0 .. Slots - 1 |-> 0]]
          BY <2>3
        <4>3. slot \in [Procs -> [0 .. Slots - 1 -> Numbers]]
          BY DEF SessionTypeOK
        <4> QED
          BY <4>1, <4>2, <4>3
      <3> QED
        BY <2>3, <3>1 DEF SessionTypeOK
    <2> QED
      BY <2>2, <2>3
  <1>11. ProcInv'
    BY <1>1 DEF SessionTypeOK, ProcInv
  <1>12. HandleInv'
    BY <1>1 DEF SessionTypeOK, HandleInv, HasCq, HasQp, Hung
  <1>13. DaemonInv'
    BY <1>1 DEF SessionTypeOK, DaemonInv, ServedMeansUp
  <1> QED
    BY <1>10, <1>11, <1>12, <1>13

\* The thread goes on, or the daemon dies.
LEMMA AllocPdCore ==
  ASSUME CoreInv, NEW t \in Threads, AllocPd(t)
  PROVE  CoreInv'
  <1> USE SessionAssumption DEF CoreInv, router, library, session, At, Goto, AllocPd
  <1>1. ProcOf[t] \in Procs
    OBVIOUS
  <1>10. SessionTypeOK'
    BY <1>1 DEF SessionTypeOK, Hung
  <1>11. ProcInv'
    BY <1>1 DEF SessionTypeOK, ProcInv
  <1>12. HandleInv'
    BY <1>1 DEF SessionTypeOK, HandleInv, HasCq, HasQp, Hung
  <1>13. DaemonInv'
    BY <1>1 DEF SessionTypeOK, DaemonInv, ServedMeansUp
  <1> QED
    BY <1>10, <1>11, <1>12, <1>13

\* The CQ is made by the counter after it, and so are the earlier ones.
LEMMA CreateCqCore ==
  ASSUME CoreInv, NEW t \in Threads, CreateCq(t)
  PROVE  CoreInv'
  <1> USE SessionAssumption DEF CoreInv, router, library, session, At, Goto, CreateCq
  <1> PICK p : p = ProcOf[t]
    OBVIOUS
  <1>1. p \in Procs /\ cq_refcnt[p] \in 0 .. MaxCount - 1
    BY Sizes DEF HandleInv
  <1>2. /\ cq_refcnt[p] \in Numbers /\ Handle(p, cq_refcnt[p]) \in Handles
        /\ Increment(cq_refcnt[p]) \in Numbers
    BY <1>1, NextHandle, HandleParts, Sizes DEF Numbers
  <1>3. /\ Increment(cq_refcnt[p]) = cq_refcnt[p] + 1
        /\ cq_refcnt[p] + 1 \in 0 .. MaxCount
        /\ MadeBy(p, Handle(p, cq_refcnt[p]), cq_refcnt[p] + 1)
        /\ \A h : MadeBy(p, h, cq_refcnt[p]) => MadeBy(p, h, cq_refcnt[p] + 1)
    BY <1>1, NextHandle
  <1>10. SessionTypeOK'
    BY <1>1, <1>2, <1>3 DEF SessionTypeOK, Hung
  <1>11. ProcInv'
    BY <1>1, <1>2, <1>3 DEF SessionTypeOK, ProcInv
  <1>12. HandleInv'
    <2>1. \A q \in Procs : cq_refcnt'[q] \in 0 .. MaxCount /\ qp_refcnt'[q] \in 0 .. MaxCount
      BY <1>1, <1>3 DEF SessionTypeOK, HandleInv
    <2>2. ASSUME NEW u \in Threads
          PROVE  IF pc'[u] \in HasCq THEN MadeBy(ProcOf[u], cq'[u], cq_refcnt'[ProcOf[u]])
                                     ELSE cq'[u] = None
      <3>1. /\ cq_refcnt' = [cq_refcnt EXCEPT ![p] = cq_refcnt[p] + 1]
            /\ pc' = [pc EXCEPT ![t] = "number"]
            /\ cq' = [cq EXCEPT ![t] = Handle(p, cq_refcnt[p])]
        BY <1>3
      <3>2. CASE u = t
        BY <1>1, <1>3, <3>1, <3>2 DEF SessionTypeOK, HasCq
      <3>3. CASE u # t
        <4>1. pc'[u] = pc[u] /\ cq'[u] = cq[u]
          BY <3>1, <3>3 DEF SessionTypeOK
        <4>2. CASE ProcOf[u] = p
          <5>1. cq_refcnt'[p] = cq_refcnt[p] + 1
            BY <1>1, <3>1 DEF SessionTypeOK
          <5>2. IF pc[u] \in HasCq THEN MadeBy(p, cq[u], cq_refcnt[p]) ELSE cq[u] = None
            BY <4>2 DEF HandleInv
          <5>3. IF pc[u] \in HasCq THEN MadeBy(p, cq[u], cq_refcnt[p] + 1) ELSE cq[u] = None
            BY <1>3, <5>2
          <5> QED
            BY <4>1, <4>2, <5>1, <5>3
        <4>3. CASE ProcOf[u] # p
          BY <1>1, <3>1, <4>1, <4>3 DEF SessionTypeOK, HandleInv
        <4> QED
          BY <4>2, <4>3
      <3> QED
        BY <3>2, <3>3
    <2>3. ASSUME NEW u \in Threads
          PROVE  IF pc'[u] \in HasQp THEN MadeBy(ProcOf[u], qp'[u], qp_refcnt'[ProcOf[u]])
                                     ELSE qp'[u] = None
      BY <1>1 DEF SessionTypeOK, HandleInv, HasCq, HasQp, Hung
    <2> QED
      BY <2>1, <2>2, <2>3 DEF HandleInv, MadeBy
  <1>13. DaemonInv'
    BY <1>1, <1>2, <1>3 DEF SessionTypeOK, DaemonInv, ServedMeansUp
  <1> QED
    BY <1>10, <1>11, <1>12, <1>13

\* Likewise the QP.
LEMMA NumberQpCore ==
  ASSUME CoreInv, NEW t \in Threads, NumberQp(t)
  PROVE  CoreInv'
  <1> USE SessionAssumption DEF CoreInv, router, library, session, At, Goto, NumberQp
  <1> PICK p : p = ProcOf[t]
    OBVIOUS
  <1>1. p \in Procs /\ qp_refcnt[p] \in 0 .. MaxCount - 1
    BY Sizes DEF HandleInv
  <1>2. /\ qp_refcnt[p] \in Numbers /\ Handle(p, qp_refcnt[p]) \in Handles
        /\ Increment(qp_refcnt[p]) \in Numbers
    BY <1>1, NextHandle, HandleParts, Sizes DEF Numbers
  <1>3. /\ Increment(qp_refcnt[p]) = qp_refcnt[p] + 1
        /\ qp_refcnt[p] + 1 \in 0 .. MaxCount
        /\ MadeBy(p, Handle(p, qp_refcnt[p]), qp_refcnt[p] + 1)
        /\ \A h : MadeBy(p, h, qp_refcnt[p]) => MadeBy(p, h, qp_refcnt[p] + 1)
    BY <1>1, NextHandle
  <1>10. SessionTypeOK'
    BY <1>1, <1>2, <1>3 DEF SessionTypeOK, Hung
  <1>11. ProcInv'
    BY <1>1, <1>2, <1>3 DEF SessionTypeOK, ProcInv
  <1>12. HandleInv'
    <2>1. \A q \in Procs : cq_refcnt'[q] \in 0 .. MaxCount /\ qp_refcnt'[q] \in 0 .. MaxCount
      BY <1>1, <1>3 DEF SessionTypeOK, HandleInv
    <2>2. ASSUME NEW u \in Threads
          PROVE  IF pc'[u] \in HasQp THEN MadeBy(ProcOf[u], qp'[u], qp_refcnt'[ProcOf[u]])
                                     ELSE qp'[u] = None
      <3>1. /\ qp_refcnt' = [qp_refcnt EXCEPT ![p] = qp_refcnt[p] + 1]
            /\ pc' = [pc EXCEPT ![t] = "map"]
            /\ qp' = [qp EXCEPT ![t] = Handle(p, qp_refcnt[p])]
        BY <1>3
      <3>2. CASE u = t
        <4>1. /\ pc'[t] = "map" /\ qp'[t] = Handle(p, qp_refcnt[p])
              /\ qp_refcnt'[p] = qp_refcnt[p] + 1
          BY <1>1, <3>1 DEF SessionTypeOK
        <4>2. pc'[t] \in HasQp
          BY <4>1 DEF HasQp, HasCq
        <4> QED
          BY <1>3, <3>2, <4>1, <4>2
      <3>3. CASE u # t
        <4>1. pc'[u] = pc[u] /\ qp'[u] = qp[u]
          BY <3>1, <3>3 DEF SessionTypeOK
        <4>2. CASE ProcOf[u] = p
          <5>1. qp_refcnt'[p] = qp_refcnt[p] + 1
            BY <1>1, <3>1 DEF SessionTypeOK
          <5>2. IF pc[u] \in HasQp THEN MadeBy(p, qp[u], qp_refcnt[p]) ELSE qp[u] = None
            BY <4>2 DEF HandleInv
          <5>3. IF pc[u] \in HasQp THEN MadeBy(p, qp[u], qp_refcnt[p] + 1) ELSE qp[u] = None
            BY <1>3, <5>2
          <5> QED
            BY <4>1, <4>2, <5>1, <5>3
        <4>3. CASE ProcOf[u] # p
          BY <1>1, <3>1, <4>1, <4>3 DEF SessionTypeOK, HandleInv
        <4> QED
          BY <4>2, <4>3
      <3> QED
        BY <3>2, <3>3
    <2>3. ASSUME NEW u \in Threads
          PROVE  IF pc'[u] \in HasCq THEN MadeBy(ProcOf[u], cq'[u], cq_refcnt'[ProcOf[u]])
                                     ELSE cq'[u] = None
      BY <1>1 DEF SessionTypeOK, HandleInv, HasCq, HasQp, Hung
    <2> QED
      BY <2>1, <2>2, <2>3 DEF HandleInv, MadeBy
  <1>13. DaemonInv'
    BY <1>1, <1>2, <1>3 DEF SessionTypeOK, DaemonInv, ServedMeansUp
  <1> QED
    BY <1>10, <1>11, <1>12, <1>13

\* A number goes into the table.
LEMMA MapQpCore ==
  ASSUME CoreInv, NEW t \in Threads, MapQp(t)
  PROVE  CoreInv'
  <1> USE SessionAssumption DEF CoreInv, router, library, session, At, Goto, MapQp
  <1>1. Low(qp[t]) \in Numbers /\ ProcOf[t] \in Procs
    BY Handed DEF HasQp, HasCq
  <1>10. SessionTypeOK'
    BY <1>1 DEF SessionTypeOK, Hung
  <1>11. ProcInv'
    BY <1>1 DEF SessionTypeOK, ProcInv
  <1>12. HandleInv'
    BY <1>1 DEF SessionTypeOK, HandleInv, HasCq, HasQp, Hung
  <1>13. DaemonInv'
    BY <1>1 DEF SessionTypeOK, DaemonInv, ServedMeansUp
  <1> QED
    BY <1>10, <1>11, <1>12, <1>13

\* A QP handle goes into the router's table, or the call hangs.
LEMMA CreateQpCore ==
  ASSUME CoreInv, NEW t \in Threads, CreateQp(t)
  PROVE  CoreInv'
  <1> USE SessionAssumption DEF CoreInv, router, library, session, At, Goto
  <1>1. qp[t] \in Handles /\ ProcOf[t] \in Procs /\ pc[t] = "create"
    BY Handed DEF CreateQp, HasQp, HasCq
  <1>2. UNCHANGED <<daemon, res, src_qp_map, proc, library, cq, qp>>
    BY DEF CreateQp
  <1>3. cq_qp_map' \in [Handles -> Handles \cup {None}] /\ used' \subseteq Threads
    <2>1. CASE cq_qp_map[cq[t]] = None
      <3>1. /\ cq_qp_map' = [cq_qp_map EXCEPT ![cq[t]] = qp[t]]
            /\ used' = used \cup {t}
        BY <2>1 DEF CreateQp
      <3>2. cq_qp_map \in [Handles -> Handles \cup {None}] /\ used \subseteq Threads
        BY DEF SessionTypeOK
      <3> QED
        BY <1>1, <3>1, <3>2
    <2>2. CASE cq_qp_map[cq[t]] # None
      BY <2>2 DEF CreateQp, SessionTypeOK
    <2> QED
      BY <2>1, <2>2
  <1> PICK there \in {"made", "create_hangs"} : pc' = [pc EXCEPT ![t] = there]
    BY DEF CreateQp
  <1>10. SessionTypeOK'
    BY <1>1, <1>2, <1>3 DEF SessionTypeOK, Hung
  <1>11. ProcInv'
    BY <1>1, <1>2, <1>3 DEF SessionTypeOK, ProcInv
  <1>12. HandleInv'
    BY <1>1, <1>2, <1>3 DEF SessionTypeOK, HandleInv, HasCq, HasQp, Hung
  <1>13. DaemonInv'
    BY <1>1, <1>2, <1>3 DEF SessionTypeOK, DaemonInv, ServedMeansUp
  <1> QED
    BY <1>10, <1>11, <1>12, <1>13

\* The receive is taken, or the call hangs.
LEMMA PostRecvCore ==
  ASSUME CoreInv, NEW t \in Threads, PostRecv(t)
  PROVE  CoreInv'
  <1> USE SessionAssumption DEF CoreInv, router, library, session, At, Goto, PostRecv
  <1>1. ProcOf[t] \in Procs
    OBVIOUS
  <1>10. SessionTypeOK'
    BY <1>1 DEF SessionTypeOK, Hung
  <1>11. ProcInv'
    BY <1>1 DEF SessionTypeOK, ProcInv
  <1>12. HandleInv'
    BY <1>1 DEF SessionTypeOK, HandleInv, HasCq, HasQp, Hung
  <1>13. DaemonInv'
    BY <1>1 DEF SessionTypeOK, DaemonInv, ServedMeansUp
  <1> QED
    BY <1>10, <1>11, <1>12, <1>13

\* The QP is bound.
LEMMA ModifyQpCore ==
  ASSUME CoreInv, NEW t \in Threads, ModifyQp(t)
  PROVE  CoreInv'
  <1> USE SessionAssumption DEF CoreInv, router, library, session, At, Goto, ModifyQp
  <1>1. ProcOf[t] \in Procs
    OBVIOUS
  <1>10. SessionTypeOK'
    BY <1>1 DEF SessionTypeOK, Hung
  <1>11. ProcInv'
    BY <1>1 DEF SessionTypeOK, ProcInv
  <1>12. HandleInv'
    BY <1>1 DEF SessionTypeOK, HandleInv, HasCq, HasQp, Hung
  <1>13. DaemonInv'
    BY <1>1 DEF SessionTypeOK, DaemonInv, ServedMeansUp
  <1> QED
    BY <1>10, <1>11, <1>12, <1>13

\* The poll returns, or the call hangs.
LEMMA PollCqCore ==
  ASSUME CoreInv, NEW t \in Threads, PollCq(t)
  PROVE  CoreInv'
  <1> USE SessionAssumption DEF CoreInv, router, library, session, At, Goto, PollCq
  <1>1. ProcOf[t] \in Procs
    OBVIOUS
  <1>10. SessionTypeOK'
    BY <1>1 DEF SessionTypeOK, Hung
  <1>11. ProcInv'
    BY <1>1 DEF SessionTypeOK, ProcInv
  <1>12. HandleInv'
    BY <1>1 DEF SessionTypeOK, HandleInv, HasCq, HasQp, Hung
  <1>13. DaemonInv'
    BY <1>1 DEF SessionTypeOK, DaemonInv, ServedMeansUp
  <1> QED
    BY <1>10, <1>11, <1>12, <1>13

\* The QP is gone.
LEMMA DestroyQpCore ==
  ASSUME CoreInv, NEW t \in Threads, DestroyQp(t)
  PROVE  CoreInv'
  <1> USE SessionAssumption DEF CoreInv, router, library, session, At, Goto, DestroyQp
  <1>1. ProcOf[t] \in Procs
    OBVIOUS
  <1>10. SessionTypeOK'
    BY <1>1 DEF SessionTypeOK, Hung
  <1>11. ProcInv'
    BY <1>1 DEF SessionTypeOK, ProcInv
  <1>12. HandleInv'
    BY <1>1 DEF SessionTypeOK, HandleInv, HasCq, HasQp, Hung
  <1>13. DaemonInv'
    BY <1>1 DEF SessionTypeOK, DaemonInv, ServedMeansUp
  <1> QED
    BY <1>10, <1>11, <1>12, <1>13

\* The CQ is gone.
LEMMA DestroyCqCore ==
  ASSUME CoreInv, NEW t \in Threads, DestroyCq(t)
  PROVE  CoreInv'
  <1> USE SessionAssumption DEF CoreInv, router, library, session, At, Goto, DestroyCq
  <1>1. ProcOf[t] \in Procs
    OBVIOUS
  <1>10. SessionTypeOK'
    BY <1>1 DEF SessionTypeOK, Hung
  <1>11. ProcInv'
    BY <1>1 DEF SessionTypeOK, ProcInv
  <1>12. HandleInv'
    BY <1>1 DEF SessionTypeOK, HandleInv, HasCq, HasQp, Hung
  <1>13. DaemonInv'
    BY <1>1 DEF SessionTypeOK, DaemonInv, ServedMeansUp
  <1> QED
    BY <1>10, <1>11, <1>12, <1>13

\* Every step preserves the invariant: one lemma per action.
LEMMA StepCore == CoreInv /\ [Next]_vars => CoreInv'
  <1> SUFFICES ASSUME CoreInv, [Next]_vars PROVE CoreInv'
    OBVIOUS
  <1>1. ASSUME NEW t \in Threads, Call(t) PROVE CoreInv'
    BY <1>1, OpenDevicesCore, AllocPdCore, CreateCqCore, NumberQpCore, MapQpCore,
       CreateQpCore, PostRecvCore, ModifyQpCore, PollCqCore, DestroyQpCore,
       DestroyCqCore DEF Call
  <1>2. ASSUME UNCHANGED vars PROVE CoreInv'
    BY <1>2 DEF vars, router, library, session, CoreInv, SessionTypeOK, ProcInv,
       HandleInv, DaemonInv, ServedMeansUp
  <1> QED
    BY <1>1, <1>2, InitGlobalResCore, StartListenersCore, StopDaemonCore,
       StartCore, EndCore DEF Next

\* Whatever numbers the processes have, it holds in every reachable state.
THEOREM CoreInvariance == Spec => []CoreInv
  BY InitCore, StepCore, PTL DEF Spec

\* The variables keep their types; in particular no counter wraps before the
\* library's table is full.
THEOREM TypeCorrect == Spec => []SessionTypeOK
  <1>1. CoreInv => SessionTypeOK
    BY DEF CoreInv
  <1> QED
    BY <1>1, CoreInvariance, PTL

\* A client that was given a device list talks to a daemon that started.
THEOREM ServedByWhole == Spec => []ServedMeansUp
  <1>1. CoreInv => ServedMeansUp
    BY DEF CoreInv, DaemonInv
  <1> QED
    BY <1>1, CoreInvariance, PTL

-----------------------------------------------------------------------------
(* Whose handle is whose, when process numbers fit.                         *)

\* Equal handles of living processes are of one process and counter.
LEMMA LiveHandles ==
  ASSUME PidsFit, CoreInv, NEW q \in Procs, NEW r \in Procs,
         proc[q] = "alive", proc[r] = "alive",
         NEW n \in Numbers, NEW m \in Numbers, Handle(q, n) = Handle(r, m)
  PROVE  q = r /\ n = m
  BY HandleInjective DEF PidsFit, CoreInv, ProcInv

Owned == HandlesUnique' /\ TableInv' /\ EntryInv'

\* A step that makes no handle, writes to no table and ends no thread's use of
\* them but by forgetting them.
LEMMA QuietOwn ==
  ASSUME OwnInv,
         UNCHANGED <<slot, src_qp_map, cq_qp_map, cq_refcnt, used>>,
         \A t \in Threads : cq'[t] \in {cq[t], None} /\ qp'[t] \in {qp[t], None},
         \A t \in Threads : pc'[t] \in HasSlot =>
           pc[t] \in HasSlot /\ cq'[t] = cq[t] /\ qp'[t] = qp[t],
         \A t \in Threads : pc'[t] \in {"bound", "polled"} => pc[t] \in {"bound", "polled"},
         \A t \in Threads : pc'[t] = "create_hangs" => pc[t] = "create_hangs",
         \A q \in Procs : /\ proc[q] = "ended" => proc'[q] = "ended"
                          /\ proc[q] # "new" => proc'[q] # "new"
  PROVE  Owned
  <1>1. HandlesUnique'
    BY DEF OwnInv, HandlesUnique
  <1>2. TableInv'
    BY DEF OwnInv, TableInv, HasSlot, HasQp, HasCq
  <1>3. EntryInv'
    <2>1. \A h \in Handles : cq_qp_map'[h] # None =>
            \E q \in Procs : proc'[q] # "new" /\ MadeBy(q, h, cq_refcnt'[q])
      BY DEF OwnInv, EntryInv
    <2>2. \A q \in Procs : HadNumber(q) => HadNumber(q)'
      BY DEF HadNumber
    <2>3. \A t \in Threads : cq'[t] # None /\ cq_qp_map'[cq'[t]] # None =>
            t \in used' \/ HadNumber(ProcOf[t])'
      BY <2>2, SessionAssumption DEF OwnInv, EntryInv
    <2>4. RefusedForCause'
      BY DEF OwnInv, EntryInv, RefusedForCause
    <2> QED
      BY <2>1, <2>3, <2>4 DEF EntryInv
  <1> QED
    BY <1>1, <1>2, <1>3 DEF Owned

\* The table that is cleared is that of a process without CQs.
LEMMA OpenDevicesOwn ==
  ASSUME OwnInv, NEW t \in Threads, OpenDevices(t)
  PROVE  Owned
  <1>1. \A u \in Threads : pc[u] \in HasSlot => slot'[ProcOf[u]] = slot[ProcOf[u]]
    BY SessionAssumption
       DEF OpenDevices, OwnInv, CoreInv, SessionTypeOK, ProcInv, HasSlot, HasQp, HasCq, Hung
  <1>2. UNCHANGED <<src_qp_map, cq_qp_map, proc, cq_refcnt, session>>
    BY DEF OpenDevices
  <1>3. TableInv'
    BY <1>1, <1>2 DEF session, OwnInv, TableInv
  <1>4. HandlesUnique' /\ EntryInv'
    BY <1>2 DEF session, OwnInv, HandlesUnique, EntryInv, HadNumber, RefusedForCause
  <1> QED
    BY <1>3, <1>4 DEF Owned

\* The new CQ's handle is nobody's, and if the router knows it, then from an
\* ended process of the same number.
LEMMA CreateCqOwn ==
  ASSUME PidsFit, OwnInv, NEW t \in Threads, CreateCq(t)
  PROVE  Owned
  <1> USE DEF OwnInv, CoreInv
  <1> PICK p, n : p = ProcOf[t] /\ n = cq_refcnt[p]
    OBVIOUS
  <1>1. /\ p \in Procs /\ n \in 0 .. MaxCount - 1 /\ proc[p] = "alive"
    BY SessionAssumption, Sizes DEF CreateCq, At, HandleInv, ProcInv
  <1>2. /\ n \in Numbers /\ Handle(p, n) # None /\ Handle(p, n) \in Handles
        /\ Increment(n) = n + 1
        /\ \A h : MadeBy(p, h, n) => MadeBy(p, h, n + 1)
    BY <1>1, NextHandle, HandleParts
  <1>3. /\ cq' = [cq EXCEPT ![t] = Handle(p, n)]
        /\ cq_refcnt' = [cq_refcnt EXCEPT ![p] = n + 1]
        /\ used' = used \ {t} /\ pc' = [pc EXCEPT ![t] = "number"]
        /\ UNCHANGED <<src_qp_map, cq_qp_map, proc, slot, qp>>
    BY <1>2 DEF CreateCq, router, Goto
  <1>4. \A u \in Threads : cq[u] # None =>
          /\ pc[u] \in HasCq /\ proc[ProcOf[u]] = "alive"
          /\ ProcOf[u] \in Procs /\ Low(cq[u]) \in Numbers
          /\ cq[u] = Handle(ProcOf[u], Low(cq[u])) /\ Low(cq[u]) < cq_refcnt[ProcOf[u]]
    BY Handed DEF HandleInv, ProcInv, HasCq, Hung
  <1>5. \A u \in Threads : cq[u] # Handle(p, n)
    <2> SUFFICES ASSUME NEW u \in Threads, cq[u] = Handle(p, n) PROVE FALSE
      OBVIOUS
    <2>1. ProcOf[u] = p /\ Low(cq[u]) = n
      BY <1>1, <1>2, <1>4, LiveHandles
    <2> QED
      BY <1>1, <1>2, <1>4, <2>1
  <1>6. HandlesUnique'
    BY <1>2, <1>3, <1>5 DEF SessionTypeOK, HandlesUnique
  <1>7. TableInv'
    BY <1>3 DEF SessionTypeOK, TableInv, HasSlot, HasQp
  <1>8. cq_qp_map[Handle(p, n)] # None => HadNumber(p)
    <2> SUFFICES ASSUME cq_qp_map[Handle(p, n)] # None PROVE HadNumber(p)
      OBVIOUS
    <2> PICK q \in Procs : proc[q] # "new" /\ MadeBy(q, Handle(p, n), cq_refcnt[q])
      BY <1>2 DEF EntryInv
    <2>1. cq_refcnt[q] \in 0 .. MaxCount
      BY DEF HandleInv
    <2> PICK m : m = Low(Handle(p, n))
      OBVIOUS
    <2>2. m \in Numbers /\ m < cq_refcnt[q] /\ Handle(p, n) = Handle(q, m)
      BY <2>1, MadeParts
    <2>3. m = n /\ PidOf[q] = PidOf[p]
      <3>1. m = n /\ PidOf[p] % Word = PidOf[q] % Word
        BY ONLY <1>1, <1>2, <2>2, HandleInjective
      <3> QED
        BY <1>1, <3>1 DEF PidsFit
    <2>4. q # p
      BY <1>1, <2>2, <2>3
    <2>5. proc[q] = "ended"
      BY <1>1, <2>3, <2>4 DEF ProcInv, SessionTypeOK
    <2> QED
      BY <2>3, <2>5 DEF HadNumber
  <1>9. EntryInv'
    <2>1. ASSUME NEW h \in Handles, cq_qp_map'[h] # None
          PROVE  \E q \in Procs : proc'[q] # "new" /\ MadeBy(q, h, cq_refcnt'[q])
      <3> PICK q \in Procs : proc[q] # "new" /\ MadeBy(q, h, cq_refcnt[q])
        BY <1>3, <2>1 DEF EntryInv
      <3>1. MadeBy(q, h, cq_refcnt'[q])
        BY <1>2, <1>3 DEF SessionTypeOK
      <3> QED
        BY <1>3, <3>1
    <2>2. ASSUME NEW u \in Threads, cq'[u] # None /\ cq_qp_map'[cq'[u]] # None
          PROVE  u \in used' \/ HadNumber(ProcOf[u])'
      <3>1. CASE u = t
        BY <1>3, <1>8, <2>2, <3>1 DEF SessionTypeOK, HadNumber
      <3>2. CASE u # t
        BY <1>3, <2>2, <3>2 DEF SessionTypeOK, HadNumber, EntryInv
      <3> QED
        BY <3>1, <3>2
    <2>3. RefusedForCause'
      BY <1>3 DEF SessionTypeOK, EntryInv, RefusedForCause
    <2> QED
      BY <2>1, <2>2, <2>3 DEF EntryInv
  <1> QED
    BY <1>6, <1>7, <1>9 DEF Owned

\* The new QP's handle is nobody's.
LEMMA NumberQpOwn ==
  ASSUME PidsFit, OwnInv, NEW t \in Threads, NumberQp(t)
  PROVE  Owned
  <1> USE DEF OwnInv, CoreInv
  <1> PICK p, n : p = ProcOf[t] /\ n = qp_refcnt[p]
    OBVIOUS
  <1>1. p \in Procs /\ n \in 0 .. MaxCount - 1 /\ proc[p] = "alive"
    BY SessionAssumption, Sizes DEF NumberQp, At, HandleInv, ProcInv
  <1>2. n \in Numbers /\ Handle(p, n) # None
    BY <1>1, NextHandle, HandleParts
  <1>3. /\ qp' = [qp EXCEPT ![t] = Handle(p, n)]
        /\ pc' = [pc EXCEPT ![t] = "map"]
        /\ UNCHANGED <<src_qp_map, cq_qp_map, proc, slot, cq, cq_refcnt, used>>
    BY DEF NumberQp, router, Goto
  <1>4. \A u \in Threads : qp[u] # None =>
          /\ proc[ProcOf[u]] = "alive"
          /\ ProcOf[u] \in Procs /\ Low(qp[u]) \in Numbers
          /\ qp[u] = Handle(ProcOf[u], Low(qp[u])) /\ Low(qp[u]) < qp_refcnt[ProcOf[u]]
    BY Handed DEF HandleInv, ProcInv, HasQp, HasCq, Hung
  <1>5. \A u \in Threads : qp[u] # Handle(p, n)
    <2> SUFFICES ASSUME NEW u \in Threads, qp[u] = Handle(p, n) PROVE FALSE
      OBVIOUS
    <2>1. ProcOf[u] = p /\ Low(qp[u]) = n
      BY <1>1, <1>2, <1>4, LiveHandles
    <2> QED
      BY <1>1, <1>2, <1>4, <2>1
  <1>6. HandlesUnique'
    BY <1>2, <1>3, <1>5 DEF SessionTypeOK, HandlesUnique
  <1>7. TableInv'
    BY <1>3 DEF SessionTypeOK, TableInv, HasSlot, HasQp
  <1>8. EntryInv'
    BY <1>3 DEF SessionTypeOK, EntryInv, HadNumber, RefusedForCause
  <1> QED
    BY <1>6, <1>7, <1>8 DEF Owned

\* No two CQs of a process share a place in its table.
LEMMA MapQpOwn ==
  ASSUME OwnInv, NEW t \in Threads, MapQp(t)
  PROVE  Owned
  <1> USE DEF OwnInv, CoreInv
  <1>1. /\ pc[t] = "map" /\ pc' = [pc EXCEPT ![t] = "create"]
        /\ slot' = [slot EXCEPT ![ProcOf[t]][Index(cq[t])] = Low(qp[t])]
        /\ UNCHANGED <<src_qp_map, cq_qp_map, proc, cq, qp, cq_refcnt, used>>
    BY DEF MapQp, router, At, Goto
  <1>2. /\ ProcOf[t] \in Procs /\ Index(cq[t]) = Low(cq[t]) /\ Low(cq[t]) \in 0 .. Slots - 1
        /\ cq[t] = Handle(ProcOf[t], Low(cq[t])) /\ cq[t] # None
    BY <1>1, Handed DEF HasCq
  <1>3. \A u \in Threads \ {t} : pc[u] \in HasSlot =>
          ProcOf[u] # ProcOf[t] \/ Index(cq[u]) # Index(cq[t])
    <2> SUFFICES ASSUME NEW u \in Threads \ {t}, pc[u] \in HasSlot,
                        ProcOf[u] = ProcOf[t], Index(cq[u]) = Index(cq[t])
                 PROVE  FALSE
      OBVIOUS
    <2>1. Index(cq[u]) = Low(cq[u]) /\ cq[u] = Handle(ProcOf[u], Low(cq[u]))
      BY Handed DEF HasSlot, HasQp
    <2>2. cq[u] = cq[t]
      BY <1>2, <2>1
    <2> QED
      BY <1>2, <2>2 DEF HandlesUnique
  <1>4. slot \in [Procs -> [0 .. Slots - 1 -> Numbers]]
    BY DEF SessionTypeOK
  <1>5. TableInv'
    <2> SUFFICES ASSUME NEW u \in Threads
                 PROVE  /\ pc'[u] \in HasSlot => slot'[ProcOf[u]][Index(cq[u])] = Low(qp[u])
                        /\ pc'[u] \in {"bound", "polled"} => src_qp_map[qp[u]] = u
      BY <1>1 DEF TableInv, Index
    <2>1. CASE u = t
      BY <1>1, <1>2, <1>4, <2>1 DEF SessionTypeOK
    <2>2. CASE u # t
      <3>1. pc'[u] = pc[u] /\ ProcOf[u] \in Procs
        BY <1>1, <2>2, SessionAssumption DEF SessionTypeOK
      <3>2. pc[u] \in HasSlot => slot'[ProcOf[u]][Index(cq[u])] = slot[ProcOf[u]][Index(cq[u])]
        <4> SUFFICES ASSUME pc[u] \in HasSlot
                     PROVE  slot'[ProcOf[u]][Index(cq[u])] = slot[ProcOf[u]][Index(cq[u])]
          OBVIOUS
        <4>1. Index(cq[u]) \in 0 .. Slots - 1
          BY Handed DEF HasSlot, HasQp
        <4> QED
          BY <1>1, <1>2, <1>3, <1>4, <2>2, <3>1, <4>1
      <3> QED
        BY <3>1, <3>2 DEF TableInv
    <2> QED
      BY <2>1, <2>2
  <1>6. HandlesUnique'
    BY <1>1 DEF HandlesUnique
  <1>7. EntryInv'
    BY <1>1 DEF SessionTypeOK, EntryInv, HadNumber, RefusedForCause
  <1> QED
    BY <1>5, <1>6, <1>7 DEF Owned

\* The entry that is made is of a CQ that is made and now has had a QP; the one
\* that is refused for has its cause.
LEMMA CreateQpOwn ==
  ASSUME OwnInv, NEW t \in Threads, CreateQp(t)
  PROVE  Owned
  <1> USE DEF OwnInv, CoreInv
  <1>1. /\ pc[t] = "create" /\ ProcOf[t] \in Procs /\ cq[t] \in Handles /\ cq[t] # None
        /\ qp[t] \in Handles /\ proc[ProcOf[t]] = "alive"
        /\ MadeBy(ProcOf[t], cq[t], cq_refcnt[ProcOf[t]])
    BY Handed DEF CreateQp, At, HandleInv, ProcInv, HasCq, HasQp
  <1>2. UNCHANGED <<slot, src_qp_map, proc, cq, qp, cq_refcnt>>
    BY DEF CreateQp, library
  <1>3. HandlesUnique'
    BY <1>2 DEF HandlesUnique
  <1>4. CASE cq_qp_map[cq[t]] = None
    <2>1. /\ cq_qp_map' = [cq_qp_map EXCEPT ![cq[t]] = qp[t]]
          /\ used' = used \cup {t} /\ pc' = [pc EXCEPT ![t] = "made"]
      BY <1>4 DEF CreateQp, Goto
    <2>2. TableInv'
      BY <1>1, <1>2, <2>1 DEF SessionTypeOK, TableInv, HasSlot, HasQp, HasCq
    <2>3. \A h \in Handles : cq_qp_map'[h] # None =>
            \E q \in Procs : proc'[q] # "new" /\ MadeBy(q, h, cq_refcnt'[q])
      BY <1>1, <1>2, <2>1 DEF SessionTypeOK, EntryInv
    <2>4. ASSUME NEW u \in Threads, cq'[u] # None, cq_qp_map'[cq'[u]] # None
          PROVE  u \in used' \/ HadNumber(ProcOf[u])'
      <3>1. CASE u = t
        BY <2>1, <3>1
      <3>2. CASE u # t
        <4>1. cq[u] # cq[t]
          BY <1>1, <3>2 DEF HandlesUnique
        <4>2. cq_qp_map'[cq[u]] = cq_qp_map[cq[u]]
          BY <2>1, <4>1 DEF SessionTypeOK
        <4> QED
          BY <1>2, <2>1, <2>4, <4>2 DEF EntryInv, HadNumber
      <3> QED
        BY <3>1, <3>2
    <2>5. RefusedForCause'
      BY <1>2, <2>1 DEF SessionTypeOK, EntryInv, RefusedForCause
    <2> QED
      BY <1>3, <2>2, <2>3, <2>4, <2>5 DEF Owned, EntryInv
  <1>5. CASE cq_qp_map[cq[t]] # None
    <2>1. UNCHANGED <<cq_qp_map, used>> /\ pc' = [pc EXCEPT ![t] = "create_hangs"]
      BY <1>5 DEF CreateQp, Goto
    <2>2. TableInv'
      BY <1>1, <1>2, <2>1 DEF SessionTypeOK, TableInv, HasSlot, HasQp, HasCq
    <2>3. t \in used \/ HadNumber(ProcOf[t])
      BY <1>1, <1>5 DEF EntryInv
    <2>4. RefusedForCause'
      BY <1>2, <2>1, <2>3 DEF SessionTypeOK, EntryInv, RefusedForCause, HadNumber
    <2>5. EntryInv'
      BY <1>2, <2>1, <2>4 DEF EntryInv, HadNumber
    <2> QED
      BY <1>3, <2>2, <2>5 DEF Owned
  <1> QED
    BY <1>4, <1>5

\* Binding and unbinding touch the entry of the thread's own QP only.
LEMMA BindingOwn ==
  ASSUME OwnInv, NEW t \in Threads, ModifyQp(t) \/ DestroyQp(t)
  PROVE  Owned
  <1> USE DEF OwnInv, CoreInv
  <1>1. /\ pc[t] \in HasSlot /\ qp[t] \in Handles /\ qp[t] # None
    BY Handed DEF ModifyQp, DestroyQp, At, HasSlot, HasQp, HasCq
  <1>2. /\ UNCHANGED <<slot, cq_qp_map, cq_refcnt, used, proc, cq>>
        /\ \A u \in Threads \ {t} : qp'[u] = qp[u] /\ pc'[u] = pc[u]
        /\ \A h \in Handles \ {qp[t]} : src_qp_map'[h] = src_qp_map[h]
        /\ \/ pc'[t] = "bound" /\ qp'[t] = qp[t] /\ src_qp_map'[qp[t]] = t
           \/ pc'[t] = "gone" /\ qp'[t] = None
    BY <1>1 DEF ModifyQp, DestroyQp, library, Goto, SessionTypeOK
  <1>3. \A u \in Threads \ {t} : pc[u] \in HasQp =>
          qp[u] \in Handles \ {qp[t]}
    BY <1>1, Handed DEF HandlesUnique
  <1>4. HandlesUnique'
    BY <1>2 DEF HandlesUnique
  <1>5. TableInv'
    BY <1>1, <1>2, <1>3 DEF TableInv, HasSlot, HasQp, HasCq
  <1>6. EntryInv'
    BY <1>2 DEF EntryInv, HadNumber, RefusedForCause
  <1> QED
    BY <1>4, <1>5, <1>6 DEF Owned

\* Every step preserves the invariant.
LEMMA StepOwn ==
  ASSUME PidsFit
  PROVE  OwnInv /\ [Next]_vars => OwnInv'
  <1> SUFFICES ASSUME OwnInv, [Next]_vars PROVE Owned
    BY StepCore DEF OwnInv, Owned
  <1> USE DEF router, library, session, At, Goto
  <1>a. SessionTypeOK /\ ProcInv
    BY DEF OwnInv, CoreInv
  <1>1. ASSUME NEW t \in Threads, AllocPd(t) PROVE Owned
    BY <1>1, <1>a, QuietOwn DEF AllocPd, SessionTypeOK, HasSlot, HasQp, HasCq, Hung
  <1>2. ASSUME NEW t \in Threads, PostRecv(t) PROVE Owned
    BY <1>2, <1>a, QuietOwn DEF PostRecv, SessionTypeOK, HasSlot, HasQp, HasCq, Hung
  <1>3. ASSUME NEW t \in Threads, PollCq(t) PROVE Owned
    BY <1>3, <1>a, QuietOwn DEF PollCq, SessionTypeOK, HasSlot, HasQp, HasCq, Hung
  <1>4. ASSUME NEW t \in Threads, DestroyCq(t) PROVE Owned
    BY <1>4, <1>a, QuietOwn DEF DestroyCq, SessionTypeOK, HasSlot, HasQp, HasCq, Hung
  <1>5. ASSUME NEW q \in Procs, Start(q) PROVE Owned
    BY <1>5, <1>a, QuietOwn DEF Start, SessionTypeOK, HasSlot, HasQp, HasCq, Hung
  <1>6. ASSUME NEW q \in Procs, End(q) PROVE Owned
    BY <1>6, <1>a, QuietOwn DEF End, SessionTypeOK, HasSlot, HasQp, HasCq, Hung
  <1>7. ASSUME UNCHANGED <<cq_qp_map, src_qp_map, proc, library, session>> PROVE Owned
    BY <1>7, QuietOwn
  <1>8. ASSUME NEW t \in Threads, Call(t) PROVE Owned
    BY <1>1, <1>2, <1>3, <1>4, <1>8, OpenDevicesOwn, CreateCqOwn, NumberQpOwn,
       MapQpOwn, CreateQpOwn, BindingOwn DEF Call
  <1> QED
    BY <1>5, <1>6, <1>7, <1>8
       DEF Next, vars, InitGlobalRes, StartListeners, StopDaemon

\* With numbers that fit the invariant holds in every reachable state.
THEOREM OwnInvariance ==
  ASSUME PidsFit
  PROVE  Spec => []OwnInv
  <1>1. Init => OwnInv
    BY InitCore DEF Init, OwnInv, HandlesUnique, TableInv, EntryInv, RefusedForCause,
       HasSlot, HasQp, HasCq, Hung
  <1> QED
    BY <1>1, StepOwn, PTL DEF Spec

\* No two threads have the same CQ or QP handle, "which guarantees that cq_handle
\* is unique" (verbs.c:296).
THEOREM UniqueHandles ==
  ASSUME PidsFit
  PROVE  Spec => []HandlesUnique
  <1>1. OwnInv => HandlesUnique
    BY DEF OwnInv
  <1> QED
    BY <1>1, OwnInvariance, PTL

\* A poll reaches the connection that the thread's own QP is bound to.
THEOREM PollsHitOwn ==
  ASSUME PidsFit
  PROVE  Spec => []PollHitsOwn
  <1>1. ASSUME OwnInv PROVE PollHitsOwn
    <2> SUFFICES ASSUME NEW t \in Threads, pc[t] \in {"bound", "polled"}
                 PROVE  PollHandle(t) = qp[t] /\ src_qp_map[qp[t]] = t
      BY DEF PollHitsOwn
    <2>1. pc[t] \in HasSlot /\ pc[t] \in HasQp
      BY DEF HasSlot, HasQp, HasCq
    <2>2. slot[ProcOf[t]][Index(cq[t])] = Low(qp[t]) /\ src_qp_map[qp[t]] = t
      BY <1>1, <2>1 DEF OwnInv, TableInv
    <2>3. qp[t] = Handle(ProcOf[t], Low(qp[t]))
      BY <1>1, <2>1, Handed DEF OwnInv
    <2> QED
      BY <2>2, <2>3 DEF PollHandle
  <1> QED
    BY <1>1, OwnInvariance, PTL

\* A thread is refused a QP only on a CQ that has had one or after an ended
\* process with its number.
THEOREM RefusalsHaveCause ==
  ASSUME PidsFit
  PROVE  Spec => []RefusedForCause
  <1>1. OwnInv => RefusedForCause
    BY DEF OwnInv, EntryInv
  <1> QED
    BY <1>1, OwnInvariance, PTL
=============================================================================
