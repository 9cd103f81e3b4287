---------------------------- MODULE HostMapProofs ----------------------------
(***************************************************************************)
(* Safety of the shared connection table for any number of threads, QPs,   *)
(* hosts and addresses, for orderly and for reconnecting clients.          *)
(***************************************************************************)
EXTENDS HostMap, FiniteSetTheorems, TLAPS

\* Threads between taking a connection from host_map and the end of a request.
Modifying(t) ==
  /\ hdl[t] \in Handles /\ key[t] \in Keys
  /\ cur[t] # None /\ cur[t] = host_map[key[t]]
  /\ pc[t] \notin {"m_create", "m_reuse"} => qp[cur[t]] = "made"
  /\ pc[t] \notin {"m_create", "m_reuse", "m_src"} => src_qp_map[hdl[t]] = key[t]

Dropping(t) ==
  /\ hdl[t] \in Handles /\ key[t] \in Keys /\ cur[t] = None
  /\ src_qp_map[hdl[t]] = None
  /\ qp[host_map[key[t]]] = "made"

Freeing(t) ==
  /\ cur[t] \in live
  /\ pc[t] = "d_qp" => qp[cur[t]] = "made"

Using(t) ==
  /\ hdl[t] \in Handles /\ key[t] \in Keys
  /\ src_qp_map[hdl[t]] = key[t]
  /\ cur[t] = IF pc[t] = "u_find" THEN None ELSE host_map[key[t]]

\* What a thread knows at each point of its request.
ThreadInv ==
  \A t \in Threads :
    /\ pc[t] = "idle" => hdl[t] = None /\ cur[t] = None
    /\ pc[t] \in ModifyPc => Modifying(t)
    /\ pc[t] = "d_drop" => Dropping(t)
    /\ pc[t] \in {"d_qp", "d_free"} => Freeing(t)
    /\ pc[t] \in UsePc => Using(t)

\* A request that sets a QP up or tears it down is the only one on that QP.
Exclusive ==
  \A t, u \in Threads :
    t # u /\ hdl[t] # None /\ hdl[t] = hdl[u] => pc[t] \in UsePc /\ pc[u] \in UsePc

\* An entry of host_map is allocated, belongs to one host only, and has a QP
\* as soon as a virtual QP is bound to it.
MapInv ==
  /\ \A k \in Keys : host_map[k] # None =>
       host_map[k] \in live /\ qp[host_map[k]] # "gone"
  /\ \A k, l \in Keys : host_map[k] # None /\ host_map[k] = host_map[l] => k = l
  /\ \A h \in Handles : src_qp_map[h] # None => qp[host_map[src_qp_map[h]]] = "made"

IInv == TypeOK /\ LockReleased /\ MapInv /\ ThreadInv /\ Exclusive /\ FreedOnce /\ RefCovers

-----------------------------------------------------------------------------
(* Users is a finite set whose size grows and shrinks by one.               *)

\* The users of a connection are virtual QPs, so there are finitely many.
LEMMA UsersFinite ==
  \A k : Users(k) \subseteq Handles /\ IsFiniteSet(Users(k))
  <1>1. \A k : Users(k) \subseteq Handles
    BY DEF Users
  <1> QED
    BY <1>1, FS_Subset, HostMapAssumption

\* A smaller set of users needs no larger count.
LEMMA FewerUsers ==
  ASSUME NEW S \in SUBSET Handles, NEW R \in SUBSET S
  PROVE  /\ Cardinality(R) \in Nat /\ Cardinality(S) \in Nat
         /\ Cardinality(R) <= Cardinality(S)
  BY FS_Subset, FS_CardinalityType, HostMapAssumption

\* One more user raises the number by at most one.
LEMMA OneMoreUser ==
  ASSUME NEW S \in SUBSET Handles, NEW h \in Handles
  PROVE  /\ Cardinality(S) \in Nat /\ Cardinality(S \cup {h}) \in Nat
         /\ Cardinality(S \cup {h}) <= Cardinality(S) + 1
  <1>1. IsFiniteSet(S)
    BY FS_Subset, HostMapAssumption
  <1> QED
    BY <1>1, FS_AddElement, FS_CardinalityType

\* One user less lowers the number by one.
LEMMA OneUserLess ==
  ASSUME NEW S \in SUBSET Handles, NEW h \in S
  PROVE  /\ Cardinality(S) \in Nat /\ Cardinality(S) >= 1
         /\ Cardinality(S \ {h}) = Cardinality(S) - 1
         /\ Cardinality(S) = 1 => S = {h}
  <1>1. IsFiniteSet(S)
    BY FS_Subset, HostMapAssumption
  <1>2. Cardinality(S \ {h}) = Cardinality(S) - 1 /\ IsFiniteSet(S \ {h})
    BY <1>1, FS_RemoveElement
  <1>3. Cardinality(S) \in Nat /\ Cardinality(S \ {h}) \in Nat
    BY <1>1, <1>2, FS_CardinalityType
  <1>4. ASSUME Cardinality(S) = 1 PROVE S = {h}
    BY <1>1, <1>4, FS_Singleton
  <1> QED
    BY <1>2, <1>3, <1>4

\* Every virtual QP that a binding or a request depends on is counted.
LEMMA Holders ==
  ASSUME IInv
  PROVE  /\ \A t \in Threads : pc[t] \in ModifyPc \cup UsePc \cup {"d_drop"} =>
              key[t] \in Keys /\ hdl[t] \in Users(key[t])
         /\ \A h \in Handles : src_qp_map[h] # None =>
              src_qp_map[h] \in Keys /\ h \in Users(src_qp_map[h])
  <1>1. \A h \in Handles : src_qp_map[h] # None =>
          src_qp_map[h] \in Keys /\ h \in Users(src_qp_map[h])
    BY DEF IInv, TypeOK, Users
  <1>2. ASSUME NEW t \in Threads, pc[t] \in ModifyPc \cup UsePc \cup {"d_drop"}
        PROVE  key[t] \in Keys /\ hdl[t] \in Users(key[t])
    <2>1. key[t] \in Keys /\ hdl[t] \in Handles
      BY <1>2 DEF IInv, ThreadInv, Modifying, Using, Dropping
    <2>2. CASE pc[t] \in {"m_create", "m_reuse", "m_src", "d_drop"}
      BY <2>1, <2>2 DEF Users
    <2>3. CASE pc[t] \notin {"m_create", "m_reuse", "m_src", "d_drop"}
      BY <1>2, <2>1, <2>3 DEF IInv, ThreadInv, Modifying, Using, Users, ModifyPc, UsePc
    <2> QED
      BY <2>1, <2>2, <2>3
  <1> QED
    BY <1>1, <1>2

\* Without an entry in host_map nobody depends on the connection of the host.
LEMMA Unmapped ==
  ASSUME IInv, NEW k \in Keys, host_map[k] = None
  PROVE  /\ Users(k) = {}
         /\ \A t \in Threads :
              pc[t] \in ModifyPc \cup UsePc \cup {"d_drop"} => key[t] # k
         /\ \A h \in Handles : src_qp_map[h] # k
  <1>1. Users(k) = {}
    BY DEF IInv, RefCovers
  <1> QED
    BY <1>1, Holders, HostMapAssumption

\* If the virtual QPs of no host grow and neither host_map nor the counts
\* change, the counts stay large enough.
LEMMA QuietRefs ==
  ASSUME IInv, UNCHANGED <<host_map, ref_cnt>>,
         \A k \in Keys : Users(k)' \subseteq Users(k)
  PROVE  RefCovers'
  <1> SUFFICES ASSUME NEW k \in Keys
               PROVE  IF host_map[k] = None THEN Users(k)' = {}
                      ELSE Cardinality(Users(k)') <= ref_cnt[host_map[k]]
    BY DEF RefCovers
  <1>1. CASE host_map[k] = None
    BY <1>1 DEF IInv, RefCovers
  <1>2. CASE host_map[k] # None
    <2>1. Cardinality(Users(k)) <= ref_cnt[host_map[k]]
      BY <1>2 DEF IInv, RefCovers
    <2>2. ref_cnt[host_map[k]] \in Nat
      BY <1>2 DEF IInv, TypeOK
    <2>3. /\ Cardinality(Users(k)') \in Nat /\ Cardinality(Users(k)) \in Nat
          /\ Cardinality(Users(k)') <= Cardinality(Users(k))
      BY UsersFinite, FewerUsers
    <2> QED
      BY <1>2, <2>1, <2>2, <2>3
  <1> QED
    BY <1>1, <1>2

\* Whoever drops the last reference is the only user left.
LEMMA LastUser ==
  ASSUME IInv, NEW t \in Threads, pc[t] = "d_drop"
  PROVE  /\ hdl[t] \in Users(key[t]) /\ key[t] \in Keys
         /\ host_map[key[t]] \in Conns
         /\ ref_cnt[host_map[key[t]]] \in Nat \ {0}
         /\ LastRef(host_map[key[t]]) => Users(key[t]) = {hdl[t]}
  <1>1. hdl[t] \in Users(key[t]) /\ key[t] \in Keys
    BY DEF IInv, ThreadInv, Dropping, Users
  <1>2. host_map[key[t]] # None
    BY <1>1 DEF IInv, RefCovers
  <1>3. host_map[key[t]] \in Conns /\ ref_cnt[host_map[key[t]]] \in Nat
    BY <1>1, <1>2 DEF IInv, TypeOK
  <1>4. Cardinality(Users(key[t])) <= ref_cnt[host_map[key[t]]]
    BY <1>1, <1>2 DEF IInv, RefCovers
  <1>5. /\ Cardinality(Users(key[t])) \in Nat /\ Cardinality(Users(key[t])) >= 1
        /\ Cardinality(Users(key[t])) = 1 => Users(key[t]) = {hdl[t]}
    BY <1>1, UsersFinite, OneUserLess
  <1> QED
    BY <1>1, <1>3, <1>4, <1>5 DEF LastRef

-----------------------------------------------------------------------------
(* The initial state, and one lemma per action.                             *)

\* With empty maps and idle threads the invariant holds.
LEMMA InitInv == Init => IInv
  <1> SUFFICES ASSUME Init PROVE IInv
    OBVIOUS
  <1>1. TypeOK
    BY HostMapAssumption DEF Init, TypeOK
  <1>2. \A k \in Keys : Users(k) = {}
    BY HostMapAssumption DEF Init, Users
  <1> QED
    BY <1>1, <1>2 DEF Init, IInv, LockReleased, MapInv, ThreadInv, Exclusive,
       FreedOnce, RefCovers, ModifyPc, UsePc

\* A new entry is a fresh address with count 1, and its only user is the new QP:
\* before it there was no entry, so no user either (Unmapped).
LEMMA ModifyNewInv ==
  ASSUME IInv, NEW t \in Threads, NEW h \in Handles, NEW k \in Keys,
         NEW c \in Conns, ModifyNew(t, h, k, c)
  PROVE  IInv'
  <1> USE HostMapAssumption DEF ModifyNew, locals, fields, Begin, Goto, Done, NoCallOn, NotFound, InitialRefs
  <1>1. /\ Users(k) = {}
        /\ \A u \in Threads : pc[u] \in ModifyPc \cup UsePc \cup {"d_drop"} => key[u] # k
        /\ \A g \in Handles : src_qp_map[g] # k
    BY Unmapped
  <1>2. \A l \in Keys \ {k} : Users(l)' \subseteq Users(l)
    BY DEF Users, IInv, TypeOK
  <1>3. Users(k)' \subseteq Users(k) \cup {h}
    BY DEF Users, IInv, TypeOK
  <1>4. RefCovers'
    <2> SUFFICES ASSUME NEW l \in Keys
                 PROVE  IF host_map'[l] = None THEN Users(l)' = {}
                        ELSE Cardinality(Users(l)') <= ref_cnt'[host_map'[l]]
      BY DEF RefCovers
    <2>1. CASE l = k
      <3>1. Cardinality({h}) = 1
        BY FS_Singleton
      <3>2. Users(k)' \subseteq {h}
        BY <1>1, <1>3
      <3>3. Cardinality(Users(k)') <= 1
        BY <3>1, <3>2, FewerUsers, UsersFinite
      <3> QED
        BY <2>1, <3>3 DEF IInv, TypeOK
    <2>2. CASE l # k /\ host_map[l] = None
      BY <1>2, <2>2 DEF IInv, TypeOK, RefCovers
    <2>3. CASE l # k /\ host_map[l] # None
      <3>1. host_map'[l] = host_map[l] /\ host_map[l] # c
        BY <2>3 DEF IInv, TypeOK, MapInv
      <3>2. /\ Cardinality(Users(l)) <= ref_cnt[host_map[l]]
            /\ ref_cnt'[host_map[l]] = ref_cnt[host_map[l]]
            /\ ref_cnt[host_map[l]] \in Nat
        BY <2>3, <3>1 DEF IInv, TypeOK, RefCovers
      <3>3. /\ Cardinality(Users(l)') \in Nat /\ Cardinality(Users(l)) \in Nat
            /\ Cardinality(Users(l)') <= Cardinality(Users(l))
        BY <1>2, <2>3, UsersFinite, FewerUsers
      <3> QED
        BY <2>3, <3>1, <3>2, <3>3
    <2> QED
      BY <2>1, <2>2, <2>3
  <1>5. TypeOK'
    BY DEF IInv, TypeOK, ModifyPc
  <1>6. LockReleased' /\ MapInv' /\ Exclusive' /\ FreedOnce'
    BY <1>1
       DEF IInv, TypeOK, LockReleased, MapInv, ThreadInv, Exclusive, FreedOnce,
           Modifying, Dropping, Freeing, Using, ModifyPc, UsePc, DestroyPc, RefCovers
  <1>7. ThreadInv'
    BY <1>1
       DEF IInv, TypeOK, LockReleased, MapInv, ThreadInv, Exclusive, FreedOnce,
           Modifying, Dropping, Freeing, Using, ModifyPc, UsePc, DestroyPc, RefCovers
  <1> QED
    BY <1>4, <1>5, <1>6, <1>7 DEF IInv

\* The QP becomes a user and the count is raised in the same step.
LEMMA ModifyShareInv ==
  ASSUME IInv, NEW t \in Threads, NEW h \in Handles, NEW k \in Keys, ModifyShare(t, h, k)
  PROVE  IInv'
  <1> USE HostMapAssumption DEF ModifyShare, locals, fields, Begin, Goto, Done, NoCallOn, NotFound, RefTaken
  <1>1. \A l \in Keys \ {k} : Users(l)' \subseteq Users(l)
    BY DEF Users, IInv, TypeOK
  <1>2. Users(k)' \subseteq Users(k) \cup {h}
    BY DEF Users, IInv, TypeOK
  <1>3. host_map[k] \in Conns /\ ref_cnt[host_map[k]] \in Nat
    BY DEF IInv, TypeOK
  <1>4. RefCovers'
    <2> SUFFICES ASSUME NEW l \in Keys
                 PROVE  IF host_map[l] = None THEN Users(l)' = {}
                        ELSE Cardinality(Users(l)') <= ref_cnt'[host_map[l]]
      BY DEF RefCovers
    <2>1. CASE l = k
      <3>1. Cardinality(Users(k)) <= ref_cnt[host_map[k]]
        BY DEF IInv, RefCovers
      <3>2. /\ Cardinality(Users(k)) \in Nat /\ Cardinality(Users(k) \cup {h}) \in Nat
            /\ Cardinality(Users(k) \cup {h}) <= Cardinality(Users(k)) + 1
        BY UsersFinite, OneMoreUser
      <3>3. /\ Cardinality(Users(k)') \in Nat
            /\ Cardinality(Users(k)') <= Cardinality(Users(k) \cup {h})
        <4>1. Users(k) \cup {h} \in SUBSET Handles
          BY UsersFinite
        <4> QED
          BY <1>2, <4>1, FewerUsers
      <3>4. ref_cnt'[host_map[k]] = ref_cnt[host_map[k]] + 1
        BY <1>3 DEF IInv, TypeOK
      <3> QED
        BY <1>3, <2>1, <3>1, <3>2, <3>3, <3>4
    <2>2. CASE l # k /\ host_map[l] = None
      BY <1>1, <2>2 DEF IInv, RefCovers
    <2>3. CASE l # k /\ host_map[l] # None
      <3>1. host_map[l] # host_map[k]
        BY <2>3 DEF IInv, MapInv
      <3>2. /\ Cardinality(Users(l)) <= ref_cnt[host_map[l]]
            /\ ref_cnt'[host_map[l]] = ref_cnt[host_map[l]]
            /\ ref_cnt[host_map[l]] \in Nat
        BY <1>3, <2>3, <3>1 DEF IInv, TypeOK, RefCovers
      <3>3. /\ Cardinality(Users(l)') \in Nat /\ Cardinality(Users(l)) \in Nat
            /\ Cardinality(Users(l)') <= Cardinality(Users(l))
        BY <1>1, <2>3, UsersFinite, FewerUsers
      <3> QED
        BY <2>3, <3>2, <3>3
    <2> QED
      BY <2>1, <2>2, <2>3
  <1>5. TypeOK'
    BY <1>3 DEF IInv, TypeOK, ModifyPc
  <1>6. LockReleased' /\ MapInv' /\ Exclusive' /\ FreedOnce'
    BY <1>3
       DEF IInv, TypeOK, LockReleased, MapInv, ThreadInv, Exclusive, FreedOnce,
           Modifying, Dropping, Freeing, Using, ModifyPc, UsePc, DestroyPc, RefCovers
  <1>7. ThreadInv'
    BY <1>3
       DEF IInv, TypeOK, LockReleased, MapInv, ThreadInv, Exclusive, FreedOnce,
           Modifying, Dropping, Freeing, Using, ModifyPc, UsePc, DestroyPc, RefCovers
  <1> QED
    BY <1>4, <1>5, <1>6, <1>7 DEF IInv

\* The QP is made; map, count and users stay.
LEMMA ModifyCreateInv ==
  ASSUME IInv, NEW t \in Threads, ModifyCreate(t)
  PROVE  IInv'
  <1> USE HostMapAssumption DEF ModifyCreate, locals, fields, Begin, Goto, Done, Unlocked
  <1>1. \A k \in Keys : Users(k)' \subseteq Users(k)
    BY DEF Users, IInv, TypeOK
  <1>2. RefCovers'
    BY <1>1, QuietRefs
  <1>3. TypeOK' /\ LockReleased' /\ MapInv' /\ Exclusive' /\ FreedOnce'
    BY Holders
       DEF IInv, TypeOK, LockReleased, MapInv, ThreadInv, Exclusive, FreedOnce,
           Modifying, Dropping, Freeing, Using, ModifyPc, UsePc, DestroyPc, RefCovers
  <1>4. ThreadInv'
    BY Holders
       DEF IInv, TypeOK, LockReleased, MapInv, ThreadInv, Exclusive, FreedOnce,
           Modifying, Dropping, Freeing, Using, ModifyPc, UsePc, DestroyPc, RefCovers
  <1> QED
    BY <1>2, <1>3, <1>4 DEF IInv

\* The daemon dies; nothing else changes.
LEMMA ModifyCreateFailsInv ==
  ASSUME IInv, NEW t \in Threads, ModifyCreateFails(t)
  PROVE  IInv'
  <1> USE HostMapAssumption DEF ModifyCreateFails, locals, fields, Begin, Goto, Done, Crash
  <1>1. \A k \in Keys : Users(k)' \subseteq Users(k)
    BY DEF Users, IInv, TypeOK
  <1>2. RefCovers'
    BY <1>1, QuietRefs
  <1>3. TypeOK' /\ LockReleased' /\ MapInv' /\ Exclusive' /\ FreedOnce'
    BY Holders
       DEF IInv, TypeOK, LockReleased, MapInv, ThreadInv, Exclusive, FreedOnce,
           Modifying, Dropping, Freeing, Using, ModifyPc, UsePc, DestroyPc, RefCovers
  <1>4. ThreadInv'
    BY Holders
       DEF IInv, TypeOK, LockReleased, MapInv, ThreadInv, Exclusive, FreedOnce,
           Modifying, Dropping, Freeing, Using, ModifyPc, UsePc, DestroyPc, RefCovers
  <1> QED
    BY <1>2, <1>3, <1>4 DEF IInv

\* A thread reads the number of a QP that is there, or the daemon dies.
LEMMA ModifyReuseInv ==
  ASSUME IInv, NEW t \in Threads, ModifyReuse(t)
  PROVE  IInv'
  <1> USE HostMapAssumption DEF ModifyReuse, locals, fields, Begin, Goto, Done, Crash
  <1>1. \A k \in Keys : Users(k)' \subseteq Users(k)
    <2>1. CASE crashed' = TRUE /\ UNCHANGED locals
      BY <2>1 DEF Users, IInv, TypeOK
    <2>2. CASE Goto(t, "m_src") /\ cur[t] \in live /\ qp[cur[t]] = "made"
      BY <2>2 DEF Users, IInv, TypeOK
    <2> QED
      BY <2>1, <2>2
  <1>2. RefCovers'
    BY <1>1, QuietRefs
  <1>3. TypeOK'
    BY Holders DEF IInv, TypeOK, ModifyPc, UsePc
  <1>4. LockReleased' /\ MapInv' /\ Exclusive' /\ FreedOnce' /\ ThreadInv'
    <2>1. CASE crashed' = TRUE /\ UNCHANGED locals
      BY <2>1, Holders
         DEF IInv, TypeOK, LockReleased, MapInv, ThreadInv, Exclusive, FreedOnce,
             Modifying, Dropping, Freeing, Using, ModifyPc, UsePc, DestroyPc, RefCovers
    <2>2. CASE Goto(t, "m_src") /\ cur[t] \in live /\ qp[cur[t]] = "made"
      BY <2>2, Holders
         DEF IInv, TypeOK, LockReleased, MapInv, ThreadInv, Exclusive, FreedOnce,
             Modifying, Dropping, Freeing, Using, ModifyPc, UsePc, DestroyPc, RefCovers
    <2> QED
      BY <2>1, <2>2
  <1> QED
    BY <1>2, <1>3, <1>4 DEF IInv

\* The QP is bound: it was a user of the new host, and is one no longer of any
\* other, so no count becomes too small.
LEMMA ModifySrcInv ==
  ASSUME IInv, NEW t \in Threads, ModifySrc(t)
  PROVE  IInv'
  <1> USE HostMapAssumption DEF ModifySrc, locals, fields, Begin, Goto, Done
  <1>1. \A k \in Keys : Users(k)' \subseteq Users(k)
    BY DEF Users, IInv, TypeOK
  <1>2. RefCovers'
    BY <1>1, QuietRefs
  <1>3. TypeOK' /\ LockReleased' /\ MapInv' /\ Exclusive' /\ FreedOnce'
    BY Holders
       DEF IInv, TypeOK, LockReleased, MapInv, ThreadInv, Exclusive, FreedOnce,
           Modifying, Dropping, Freeing, Using, ModifyPc, UsePc, DestroyPc, RefCovers
  <1>4. ThreadInv'
    BY Holders
       DEF IInv, TypeOK, LockReleased, MapInv, ThreadInv, Exclusive, FreedOnce,
           Modifying, Dropping, Freeing, Using, ModifyPc, UsePc, DestroyPc, RefCovers
  <1> QED
    BY <1>2, <1>3, <1>4 DEF IInv

\* Whether the peer was reached or not, the QP stays bound and its reference taken.
LEMMA ModifyTellInv ==
  ASSUME IInv, NEW t \in Threads, ModifyTell(t)
  PROVE  IInv'
  <1> USE HostMapAssumption DEF ModifyTell, locals, fields, Begin, Goto, Done
  <1>1. \A k \in Keys : Users(k)' \subseteq Users(k)
    <2>1. CASE Goto(t, "m_wait")
      BY <2>1 DEF Users, IInv, TypeOK
    <2>2. CASE Done(t)
      BY <2>2 DEF Users, IInv, TypeOK
    <2> QED
      BY <2>1, <2>2
  <1>2. RefCovers'
    BY <1>1, QuietRefs
  <1>3. TypeOK'
    BY Holders DEF IInv, TypeOK, ModifyPc, UsePc
  <1>4. LockReleased' /\ MapInv' /\ Exclusive' /\ FreedOnce' /\ ThreadInv'
    <2>1. CASE Goto(t, "m_wait")
      BY <2>1, Holders
         DEF IInv, TypeOK, LockReleased, MapInv, ThreadInv, Exclusive, FreedOnce,
             Modifying, Dropping, Freeing, Using, ModifyPc, UsePc, DestroyPc, RefCovers
    <2>2. CASE Done(t)
      BY <2>2, Holders
         DEF IInv, TypeOK, LockReleased, MapInv, ThreadInv, Exclusive, FreedOnce,
             Modifying, Dropping, Freeing, Using, ModifyPc, UsePc, DestroyPc, RefCovers
    <2> QED
      BY <2>1, <2>2
  <1> QED
    BY <1>2, <1>3, <1>4 DEF IInv

\* Waiting changes nothing but the thread.
LEMMA ModifyWaitInv ==
  ASSUME IInv, NEW t \in Threads, ModifyWait(t)
  PROVE  IInv'
  <1> USE HostMapAssumption DEF ModifyWait, locals, fields, Begin, Goto, Done
  <1>1. \A k \in Keys : Users(k)' \subseteq Users(k)
    BY DEF Users, IInv, TypeOK
  <1>2. RefCovers'
    BY <1>1, QuietRefs
  <1>3. TypeOK' /\ LockReleased' /\ MapInv' /\ Exclusive' /\ FreedOnce'
    BY Holders
       DEF IInv, TypeOK, LockReleased, MapInv, ThreadInv, Exclusive, FreedOnce,
           Modifying, Dropping, Freeing, Using, ModifyPc, UsePc, DestroyPc, RefCovers
  <1>4. ThreadInv'
    BY Holders
       DEF IInv, TypeOK, LockReleased, MapInv, ThreadInv, Exclusive, FreedOnce,
           Modifying, Dropping, Freeing, Using, ModifyPc, UsePc, DestroyPc, RefCovers
  <1> QED
    BY <1>2, <1>3, <1>4 DEF IInv

\* The second lookup finds the entry, since the QP that is being set up is bound
\* and so a user (Holders): the lock is not left behind.
LEMMA ModifyFindInv ==
  ASSUME IInv, NEW t \in Threads, ModifyFind(t)
  PROVE  IInv'
  <1> USE HostMapAssumption DEF ModifyFind, locals, fields, Begin, Goto, Done
  <1>1. \A k \in Keys : Users(k)' \subseteq Users(k)
    <2>1. CASE host_map[key[t]] # None
      BY <2>1 DEF Users, IInv, TypeOK
    <2>2. CASE host_map[key[t]] = None
      BY <2>2 DEF Users, IInv, TypeOK
    <2> QED
      BY <2>1, <2>2
  <1>2. RefCovers'
    BY <1>1, QuietRefs
  <1>3. TypeOK'
    BY Holders DEF IInv, TypeOK, ModifyPc, UsePc
  <1>4. LockReleased' /\ MapInv' /\ Exclusive' /\ FreedOnce' /\ ThreadInv'
    <2>1. CASE host_map[key[t]] # None
      BY <2>1, Holders
         DEF IInv, TypeOK, LockReleased, MapInv, ThreadInv, Exclusive, FreedOnce,
             Modifying, Dropping, Freeing, Using, ModifyPc, UsePc, DestroyPc, RefCovers
    <2>2. CASE host_map[key[t]] = None
      BY <2>2, Holders
         DEF IInv, TypeOK, LockReleased, MapInv, ThreadInv, Exclusive, FreedOnce,
             Modifying, Dropping, Freeing, Using, ModifyPc, UsePc, DestroyPc, RefCovers
    <2> QED
      BY <2>1, <2>2
  <1> QED
    BY <1>2, <1>3, <1>4 DEF IInv

\* The status changes; map, count and users stay.
LEMMA ModifyReadyInv ==
  ASSUME IInv, NEW t \in Threads, ModifyReady(t)
  PROVE  IInv'
  <1> USE HostMapAssumption DEF ModifyReady, locals, fields, Begin, Goto, Done
  <1>1. \A k \in Keys : Users(k)' \subseteq Users(k)
    BY DEF Users, IInv, TypeOK
  <1>2. RefCovers'
    BY <1>1, QuietRefs
  <1>3. TypeOK' /\ LockReleased' /\ MapInv' /\ Exclusive' /\ FreedOnce'
    BY Holders
       DEF IInv, TypeOK, LockReleased, MapInv, ThreadInv, Exclusive, FreedOnce,
           Modifying, Dropping, Freeing, Using, ModifyPc, UsePc, DestroyPc, RefCovers
  <1>4. ThreadInv'
    BY Holders
       DEF IInv, TypeOK, LockReleased, MapInv, ThreadInv, Exclusive, FreedOnce,
           Modifying, Dropping, Freeing, Using, ModifyPc, UsePc, DestroyPc, RefCovers
  <1> QED
    BY <1>2, <1>3, <1>4 DEF IInv

\* The request ends; its QP stays bound.
LEMMA ModifyNotReadyInv ==
  ASSUME IInv, NEW t \in Threads, ModifyNotReady(t)
  PROVE  IInv'
  <1> USE HostMapAssumption DEF ModifyNotReady, locals, fields, Begin, Goto, Done
  <1>1. \A k \in Keys : Users(k)' \subseteq Users(k)
    BY DEF Users, IInv, TypeOK
  <1>2. RefCovers'
    BY <1>1, QuietRefs
  <1>3. TypeOK' /\ LockReleased' /\ MapInv' /\ Exclusive' /\ FreedOnce'
    BY Holders
       DEF IInv, TypeOK, LockReleased, MapInv, ThreadInv, Exclusive, FreedOnce,
           Modifying, Dropping, Freeing, Using, ModifyPc, UsePc, DestroyPc, RefCovers
  <1>4. ThreadInv'
    BY Holders
       DEF IInv, TypeOK, LockReleased, MapInv, ThreadInv, Exclusive, FreedOnce,
           Modifying, Dropping, Freeing, Using, ModifyPc, UsePc, DestroyPc, RefCovers
  <1> QED
    BY <1>2, <1>3, <1>4 DEF IInv

\* The QP leaves src_qp_map and remains a user until its reference is dropped.
LEMMA DestroyUnbindInv ==
  ASSUME IInv, NEW t \in Threads, NEW h \in Handles, DestroyUnbind(t, h)
  PROVE  IInv'
  <1> USE HostMapAssumption DEF DestroyUnbind, locals, fields, Begin, Goto, Done, NoCallOn
  <1>1. \A k \in Keys : Users(k)' \subseteq Users(k)
    BY DEF Users, IInv, TypeOK
  <1>2. RefCovers'
    BY <1>1, QuietRefs
  <1>3. TypeOK' /\ LockReleased' /\ MapInv' /\ Exclusive' /\ FreedOnce'
    BY Holders
       DEF IInv, TypeOK, LockReleased, MapInv, ThreadInv, Exclusive, FreedOnce,
           Modifying, Dropping, Freeing, Using, ModifyPc, UsePc, DestroyPc, RefCovers
  <1>4. ThreadInv'
    BY Holders
       DEF IInv, TypeOK, LockReleased, MapInv, ThreadInv, Exclusive, FreedOnce,
           Modifying, Dropping, Freeing, Using, ModifyPc, UsePc, DestroyPc, RefCovers
  <1> QED
    BY <1>2, <1>3, <1>4 DEF IInv

\* One user and one reference less; if the count was 1 there was no other user
\* (LastUser), so taking the entry away leaves nobody without a connection.
LEMMA DestroyDropInv ==
  ASSUME IInv, NEW t \in Threads, DestroyDrop(t)
  PROVE  IInv'
  <1> USE HostMapAssumption DEF locals, fields, Begin, Goto, Done
  <1>a. PICK k \in Keys : k = key[t]
    BY DEF DestroyDrop, IInv, ThreadInv, Dropping
  <1>b. PICK h \in Handles : h = hdl[t]
    BY DEF DestroyDrop, IInv, ThreadInv, Dropping
  <1>c. PICK c : c = host_map[k]
    OBVIOUS
  <1>1. pc[t] = "d_drop" /\ src_qp_map[h] = None
    BY <1>b DEF DestroyDrop, IInv, ThreadInv, Dropping
  <1>2. /\ h \in Users(k) /\ c \in Conns /\ c # None
        /\ ref_cnt[c] \in Nat \ {0}
        /\ LastRef(c) => Users(k) = {h}
    BY <1>a, <1>b, <1>c, <1>1, LastUser
  <1>3. /\ ref_cnt' = [ref_cnt EXCEPT ![c] = @ - 1]
        /\ hdl'[t] \in {None, h} /\ pc'[t] \in {"idle", "d_qp"}
        /\ \A u \in Threads \ {t} : pc'[u] = pc[u] /\ hdl'[u] = hdl[u]
                                     /\ key'[u] = key[u] /\ cur'[u] = cur[u]
        /\ UNCHANGED <<host_lock, src_qp_map, dst_qp_map, live, qp, status, mutex,
                       ready, crashed>>
    BY <1>a, <1>b, <1>c, <1>1, <1>2 DEF DestroyDrop, IInv, TypeOK
  <1>4. \A l \in Keys : Users(l)' \subseteq Users(l)
    BY <1>a, <1>b, <1>c, <1>3 DEF Users
  <1>5. h \notin Users(k)'
    <2>1. \A u \in Threads : hdl'[u] = h =>
            pc'[u] \notin {"m_create", "m_reuse", "m_src", "d_drop"}
      BY <1>a, <1>b, <1>c, <1>1, <1>3 DEF IInv, Exclusive, UsePc
    <2> QED
      BY <1>a, <1>b, <1>c, <1>1, <1>3, <2>1 DEF Users
  <1>6. TypeOK'
    <2>1. ref_cnt' \in [Conns -> Nat]
      BY <1>2, <1>3 DEF IInv, TypeOK
    <2>2. host_map' \in [Keys -> Conns \cup {None}]
      BY <1>a, <1>c, <1>2 DEF DestroyDrop, Erased, IInv, TypeOK
    <2>3. CASE LastRef(c)
      BY <1>a, <1>b, <1>c, <1>2, <1>3, <2>1, <2>2, <2>3
         DEF DestroyDrop, IInv, TypeOK, DestroyPc
    <2>4. CASE ~LastRef(c)
      BY <1>a, <1>b, <1>c, <1>2, <1>3, <2>1, <2>2, <2>4
         DEF DestroyDrop, IInv, TypeOK, DestroyPc
    <2> QED
      BY <2>3, <2>4
  <1>7. CASE ~LastRef(c)
    <2>1. Done(t) /\ host_map' = host_map
      BY <1>a, <1>b, <1>c, <1>2, <1>7 DEF DestroyDrop
    <2>2. RefCovers'
      <3> SUFFICES ASSUME NEW l \in Keys
                   PROVE  IF host_map[l] = None THEN Users(l)' = {}
                          ELSE Cardinality(Users(l)') <= ref_cnt'[host_map[l]]
        BY <2>1 DEF RefCovers
      <3>1. CASE l = k
        <4>1. /\ Cardinality(Users(k)) \in Nat
              /\ Cardinality(Users(k) \ {h}) = Cardinality(Users(k)) - 1
          BY <1>a, <1>b, <1>c, <1>2, UsersFinite, OneUserLess
        <4>2. /\ Cardinality(Users(k)') \in Nat
              /\ Cardinality(Users(k)') <= Cardinality(Users(k) \ {h})
          <5>1. Users(k)' \subseteq Users(k) \ {h}
            BY <1>a, <1>b, <1>c, <1>1, <1>4, <1>5
          <5>2. Users(k) \ {h} \in SUBSET Handles
            BY UsersFinite
          <5> QED
            BY <5>1, <5>2, FewerUsers
        <4>3. Cardinality(Users(k)) <= ref_cnt[c]
          BY <1>a, <1>b, <1>c, <1>1, <1>2 DEF IInv, RefCovers
        <4>4. ref_cnt'[c] = ref_cnt[c] - 1
          BY <1>a, <1>b, <1>c, <1>2, <1>3 DEF IInv, TypeOK
        <4> QED
          BY <1>a, <1>b, <1>c, <1>2, <3>1, <4>1, <4>2, <4>3, <4>4
      <3>2. CASE l # k /\ host_map[l] = None
        BY <1>a, <1>b, <1>c, <1>4, <3>2 DEF IInv, RefCovers
      <3>3. CASE l # k /\ host_map[l] # None
        <4>1. host_map[l] # c
          BY <1>a, <1>b, <1>c, <1>1, <3>3 DEF IInv, MapInv
        <4>2. /\ Cardinality(Users(l)) <= ref_cnt[host_map[l]]
              /\ ref_cnt'[host_map[l]] = ref_cnt[host_map[l]]
              /\ ref_cnt[host_map[l]] \in Nat
          BY <1>3, <3>3, <4>1 DEF IInv, TypeOK, RefCovers
        <4>3. /\ Cardinality(Users(l)') \in Nat /\ Cardinality(Users(l)) \in Nat
              /\ Cardinality(Users(l)') <= Cardinality(Users(l))
          BY <1>a, <1>b, <1>c, <1>4, <3>3, UsersFinite, FewerUsers
        <4> QED
          BY <3>3, <4>2, <4>3
      <3> QED
        BY <3>1, <3>2, <3>3
    <2>3. LockReleased' /\ MapInv' /\ Exclusive' /\ FreedOnce' /\ ThreadInv'
      BY <1>a, <1>b, <1>c, <1>1, <1>2, <1>3, <2>1
         DEF IInv, TypeOK, LockReleased, MapInv, ThreadInv, Exclusive, FreedOnce,
             Modifying, Dropping, Freeing, Using, ModifyPc, UsePc, DestroyPc
    <2> QED
      BY <1>6, <2>2, <2>3 DEF IInv
  <1>8. CASE LastRef(c)
    <2>1. /\ host_map' = [host_map EXCEPT ![k] = None]
          /\ Begin(t, h, k, c, "d_qp")
      BY <1>a, <1>b, <1>c, <1>2, <1>8 DEF DestroyDrop, Erased
    <2>2. /\ \A u \in Threads \ {t} :
               pc[u] \in ModifyPc \cup UsePc \cup {"d_drop"} => key[u] # k
          /\ \A g \in Handles : src_qp_map[g] # k
      <3>1. Users(k) = {h}
        BY <1>a, <1>b, <1>c, <1>2, <1>8
      <3>2. ASSUME NEW u \in Threads \ {t},
                   pc[u] \in ModifyPc \cup UsePc \cup {"d_drop"}, key[u] = k
            PROVE  FALSE
        BY <1>a, <1>b, <1>c, <1>1, <3>1, <3>2, Holders DEF IInv, Exclusive, UsePc
      <3>3. ASSUME NEW g \in Handles, src_qp_map[g] = k PROVE FALSE
        BY <1>a, <1>b, <1>c, <1>1, <3>1, <3>3 DEF Users
      <3> QED
        BY <3>2, <3>3
    <2>3. \A l \in Keys \ {k} : host_map[l] # c
      BY <1>a, <1>b, <1>c, <1>1, <1>2 DEF IInv, MapInv
    <2>4. RefCovers'
      <3> SUFFICES ASSUME NEW l \in Keys
                   PROVE  IF host_map'[l] = None THEN Users(l)' = {}
                          ELSE Cardinality(Users(l)') <= ref_cnt'[host_map'[l]]
        BY DEF RefCovers
      <3>1. CASE l = k
        BY <1>a, <1>b, <1>c, <1>1, <1>2, <1>4, <1>5, <1>8, <2>1, <3>1 DEF IInv, TypeOK
      <3>2. CASE l # k /\ host_map[l] = None
        BY <1>a, <1>b, <1>c, <1>4, <2>1, <3>2 DEF IInv, TypeOK, RefCovers
      <3>3. CASE l # k /\ host_map[l] # None
        <4>1. /\ Cardinality(Users(l)) <= ref_cnt[host_map[l]]
              /\ ref_cnt'[host_map[l]] = ref_cnt[host_map[l]]
              /\ ref_cnt[host_map[l]] \in Nat /\ host_map'[l] = host_map[l]
          BY <1>3, <2>1, <2>3, <3>3 DEF IInv, TypeOK, RefCovers
        <4>2. /\ Cardinality(Users(l)') \in Nat /\ Cardinality(Users(l)) \in Nat
              /\ Cardinality(Users(l)') <= Cardinality(Users(l))
          BY <1>a, <1>b, <1>c, <1>4, <3>3, UsersFinite, FewerUsers
        <4> QED
          BY <3>3, <4>1, <4>2
      <3> QED
        BY <3>1, <3>2, <3>3
    <2>5. LockReleased' /\ Exclusive'
      BY <1>a, <1>b, <1>c, <1>1, <1>3, <2>1 DEF IInv, TypeOK, LockReleased, Exclusive, UsePc
    <2>6. MapInv'
      BY <1>a, <1>b, <1>c, <1>1, <1>2, <1>3, <2>1, <2>2 DEF IInv, TypeOK, MapInv
    <2>7. FreedOnce'
      BY <1>a, <1>b, <1>c, <1>1, <1>2, <1>3, <2>1, <2>3
         DEF IInv, TypeOK, FreedOnce, ThreadInv, Freeing
    <2>8. ThreadInv'
      BY <1>a, <1>b, <1>c, <1>1, <1>2, <1>3, <2>1, <2>2
         DEF IInv, TypeOK, LockReleased, MapInv, ThreadInv, Exclusive, FreedOnce,
             Modifying, Dropping, Freeing, Using, ModifyPc, UsePc, DestroyPc
    <2> QED
      BY <1>6, <2>4, <2>5, <2>6, <2>7, <2>8 DEF IInv
  <1> QED
    BY <1>7, <1>8

\* The QP goes of a connection that no host has any more.
LEMMA DestroyQpInv ==
  ASSUME IInv, NEW t \in Threads, DestroyQp(t)
  PROVE  IInv'
  <1> USE HostMapAssumption DEF DestroyQp, locals, fields, Begin, Goto, Done
  <1>1. \A k \in Keys : Users(k)' \subseteq Users(k)
    BY DEF Users, IInv, TypeOK
  <1>2. RefCovers'
    BY <1>1, QuietRefs
  <1>3. TypeOK' /\ LockReleased' /\ MapInv' /\ Exclusive' /\ FreedOnce'
    BY Holders
       DEF IInv, TypeOK, LockReleased, MapInv, ThreadInv, Exclusive, FreedOnce,
           Modifying, Dropping, Freeing, Using, ModifyPc, UsePc, DestroyPc, RefCovers
  <1>4. ThreadInv'
    BY Holders
       DEF IInv, TypeOK, LockReleased, MapInv, ThreadInv, Exclusive, FreedOnce,
           Modifying, Dropping, Freeing, Using, ModifyPc, UsePc, DestroyPc, RefCovers
  <1> QED
    BY <1>2, <1>3, <1>4 DEF IInv

\* The memory goes of a connection that no host has and no other thread frees.
LEMMA DestroyFreeInv ==
  ASSUME IInv, NEW t \in Threads, DestroyFree(t)
  PROVE  IInv'
  <1> USE HostMapAssumption DEF DestroyFree, locals, fields, Begin, Goto, Done, Unlocked
  <1>1. \A k \in Keys : Users(k)' \subseteq Users(k)
    BY DEF Users, IInv, TypeOK
  <1>2. RefCovers'
    BY <1>1, QuietRefs
  <1>3. TypeOK' /\ LockReleased' /\ MapInv' /\ Exclusive' /\ FreedOnce'
    BY Holders
       DEF IInv, TypeOK, LockReleased, MapInv, ThreadInv, Exclusive, FreedOnce,
           Modifying, Dropping, Freeing, Using, ModifyPc, UsePc, DestroyPc, RefCovers
  <1>4. ThreadInv'
    BY Holders
       DEF IInv, TypeOK, LockReleased, MapInv, ThreadInv, Exclusive, FreedOnce,
           Modifying, Dropping, Freeing, Using, ModifyPc, UsePc, DestroyPc, RefCovers
  <1> QED
    BY <1>2, <1>3, <1>4 DEF IInv

\* A post or poll begins on a bound QP.
LEMMA UseLookupInv ==
  ASSUME IInv, NEW t \in Threads, NEW h \in Handles, UseLookup(t, h)
  PROVE  IInv'
  <1> USE HostMapAssumption DEF UseLookup, locals, fields, Begin, Goto, Done, NoSetupOn
  <1>1. \A k \in Keys : Users(k)' \subseteq Users(k)
    BY DEF Users, IInv, TypeOK
  <1>2. RefCovers'
    BY <1>1, QuietRefs
  <1>3. TypeOK' /\ LockReleased' /\ MapInv' /\ Exclusive' /\ FreedOnce'
    BY Holders
       DEF IInv, TypeOK, LockReleased, MapInv, ThreadInv, Exclusive, FreedOnce,
           Modifying, Dropping, Freeing, Using, ModifyPc, UsePc, DestroyPc, RefCovers
  <1>4. ThreadInv'
    BY Holders
       DEF IInv, TypeOK, LockReleased, MapInv, ThreadInv, Exclusive, FreedOnce,
           Modifying, Dropping, Freeing, Using, ModifyPc, UsePc, DestroyPc, RefCovers
  <1> QED
    BY <1>2, <1>3, <1>4 DEF IInv

\* It finds the connection of its host.
LEMMA UseFindInv ==
  ASSUME IInv, NEW t \in Threads, UseFind(t)
  PROVE  IInv'
  <1> USE HostMapAssumption DEF UseFind, locals, fields, Begin, Goto, Done
  <1>1. \A k \in Keys : Users(k)' \subseteq Users(k)
    <2>1. CASE host_map[key[t]] # None
      BY <2>1 DEF Users, IInv, TypeOK
    <2>2. CASE host_map[key[t]] = None
      BY <2>2 DEF Users, IInv, TypeOK
    <2> QED
      BY <2>1, <2>2
  <1>2. RefCovers'
    BY <1>1, QuietRefs
  <1>3. TypeOK'
    BY Holders DEF IInv, TypeOK, ModifyPc, UsePc
  <1>4. LockReleased' /\ MapInv' /\ Exclusive' /\ FreedOnce' /\ ThreadInv'
    <2>1. CASE host_map[key[t]] # None
      BY <2>1, Holders
         DEF IInv, TypeOK, LockReleased, MapInv, ThreadInv, Exclusive, FreedOnce,
             Modifying, Dropping, Freeing, Using, ModifyPc, UsePc, DestroyPc, RefCovers
    <2>2. CASE host_map[key[t]] = None
      BY <2>2, Holders
         DEF IInv, TypeOK, LockReleased, MapInv, ThreadInv, Exclusive, FreedOnce,
             Modifying, Dropping, Freeing, Using, ModifyPc, UsePc, DestroyPc, RefCovers
    <2> QED
      BY <2>1, <2>2
  <1> QED
    BY <1>2, <1>3, <1>4 DEF IInv

\* It is done.
LEMMA UseConnInv ==
  ASSUME IInv, NEW t \in Threads, UseConn(t)
  PROVE  IInv'
  <1> USE HostMapAssumption DEF UseConn, locals, fields, Begin, Goto, Done
  <1>1. \A k \in Keys : Users(k)' \subseteq Users(k)
    BY DEF Users, IInv, TypeOK
  <1>2. RefCovers'
    BY <1>1, QuietRefs
  <1>3. TypeOK' /\ LockReleased' /\ MapInv' /\ Exclusive' /\ FreedOnce'
    BY Holders
       DEF IInv, TypeOK, LockReleased, MapInv, ThreadInv, Exclusive, FreedOnce,
           Modifying, Dropping, Freeing, Using, ModifyPc, UsePc, DestroyPc, RefCovers
  <1>4. ThreadInv'
    BY Holders
       DEF IInv, TypeOK, LockReleased, MapInv, ThreadInv, Exclusive, FreedOnce,
           Modifying, Dropping, Freeing, Using, ModifyPc, UsePc, DestroyPc, RefCovers
  <1> QED
    BY <1>2, <1>3, <1>4 DEF IInv

\* The peer's messages change dst_qp_map only.
LEMMA RemoteInv ==
  ASSUME IInv, NEW k \in Keys, Remote(k)
  PROVE  IInv'
  <1> USE DEF Remote, RemoteInsert, RemoteDelete, locals, fields
  <1>1. UNCHANGED <<locals, host_map, host_lock, src_qp_map, fields, ready, crashed>>
    OBVIOUS
  <1>2. \A l \in Keys : Users(l)' \subseteq Users(l)
    BY <1>1 DEF Users
  <1>3. RefCovers'
    BY <1>1, <1>2, QuietRefs
  <1>4. TypeOK'
    BY DEF IInv, TypeOK
  <1>5. LockReleased' /\ MapInv' /\ Exclusive' /\ FreedOnce' /\ ThreadInv'
    BY <1>1 DEF IInv, LockReleased, MapInv, ThreadInv, Exclusive, FreedOnce,
       Modifying, Dropping, Freeing, Using
  <1> QED
    BY <1>3, <1>4, <1>5 DEF IInv

-----------------------------------------------------------------------------
(* The theorems.                                                            *)

\* Every step preserves the invariant: one lemma per action.
LEMMA StepInv == IInv /\ [Next]_vars => IInv'
  <1> SUFFICES ASSUME IInv, [Next]_vars PROVE IInv'
    OBVIOUS
  <1>1. ASSUME NEW t \in Threads, Continue(t) PROVE IInv'
    BY <1>1, ModifyCreateInv, ModifyCreateFailsInv, ModifyReuseInv, ModifySrcInv,
       ModifyTellInv, ModifyWaitInv, ModifyFindInv, ModifyReadyInv,
       ModifyNotReadyInv, DestroyDropInv, DestroyQpInv, DestroyFreeInv,
       UseFindInv, UseConnInv DEF Continue
  <1>2. ASSUME NEW t \in Threads, NEW h \in Handles, Request(t, h) PROVE IInv'
    BY <1>2, ModifyNewInv, ModifyShareInv, DestroyUnbindInv, UseLookupInv DEF Request
  <1>3. ASSUME NEW k \in Keys, Remote(k) PROVE IInv'
    BY <1>3, RemoteInv
  <1>4. ASSUME UNCHANGED vars PROVE IInv'
    <2>1. \A k \in Keys : Users(k)' \subseteq Users(k)
      BY <1>4 DEF Users, vars, locals
    <2>2. RefCovers'
      BY <1>4, <2>1, QuietRefs DEF vars, fields
    <2> QED
      BY <1>4, <2>2 DEF vars, locals, fields, IInv, TypeOK, LockReleased, MapInv,
         ThreadInv, Exclusive, FreedOnce, Modifying, Dropping, Freeing, Using
  <1> QED
    BY <1>1, <1>2, <1>3, <1>4 DEF Next, Dead

\* Every reachable state satisfies the inductive invariant.
THEOREM Invariance == Spec => []IInv
  BY InitInv, StepInv, PTL DEF Spec

\* The variables keep their types; in particular ref_cnt, a uint32_t in the code,
\* is never taken below zero by an IBV_DESTROY_QP.
THEOREM TypeCorrect == Spec => []TypeOK
  <1>1. IInv => TypeOK
    BY DEF IInv
  <1> QED
    BY <1>1, Invariance, PTL

\* ref_cnt is never below the number of virtual QPs that hold the connection.
THEOREM CountCoversUsers == Spec => []RefCovers
  <1>1. IInv => RefCovers
    BY DEF IInv
  <1> QED
    BY <1>1, Invariance, PTL

\* No thread uses a conn_resources, or its QP, after it was freed.
THEOREM PointersValid == Spec => []NoUseAfterFree
  <1>1. ASSUME IInv PROVE NoUseAfterFree
    <2> SUFFICES ASSUME NEW t \in Threads
                 PROVE  /\ cur[t] # None => cur[t] \in live
                        /\ pc[t] \in {"m_ready", "u_conn", "d_qp"} => qp[cur[t]] = "made"
      BY DEF NoUseAfterFree
    <2>1. pc[t] \in {"idle"} \cup ModifyPc \cup DestroyPc \cup UsePc
      BY <1>1 DEF IInv, TypeOK
    <2> QED
      BY <1>1, <2>1, HostMapAssumption
         DEF IInv, ThreadInv, MapInv, Modifying, Dropping, Freeing, Using,
             ModifyPc, DestroyPc, UsePc
  <1> QED
    BY <1>1, Invariance, PTL

\* A connection is torn down by one thread, after it left host_map.
THEOREM TornDownOnce == Spec => []FreedOnce
  <1>1. IInv => FreedOnce
    BY DEF IInv
  <1> QED
    BY <1>1, Invariance, PTL

\* No request ends with the host_map lock held: the second lookup of
\* IBV_MODIFY_QP always finds the entry.
THEOREM NoLockLeak == Spec => []LockReleased
  <1>1. IInv => LockReleased
    BY DEF IInv
  <1> QED
    BY <1>1, Invariance, PTL
=============================================================================
