--------------------------- MODULE LegacyConnProofs ---------------------------
(***************************************************************************)
(* Safety of the connections that both interfaces share, for any number of *)
(* threads, clients of either kind, hosts and addresses.  Virtual QPs and  *)
(* legacy connections are treated alike, as clients that are bound to a    *)
(* host; what is particular to the legacy requests is conn_map, and the    *)
(* locks that killed requests keep.  The theorems are about legacy clients *)
(* that go by what they were answered (Unprepared = {}): the count is not  *)
(* kept for one that tears down what it never created (LegacyConn's run    *)
(* LegacyConn_uncounted).                                                  *)
(***************************************************************************)
EXTENDS LegacyConn, FiniteSetTheorems, TLAPS

Clients == Handles \cup VConns

\* The host a client is bound to.
Bound(h) == IF h \in Handles THEN src_qp_map[h] ELSE vhost[h]

\* Where a request holds a connection that its client is not bound to, where
\* it sets up or uses one that its client is bound to, and where it frees one.
TakePc  == {"m_create", "m_reuse", "m_src", "c_create", "c_reuse"}
LeavePc == {"x_erase", "d_drop"}
BoundPc == {"m_tell", "m_wait", "m_find", "m_ready", "u_find", "u_conn",
            "s_conn", "s_map", "p_find", "p_conn"}
FreePc  == {"d_qp", "d_free"}

Types ==
  /\ LegacyTypeOK
  /\ key \in [Threads -> Keys \cup {None}]
  /\ cur \in [Threads -> Conns \cup {None}]
  /\ host_map \in [Keys -> Conns \cup {None}]
  /\ src_qp_map \in [Handles -> Keys \cup {None}]
  /\ live \subseteq Conns
  /\ qp \in [Conns -> {"null", "made", "gone"}]

Taking(t) ==
  /\ key[t] \in Keys /\ cur[t] # None /\ cur[t] = host_map[key[t]]
  /\ IF pc[t] \in CreatePc THEN hdl[t] \in VConns /\ vhost[hdl[t]] \in {None, key[t]}
                           ELSE hdl[t] \in Handles
  /\ pc[t] = "m_src" => qp[cur[t]] = "made"

Leaving(t) ==
  /\ hdl[t] \in Clients /\ key[t] \in Keys /\ cur[t] = None
  /\ pc[t] = "x_erase" => hdl[t] \in VConns
  /\ Bound(hdl[t]) = None
  /\ qp[host_map[key[t]]] = "made"

Working(t) ==
  /\ hdl[t] \in IF pc[t] \in SetupPc \cup PostPc THEN VConns ELSE Handles
  /\ key[t] \in Keys /\ Bound(hdl[t]) = key[t]
  /\ cur[t] = IF pc[t] \in {"u_find", "p_find"} THEN None ELSE host_map[key[t]]

Freeing(t) ==
  /\ cur[t] \in live
  /\ pc[t] = "d_qp" => qp[cur[t]] = "made"

\* What a thread knows at each point of its request.
ThreadInv ==
  \A t \in Threads :
    /\ pc[t] = "idle" => hdl[t] = None /\ cur[t] = None
    /\ pc[t] \in TakePc => Taking(t)
    /\ pc[t] \in LeavePc => Leaving(t)
    /\ pc[t] \in BoundPc => Working(t)
    /\ pc[t] \in FreePc => Freeing(t)

\* A request that sets a client up or tears it down is the only one on it.
Exclusive ==
  \A t, u \in Threads :
    t # u /\ hdl[t] # None /\ hdl[t] = hdl[u] =>
      pc[t] \in UsePc \cup PostPc /\ pc[u] \in UsePc \cup PostPc

\* An entry of host_map is allocated, belongs to one host only, and has a QP
\* as soon as a client is bound to it.
MapInv ==
  /\ \A k \in Keys : host_map[k] # None => host_map[k] \in live
  /\ \A k, l \in Keys : host_map[k] # None /\ host_map[k] = host_map[l] => k = l
  /\ \A h \in Clients : Bound(h) # None => qp[host_map[Bound(h)]] = "made"

\* A thread that makes or destroys a QP owns its mutex, and no dead one does.
LockInv ==
  /\ \A t \in Threads : pc[t] \in {"m_create", "c_create", "d_free"} =>
       mutex[cur[t]] = t /\ cur[t] \notin wedged
  /\ \A c \in wedged : mutex[c] # None

\* What conn_map has is the client's connection, until its request erases it.
ConnInv ==
  \A v \in VConns : conn_map[v] # None =>
    \/ vhost[v] # None /\ conn_map[v] = host_map[vhost[v]]
    \/ \E t \in Threads : pc[t] = "x_erase" /\ hdl[t] = v

\* The clients of both kinds that hold the connection of host k.
Holders(k) ==
  {h \in Clients :
     \/ Bound(h) = k
     \/ \E t \in Threads : hdl[t] = h /\ key[t] = k /\ pc[t] \in TakePc \cup LeavePc}

CountInv ==
  \A k \in Keys :
    IF host_map[k] = None THEN Holders(k) = {}
    ELSE Cardinality(Holders(k)) <= ref_cnt[host_map[k]]

SafeInv == MapInv /\ ThreadInv /\ Exclusive /\ FreedOnce
LegacyInv == LockInv /\ ConnInv
IInv == Unprepared = {} /\ Types /\ LockReleased /\ CountInv /\ SafeInv /\ LegacyInv

-----------------------------------------------------------------------------
(* Holders are a finite set whose size grows and shrinks by one.            *)

\* There are finitely many clients.
LEMMA ClientsFinite == IsFiniteSet(Clients) /\ None \notin Clients
  BY FS_Union, HostMapAssumption, LegacyAssumption DEF Clients

\* So the holders of a connection can be counted.
LEMMA HoldersFinite == \A k : Holders(k) \subseteq Clients /\ IsFiniteSet(Holders(k))
  <1>1. \A k : Holders(k) \subseteq Clients
    BY DEF Holders
  <1> QED
    BY <1>1, FS_Subset, ClientsFinite

\* Fewer holders need no larger count.
LEMMA FewerHolders ==
  ASSUME NEW S \in SUBSET Clients, NEW R \in SUBSET S
  PROVE  /\ Cardinality(R) \in Nat /\ Cardinality(S) \in Nat
         /\ Cardinality(R) <= Cardinality(S)
  BY FS_Subset, FS_CardinalityType, ClientsFinite

\* One more holder raises the number by at most one.
LEMMA OneMoreHolder ==
  ASSUME NEW S \in SUBSET Clients, NEW h \in Clients
  PROVE  /\ Cardinality(S) \in Nat /\ Cardinality(S \cup {h}) \in Nat
         /\ Cardinality(S \cup {h}) <= Cardinality(S) + 1
  <1>1. IsFiniteSet(S)
    BY FS_Subset, ClientsFinite
  <1>2. /\ IsFiniteSet(S \cup {h})
        /\ Cardinality(S \cup {h}) = IF h \in S THEN Cardinality(S) ELSE Cardinality(S) + 1
    BY <1>1, FS_AddElement
  <1>3. Cardinality(S) \in Nat /\ Cardinality(S \cup {h}) \in Nat
    BY <1>1, <1>2, FS_CardinalityType
  <1> QED
    BY <1>2, <1>3

\* One holder less lowers the number by one.
LEMMA OneHolderLess ==
  ASSUME NEW S \in SUBSET Clients, NEW h \in S
  PROVE  /\ Cardinality(S) \in Nat /\ Cardinality(S) >= 1
         /\ Cardinality(S \ {h}) = Cardinality(S) - 1
         /\ Cardinality(S) = 1 => S = {h}
  <1>1. IsFiniteSet(S)
    BY FS_Subset, ClientsFinite
  <1>2. Cardinality(S \ {h}) = Cardinality(S) - 1 /\ IsFiniteSet(S \ {h})
    BY <1>1, FS_RemoveElement
  <1>3. Cardinality(S) \in Nat /\ Cardinality(S \ {h}) \in Nat
    BY <1>1, <1>2, FS_CardinalityType
  <1>4. ASSUME Cardinality(S) = 1 PROVE S = {h}
    BY <1>1, <1>4, FS_Singleton
  <1> QED
    BY <1>2, <1>3, <1>4

\* Bindings are to hosts, and every binding or request that depends on a
\* connection is counted: there is an entry for its host.
LEMMA Held ==
  ASSUME IInv
  PROVE  /\ \A h \in Clients : Bound(h) # None =>
              /\ Bound(h) \in Keys /\ h \in Holders(Bound(h))
              /\ host_map[Bound(h)] \in Conns /\ host_map[Bound(h)] # None
         /\ \A t \in Threads : pc[t] \in TakePc \cup LeavePc \cup BoundPc =>
              /\ hdl[t] \in Clients /\ key[t] \in Keys /\ hdl[t] \in Holders(key[t])
              /\ host_map[key[t]] \in Conns /\ host_map[key[t]] # None
  <1>1. ASSUME NEW h \in Clients, Bound(h) # None
        PROVE  Bound(h) \in Keys /\ h \in Holders(Bound(h))
    BY <1>1 DEF IInv, Types, LegacyTypeOK, Bound, Clients, Holders
  <1>2. ASSUME NEW t \in Threads, pc[t] \in TakePc \cup LeavePc \cup BoundPc
        PROVE  hdl[t] \in Clients /\ key[t] \in Keys /\ hdl[t] \in Holders(key[t])
    <2>1. hdl[t] \in Clients /\ key[t] \in Keys
      BY <1>2 DEF IInv, SafeInv, ThreadInv, Taking, Leaving, Working, Clients
    <2>2. pc[t] \in BoundPc => Bound(hdl[t]) = key[t]
      BY DEF IInv, SafeInv, ThreadInv, Working
    <2> QED
      BY <1>2, <2>1, <2>2 DEF Holders
  <1>3. \A k \in Keys : Holders(k) # {} => host_map[k] \in Conns /\ host_map[k] # None
    BY DEF IInv, CountInv, Types
  <1> QED
    BY <1>1, <1>2, <1>3

\* Without an entry in host_map nobody depends on the connection of the host.
LEMMA Unmapped ==
  ASSUME IInv, NEW k \in Keys, host_map[k] = None
  PROVE  /\ Holders(k) = {}
         /\ \A t \in Threads : pc[t] \in TakePc \cup LeavePc \cup BoundPc => key[t] # k
         /\ \A h \in Clients : Bound(h) # k
  <1>1. Holders(k) = {}
    BY DEF IInv, CountInv
  <1>2. k # None
    BY HostMapAssumption
  <1> QED
    BY <1>1, <1>2, Held

\* If the holders of no host grow and neither host_map nor the counts change,
\* the counts stay large enough.
LEMMA QuietCounts ==
  ASSUME IInv, UNCHANGED <<host_map, ref_cnt>>,
         \A k \in Keys : Holders(k)' \subseteq Holders(k)
  PROVE  CountInv'
  <1> SUFFICES ASSUME NEW k \in Keys
               PROVE  IF host_map[k] = None THEN Holders(k)' = {}
                      ELSE Cardinality(Holders(k)') <= ref_cnt[host_map[k]]
    BY DEF CountInv
  <1>1. CASE host_map[k] = None
    BY <1>1 DEF IInv, CountInv
  <1>2. CASE host_map[k] # None
    <2>1. Cardinality(Holders(k)) <= ref_cnt[host_map[k]]
      BY <1>2 DEF IInv, CountInv
    <2>2. ref_cnt[host_map[k]] \in Nat
      BY <1>2 DEF IInv, Types, LegacyTypeOK
    <2>3. /\ Cardinality(Holders(k)') \in Nat /\ Cardinality(Holders(k)) \in Nat
          /\ Cardinality(Holders(k)') <= Cardinality(Holders(k))
      BY HoldersFinite, FewerHolders
    <2> QED
      BY <1>2, <2>1, <2>2, <2>3
  <1> QED
    BY <1>1, <1>2

-----------------------------------------------------------------------------
(* The initial state, and one lemma per action.                             *)

\* With empty maps and idle threads the invariant holds.
LEMMA InitInv ==
  ASSUME Unprepared = {}
  PROVE  LegacyInit => IInv
  <1> SUFFICES ASSUME LegacyInit PROVE IInv
    OBVIOUS
  <1>1. Types
    BY DEF LegacyInit, Init, Types, LegacyTypeOK
  <1>2. \A h \in Clients : Bound(h) = None
    BY DEF LegacyInit, Init, Bound, Clients
  <1>3. \A k \in Keys : Holders(k) = {}
    BY <1>2, HostMapAssumption DEF LegacyInit, Init, Holders, TakePc, LeavePc
  <1>4. SafeInv
    BY <1>2 DEF LegacyInit, Init, SafeInv, MapInv, ThreadInv, Exclusive, FreedOnce,
       TakePc, LeavePc, BoundPc, FreePc
  <1> QED
    BY <1>1, <1>3, <1>4
       DEF LegacyInit, Init, IInv, CountInv, LockReleased, LegacyInv, LockInv, ConnInv

\* A request of a legacy client names the host that the client was answered.
LEMMA NamesOwn ==
  ASSUME IInv, NEW v \in VConns, NEW k \in LegacyKeys, Names(v, k)
  PROVE  vhost[v] = k /\ k \in Keys /\ k # None
  BY HostMapAssumption, LegacyAssumption DEF IInv, Names

\* The QP is made; map, count and holders stay.
LEMMA ModifyCreateInv ==
  ASSUME IInv, NEW t \in Threads, ModifyCreate(t), UNCHANGED legacy
  PROVE  IInv'
  <1> USE HostMapAssumption, LegacyAssumption
      DEF ModifyCreate, locals, fields, Begin, Goto, Done, Unlocked, legacy
  <1>1. \A l \in Keys : Holders(l)' \subseteq Holders(l)
    BY DEF Holders, IInv, Types, LegacyTypeOK, SafeInv, TakePc, Bound
  <1>2. CountInv'
    BY <1>1, QuietCounts
  <1>3. Types'
    BY DEF IInv, Types, LegacyTypeOK, SafeInv, ModifyPc
  <1>4. MapInv'
    BY DEF IInv, Types, LegacyTypeOK, SafeInv, MapInv, Bound
  <1>5. ThreadInv'
    BY DEF IInv, Types, LegacyTypeOK, SafeInv, Freeing, Leaving, Working, Taking, CreatePc,
           FreePc, BoundPc, LeavePc, TakePc, Bound, ThreadInv
  <1>6. LockReleased' /\ Exclusive' /\ FreedOnce'
    BY DEF IInv, Types, LegacyTypeOK, SafeInv, LockReleased, FreedOnce, Exclusive, UsePc,
           PostPc
  <1>7. LockInv'
    BY DEF IInv, Types, LegacyTypeOK, SafeInv, LegacyInv, LockInv
  <1>8. ConnInv'
    BY DEF IInv, Types, LegacyTypeOK, SafeInv, LegacyInv, ConnInv
  <1> QED
    BY <1>2, <1>3, <1>4, <1>5, <1>6, <1>7, <1>8 DEF IInv, SafeInv, LegacyInv

\* The daemon dies; nothing else changes.
LEMMA ModifyCreateFailsInv ==
  ASSUME IInv, NEW t \in Threads, ModifyCreateFails(t), UNCHANGED legacy
  PROVE  IInv'
  <1> USE HostMapAssumption, LegacyAssumption
      DEF ModifyCreateFails, locals, fields, Begin, Goto, Done, Crash, legacy
  <1>1. \A l \in Keys : Holders(l)' \subseteq Holders(l)
    BY DEF Holders, IInv, Types, LegacyTypeOK, SafeInv, Bound
  <1>2. CountInv'
    BY <1>1, QuietCounts
  <1>3. Types'
    BY DEF IInv, Types, LegacyTypeOK, SafeInv
  <1>4. MapInv'
    BY DEF IInv, Types, LegacyTypeOK, SafeInv, MapInv, Bound
  <1>5. ThreadInv'
    BY DEF IInv, Types, LegacyTypeOK, SafeInv, Freeing, Leaving, Working, Taking, Bound,
           ThreadInv
  <1>6. LockReleased' /\ Exclusive' /\ FreedOnce'
    BY DEF IInv, Types, LegacyTypeOK, SafeInv, LockReleased, FreedOnce, Exclusive
  <1>7. LockInv'
    BY DEF IInv, Types, LegacyTypeOK, SafeInv, LegacyInv, LockInv
  <1>8. ConnInv'
    BY DEF IInv, Types, LegacyTypeOK, SafeInv, LegacyInv, ConnInv
  <1> QED
    BY <1>2, <1>3, <1>4, <1>5, <1>6, <1>7, <1>8 DEF IInv, SafeInv, LegacyInv

\* A thread reads the number of a QP that is there, or the daemon dies.
LEMMA ModifyReuseInv ==
  ASSUME IInv, NEW t \in Threads, ModifyReuse(t), UNCHANGED legacy
  PROVE  IInv'
  <1> USE HostMapAssumption, LegacyAssumption
      DEF ModifyReuse, locals, fields, Begin, Goto, Done, Crash, legacy
  <1>1. \A l \in Keys : Holders(l)' \subseteq Holders(l)
    BY DEF Holders, IInv, Types, LegacyTypeOK, SafeInv, TakePc, Bound
  <1>2. CountInv'
    BY <1>1, QuietCounts
  <1>3. Types'
    BY DEF IInv, Types, LegacyTypeOK, SafeInv, ModifyPc
  <1>4. MapInv'
    BY DEF IInv, Types, LegacyTypeOK, SafeInv, MapInv, Bound
  <1>5. ThreadInv'
    BY DEF IInv, Types, LegacyTypeOK, SafeInv, Freeing, Leaving, Working, Taking, CreatePc,
           BoundPc, LeavePc, TakePc, Bound, ThreadInv
  <1>6. LockReleased' /\ Exclusive' /\ FreedOnce'
    BY DEF IInv, Types, LegacyTypeOK, SafeInv, LockReleased, FreedOnce, Exclusive, UsePc,
           PostPc
  <1>7. LockInv'
    BY DEF IInv, Types, LegacyTypeOK, SafeInv, LegacyInv, LockInv
  <1>8. ConnInv'
    BY DEF IInv, Types, LegacyTypeOK, SafeInv, LegacyInv, ConnInv
  <1> QED
    BY <1>2, <1>3, <1>4, <1>5, <1>6, <1>7, <1>8 DEF IInv, SafeInv, LegacyInv

\* The QP that was held for the thread is now bound.
LEMMA ModifySrcInv ==
  ASSUME IInv, NEW t \in Threads, ModifySrc(t), UNCHANGED legacy
  PROVE  IInv'
  <1> USE HostMapAssumption, LegacyAssumption
      DEF ModifySrc, locals, fields, Begin, Goto, Done, legacy
  <1>1. \A l \in Keys : Holders(l)' \subseteq Holders(l)
    BY DEF Holders, IInv, Types, LegacyTypeOK, SafeInv, TakePc, Bound
  <1>2. CountInv'
    BY <1>1, QuietCounts
  <1>3. Types'
    BY DEF IInv, Types, LegacyTypeOK, SafeInv, ModifyPc
  <1>4. MapInv'
    BY DEF IInv, Types, LegacyTypeOK, SafeInv, MapInv, Taking, TakePc, Bound, ThreadInv
  <1>5. ThreadInv'
    BY DEF IInv, Types, LegacyTypeOK, SafeInv, Exclusive, Freeing, Leaving, Working,
           Taking, CreatePc, SetupPc, UsePc, FreePc, PostPc, LeavePc, TakePc, Bound,
           ThreadInv
  <1>6. LockReleased' /\ Exclusive' /\ FreedOnce'
    BY DEF IInv, Types, LegacyTypeOK, SafeInv, LockReleased, FreedOnce, Exclusive, UsePc,
           PostPc
  <1>7. LockInv'
    BY DEF IInv, Types, LegacyTypeOK, SafeInv, LegacyInv, LockInv
  <1>8. ConnInv'
    BY DEF IInv, Types, LegacyTypeOK, SafeInv, LegacyInv, ConnInv
  <1> QED
    BY <1>2, <1>3, <1>4, <1>5, <1>6, <1>7, <1>8 DEF IInv, SafeInv, LegacyInv

\* The request goes on, or ends with its QP bound.
LEMMA ModifyTellInv ==
  ASSUME IInv, NEW t \in Threads, ModifyTell(t), UNCHANGED legacy
  PROVE  IInv'
  <1> USE HostMapAssumption, LegacyAssumption
      DEF ModifyTell, locals, fields, Begin, Goto, Done, legacy
  <1>1. \A l \in Keys : Holders(l)' \subseteq Holders(l)
    BY DEF Holders, IInv, Types, LegacyTypeOK, SafeInv, LeavePc, TakePc, Bound
  <1>2. CountInv'
    BY <1>1, QuietCounts
  <1>3. Types'
    BY DEF IInv, Types, LegacyTypeOK, SafeInv, ModifyPc
  <1>4. MapInv'
    BY DEF IInv, Types, LegacyTypeOK, SafeInv, MapInv, Bound
  <1>5. ThreadInv'
    BY DEF IInv, Types, LegacyTypeOK, SafeInv, Freeing, Leaving, Working, Taking, SetupPc,
           FreePc, PostPc, BoundPc, LeavePc, TakePc, Bound, ThreadInv
  <1>6. LockReleased' /\ Exclusive' /\ FreedOnce'
    BY DEF IInv, Types, LegacyTypeOK, SafeInv, LockReleased, FreedOnce, Exclusive, UsePc,
           PostPc
  <1>7. LockInv'
    BY DEF IInv, Types, LegacyTypeOK, SafeInv, LegacyInv, LockInv
  <1>8. ConnInv'
    BY DEF IInv, Types, LegacyTypeOK, SafeInv, LegacyInv, ConnInv
  <1> QED
    BY <1>2, <1>3, <1>4, <1>5, <1>6, <1>7, <1>8 DEF IInv, SafeInv, LegacyInv

\* The peer's entry is there.
LEMMA ModifyWaitInv ==
  ASSUME IInv, NEW t \in Threads, ModifyWait(t), UNCHANGED legacy
  PROVE  IInv'
  <1> USE HostMapAssumption, LegacyAssumption
      DEF ModifyWait, locals, fields, Begin, Goto, Done, legacy
  <1>1. \A l \in Keys : Holders(l)' \subseteq Holders(l)
    BY DEF Holders, IInv, Types, LegacyTypeOK, SafeInv, LeavePc, TakePc, Bound
  <1>2. CountInv'
    BY <1>1, QuietCounts
  <1>3. Types'
    BY DEF IInv, Types, LegacyTypeOK, SafeInv, ModifyPc
  <1>4. MapInv'
    BY DEF IInv, Types, LegacyTypeOK, SafeInv, MapInv, Bound
  <1>5. ThreadInv'
    BY DEF IInv, Types, LegacyTypeOK, SafeInv, Freeing, Leaving, Working, Taking, SetupPc,
           FreePc, PostPc, BoundPc, LeavePc, TakePc, Bound, ThreadInv
  <1>6. LockReleased' /\ Exclusive' /\ FreedOnce'
    BY DEF IInv, Types, LegacyTypeOK, SafeInv, LockReleased, FreedOnce, Exclusive, UsePc,
           PostPc
  <1>7. LockInv'
    BY DEF IInv, Types, LegacyTypeOK, SafeInv, LegacyInv, LockInv
  <1>8. ConnInv'
    BY DEF IInv, Types, LegacyTypeOK, SafeInv, LegacyInv, ConnInv
  <1> QED
    BY <1>2, <1>3, <1>4, <1>5, <1>6, <1>7, <1>8 DEF IInv, SafeInv, LegacyInv

\* The second lookup finds the entry again, as the QP is bound to it.
LEMMA ModifyFindInv ==
  ASSUME IInv, NEW t \in Threads, ModifyFind(t), UNCHANGED legacy
  PROVE  IInv'
  <1> USE HostMapAssumption, LegacyAssumption
      DEF ModifyFind, locals, fields, Begin, Goto, Done, legacy
  <1>1. \A l \in Keys : Holders(l)' \subseteq Holders(l)
    BY DEF Holders, IInv, Types, LegacyTypeOK, SafeInv, LeavePc, TakePc, Bound
  <1>2. CountInv'
    BY <1>1, QuietCounts
  <1>3. Types'
    BY DEF IInv, Types, LegacyTypeOK, SafeInv, Working, ModifyPc, BoundPc, ThreadInv
  <1>4. MapInv'
    BY DEF IInv, Types, LegacyTypeOK, SafeInv, MapInv, Bound
  <1>5. ThreadInv'
    BY DEF IInv, Types, LegacyTypeOK, SafeInv, Freeing, Leaving, Working, Taking, SetupPc,
           FreePc, PostPc, BoundPc, LeavePc, TakePc, Bound, ThreadInv
  <1>6. LockReleased' /\ Exclusive' /\ FreedOnce'
    BY Held
       DEF IInv, Types, LegacyTypeOK, SafeInv, LockReleased, FreedOnce, Exclusive, UsePc,
           PostPc, BoundPc
  <1>7. LockInv'
    BY DEF IInv, Types, LegacyTypeOK, SafeInv, LegacyInv, LockInv
  <1>8. ConnInv'
    BY DEF IInv, Types, LegacyTypeOK, SafeInv, LegacyInv, ConnInv
  <1> QED
    BY <1>2, <1>3, <1>4, <1>5, <1>6, <1>7, <1>8 DEF IInv, SafeInv, LegacyInv

\* The status changes; map, count and holders stay.
LEMMA ModifyReadyInv ==
  ASSUME IInv, NEW t \in Threads, ModifyReady(t), UNCHANGED legacy
  PROVE  IInv'
  <1> USE HostMapAssumption, LegacyAssumption
      DEF ModifyReady, locals, fields, Begin, Goto, Done, legacy
  <1>1. \A l \in Keys : Holders(l)' \subseteq Holders(l)
    BY DEF Holders, IInv, Types, LegacyTypeOK, SafeInv, Bound
  <1>2. CountInv'
    BY <1>1, QuietCounts
  <1>3. Types'
    BY DEF IInv, Types, LegacyTypeOK, SafeInv
  <1>4. MapInv'
    BY DEF IInv, Types, LegacyTypeOK, SafeInv, MapInv, Bound
  <1>5. ThreadInv'
    BY DEF IInv, Types, LegacyTypeOK, SafeInv, Freeing, Leaving, Working, Taking, FreePc,
           BoundPc, LeavePc, TakePc, Bound, ThreadInv
  <1>6. LockReleased' /\ Exclusive' /\ FreedOnce'
    BY DEF IInv, Types, LegacyTypeOK, SafeInv, LockReleased, FreedOnce, Exclusive
  <1>7. LockInv'
    BY DEF IInv, Types, LegacyTypeOK, SafeInv, LegacyInv, LockInv
  <1>8. ConnInv'
    BY DEF IInv, Types, LegacyTypeOK, SafeInv, LegacyInv, ConnInv
  <1> QED
    BY <1>2, <1>3, <1>4, <1>5, <1>6, <1>7, <1>8 DEF IInv, SafeInv, LegacyInv

\* The request ends; its QP stays bound.
LEMMA ModifyNotReadyInv ==
  ASSUME IInv, NEW t \in Threads, ModifyNotReady(t), UNCHANGED legacy
  PROVE  IInv'
  <1> USE HostMapAssumption, LegacyAssumption
      DEF ModifyNotReady, locals, fields, Begin, Goto, Done, legacy
  <1>1. \A l \in Keys : Holders(l)' \subseteq Holders(l)
    BY DEF Holders, IInv, Types, LegacyTypeOK, SafeInv, Bound
  <1>2. CountInv'
    BY <1>1, QuietCounts
  <1>3. Types'
    BY DEF IInv, Types, LegacyTypeOK, SafeInv
  <1>4. MapInv'
    BY DEF IInv, Types, LegacyTypeOK, SafeInv, MapInv, Bound
  <1>5. ThreadInv'
    BY DEF IInv, Types, LegacyTypeOK, SafeInv, Freeing, Leaving, Working, Taking, FreePc,
           BoundPc, LeavePc, TakePc, Bound, ThreadInv
  <1>6. LockReleased' /\ Exclusive' /\ FreedOnce'
    BY DEF IInv, Types, LegacyTypeOK, SafeInv, LockReleased, FreedOnce, Exclusive
  <1>7. LockInv'
    BY DEF IInv, Types, LegacyTypeOK, SafeInv, LegacyInv, LockInv
  <1>8. ConnInv'
    BY DEF IInv, Types, LegacyTypeOK, SafeInv, LegacyInv, ConnInv
  <1> QED
    BY <1>2, <1>3, <1>4, <1>5, <1>6, <1>7, <1>8 DEF IInv, SafeInv, LegacyInv

\* The QP is unbound and holds its connection until the reference is dropped.
LEMMA DestroyUnbindInv ==
  ASSUME IInv, NEW t \in Threads, NEW h \in Handles,
         DestroyUnbind(t, h), UNCHANGED legacy
  PROVE  IInv'
  <1> USE HostMapAssumption, LegacyAssumption
      DEF DestroyUnbind, locals, fields, Begin, Goto, Done, NoCallOn, legacy
  <1>1. \A l \in Keys : Holders(l)' \subseteq Holders(l)
    BY DEF Holders, IInv, Types, LegacyTypeOK, SafeInv, Bound
  <1>2. CountInv'
    BY <1>1, QuietCounts
  <1>3. Types'
    BY DEF IInv, Types, LegacyTypeOK, SafeInv, DestroyPc
  <1>4. MapInv'
    BY DEF IInv, Types, LegacyTypeOK, SafeInv, MapInv, Bound
  <1>5. ThreadInv'
    BY DEF IInv, Types, LegacyTypeOK, SafeInv, MapInv, Freeing, Leaving, Working, Taking,
           Clients, FreePc, BoundPc, TakePc, Bound, ThreadInv
  <1>6. LockReleased' /\ Exclusive' /\ FreedOnce'
    BY DEF IInv, Types, LegacyTypeOK, SafeInv, LockReleased, FreedOnce, Exclusive
  <1>7. LockInv'
    BY DEF IInv, Types, LegacyTypeOK, SafeInv, LegacyInv, LockInv
  <1>8. ConnInv'
    BY DEF IInv, Types, LegacyTypeOK, SafeInv, LegacyInv, ConnInv
  <1> QED
    BY <1>2, <1>3, <1>4, <1>5, <1>6, <1>7, <1>8 DEF IInv, SafeInv, LegacyInv

\* The QP goes of a connection that no host has any more.
LEMMA DestroyQpInv ==
  ASSUME IInv, NEW t \in Threads, DestroyQp(t), UNCHANGED legacy
  PROVE  IInv'
  <1> USE HostMapAssumption, LegacyAssumption
      DEF DestroyQp, locals, fields, Begin, Goto, Done, legacy
  <1>1. \A l \in Keys : Holders(l)' \subseteq Holders(l)
    BY DEF Holders, IInv, Types, LegacyTypeOK, SafeInv, LeavePc, TakePc, Bound
  <1>2. CountInv'
    BY <1>1, QuietCounts
  <1>3. Types'
    BY DEF IInv, Types, LegacyTypeOK, SafeInv, DestroyPc
  <1>4. MapInv'
    BY DEF IInv, Types, LegacyTypeOK, SafeInv, FreedOnce, MapInv, Clients, Bound
  <1>5. ThreadInv'
    BY DEF IInv, Types, LegacyTypeOK, SafeInv, FreedOnce, Freeing, Leaving, Working,
           Taking, FreePc, BoundPc, LeavePc, TakePc, Bound, ThreadInv
  <1>6. LockReleased' /\ Exclusive' /\ FreedOnce'
    BY DEF IInv, Types, LegacyTypeOK, SafeInv, LockReleased, FreedOnce, Exclusive, UsePc,
           PostPc
  <1>7. LockInv'
    BY DEF IInv, Types, LegacyTypeOK, SafeInv, LegacyInv, LockInv, Freeing, FreePc,
           ThreadInv
  <1>8. ConnInv'
    BY DEF IInv, Types, LegacyTypeOK, SafeInv, LegacyInv, ConnInv
  <1> QED
    BY <1>2, <1>3, <1>4, <1>5, <1>6, <1>7, <1>8 DEF IInv, SafeInv, LegacyInv

\* The memory goes of a connection that no host has, no other thread frees, and
\* no dead thread has locked.
LEMMA DestroyFreeInv ==
  ASSUME IInv, NEW t \in Threads, DestroyFree(t), UNCHANGED legacy
  PROVE  IInv'
  <1> USE HostMapAssumption, LegacyAssumption
      DEF DestroyFree, locals, fields, Begin, Goto, Done, Unlocked, legacy
  <1>1. \A l \in Keys : Holders(l)' \subseteq Holders(l)
    BY DEF Holders, IInv, Types, LegacyTypeOK, SafeInv, Bound
  <1>2. CountInv'
    BY <1>1, QuietCounts
  <1>3. Types'
    <2>1. cur[t] \in live /\ cur[t] \notin wedged
      BY DEF IInv, SafeInv, ThreadInv, Freeing, FreePc, LegacyInv, LockInv
    <2>2. wedged' \subseteq live' /\ live' \subseteq Conns
      BY <2>1 DEF IInv, Types, LegacyTypeOK
    <2> QED
      BY <2>1, <2>2 DEF IInv, Types, LegacyTypeOK
  <1>4. MapInv'
    BY DEF IInv, Types, LegacyTypeOK, SafeInv, FreedOnce, MapInv, Bound
  <1>5. ThreadInv'
    BY DEF IInv, Types, LegacyTypeOK, SafeInv, FreedOnce, Freeing, Leaving, Working,
           Taking, FreePc, BoundPc, LeavePc, TakePc, Bound, ThreadInv
  <1>6. LockReleased' /\ Exclusive' /\ FreedOnce'
    BY DEF IInv, Types, LegacyTypeOK, SafeInv, LockReleased, FreedOnce, Exclusive
  <1>7. LockInv'
    BY DEF IInv, Types, LegacyTypeOK, SafeInv, LegacyInv, LockInv
  <1>8. ConnInv'
    BY DEF IInv, Types, LegacyTypeOK, SafeInv, LegacyInv, ConnInv
  <1> QED
    BY <1>2, <1>3, <1>4, <1>5, <1>6, <1>7, <1>8 DEF IInv, SafeInv, LegacyInv

\* A post or poll begins on a bound QP.
LEMMA UseLookupInv ==
  ASSUME IInv, NEW t \in Threads, NEW h \in Handles,
         UseLookup(t, h), UNCHANGED legacy
  PROVE  IInv'
  <1> USE HostMapAssumption, LegacyAssumption
      DEF UseLookup, locals, fields, Begin, Goto, Done, NoSetupOn, legacy
  <1>1. \A l \in Keys : Holders(l)' \subseteq Holders(l)
    BY DEF Holders, IInv, Types, LegacyTypeOK, SafeInv, Bound
  <1>2. CountInv'
    BY <1>1, QuietCounts
  <1>3. Types'
    BY DEF IInv, Types, LegacyTypeOK, SafeInv, UsePc
  <1>4. MapInv'
    BY DEF IInv, Types, LegacyTypeOK, SafeInv, MapInv, Bound
  <1>5. ThreadInv'
    BY DEF IInv, Types, LegacyTypeOK, SafeInv, Freeing, Leaving, Working, Taking, SetupPc,
           FreePc, PostPc, LeavePc, TakePc, Bound, ThreadInv
  <1>6. LockReleased' /\ Exclusive' /\ FreedOnce'
    BY DEF IInv, Types, LegacyTypeOK, SafeInv, LockReleased, FreedOnce, Exclusive, UsePc
  <1>7. LockInv'
    BY DEF IInv, Types, LegacyTypeOK, SafeInv, LegacyInv, LockInv
  <1>8. ConnInv'
    BY DEF IInv, Types, LegacyTypeOK, SafeInv, LegacyInv, ConnInv
  <1> QED
    BY <1>2, <1>3, <1>4, <1>5, <1>6, <1>7, <1>8 DEF IInv, SafeInv, LegacyInv

\* It finds the connection of its host.
LEMMA UseFindInv ==
  ASSUME IInv, NEW t \in Threads, UseFind(t), UNCHANGED legacy
  PROVE  IInv'
  <1> USE HostMapAssumption, LegacyAssumption
      DEF UseFind, locals, fields, Begin, Goto, Done, legacy
  <1>1. \A l \in Keys : Holders(l)' \subseteq Holders(l)
    BY DEF Holders, IInv, Types, LegacyTypeOK, SafeInv, LeavePc, TakePc, Bound
  <1>2. CountInv'
    BY <1>1, QuietCounts
  <1>3. Types'
    BY DEF IInv, Types, LegacyTypeOK, SafeInv, Working, UsePc, BoundPc, ThreadInv
  <1>4. MapInv'
    BY DEF IInv, Types, LegacyTypeOK, SafeInv, MapInv, Bound
  <1>5. ThreadInv'
    BY DEF IInv, Types, LegacyTypeOK, SafeInv, Freeing, Leaving, Working, Taking, SetupPc,
           FreePc, PostPc, BoundPc, LeavePc, TakePc, Bound, ThreadInv
  <1>6. LockReleased' /\ Exclusive' /\ FreedOnce'
    BY DEF IInv, Types, LegacyTypeOK, SafeInv, LockReleased, FreedOnce, Exclusive, UsePc
  <1>7. LockInv'
    BY DEF IInv, Types, LegacyTypeOK, SafeInv, LegacyInv, LockInv
  <1>8. ConnInv'
    BY DEF IInv, Types, LegacyTypeOK, SafeInv, LegacyInv, ConnInv
  <1> QED
    BY <1>2, <1>3, <1>4, <1>5, <1>6, <1>7, <1>8 DEF IInv, SafeInv, LegacyInv

\* It is done.
LEMMA UseConnInv ==
  ASSUME IInv, NEW t \in Threads, UseConn(t), UNCHANGED legacy
  PROVE  IInv'
  <1> USE HostMapAssumption, LegacyAssumption
      DEF UseConn, locals, fields, Begin, Goto, Done, legacy
  <1>1. \A l \in Keys : Holders(l)' \subseteq Holders(l)
    BY DEF Holders, IInv, Types, LegacyTypeOK, SafeInv, Bound
  <1>2. CountInv'
    BY <1>1, QuietCounts
  <1>3. Types'
    BY DEF IInv, Types, LegacyTypeOK, SafeInv
  <1>4. MapInv'
    BY DEF IInv, Types, LegacyTypeOK, SafeInv, MapInv, Bound
  <1>5. ThreadInv'
    BY DEF IInv, Types, LegacyTypeOK, SafeInv, Freeing, Leaving, Working, Taking, FreePc,
           BoundPc, LeavePc, TakePc, Bound, ThreadInv
  <1>6. LockReleased' /\ Exclusive' /\ FreedOnce'
    BY DEF IInv, Types, LegacyTypeOK, SafeInv, LockReleased, FreedOnce, Exclusive
  <1>7. LockInv'
    BY DEF IInv, Types, LegacyTypeOK, SafeInv, LegacyInv, LockInv
  <1>8. ConnInv'
    BY DEF IInv, Types, LegacyTypeOK, SafeInv, LegacyInv, ConnInv
  <1> QED
    BY <1>2, <1>3, <1>4, <1>5, <1>6, <1>7, <1>8 DEF IInv, SafeInv, LegacyInv

\* A peer's entry comes or goes; nothing here depends on it.
LEMMA RemoteInv ==
  ASSUME IInv, NEW k \in Keys, Remote(k), UNCHANGED legacy
  PROVE  IInv'
  <1> USE HostMapAssumption, LegacyAssumption
      DEF Remote, locals, fields, Begin, Goto, Done, RemoteInsert, RemoteDelete, legacy
  <1>1. \A l \in Keys : Holders(l)' \subseteq Holders(l)
    BY DEF Holders, IInv, Types, LegacyTypeOK, SafeInv, Bound
  <1>2. CountInv'
    BY <1>1, QuietCounts
  <1>3. Types'
    BY DEF IInv, Types, LegacyTypeOK, SafeInv
  <1>4. MapInv'
    BY DEF IInv, Types, LegacyTypeOK, SafeInv, MapInv, Bound
  <1>5. ThreadInv'
    BY DEF IInv, Types, LegacyTypeOK, SafeInv, Freeing, Leaving, Working, Taking, Bound,
           ThreadInv
  <1>6. LockReleased' /\ Exclusive' /\ FreedOnce'
    BY DEF IInv, Types, LegacyTypeOK, SafeInv, LockReleased, FreedOnce, Exclusive
  <1>7. LockInv'
    BY DEF IInv, Types, LegacyTypeOK, SafeInv, LegacyInv, LockInv
  <1>8. ConnInv'
    BY DEF IInv, Types, LegacyTypeOK, SafeInv, LegacyInv, ConnInv
  <1> QED
    BY <1>2, <1>3, <1>4, <1>5, <1>6, <1>7, <1>8 DEF IInv, SafeInv, LegacyInv

\* A legacy connection is made and its client bound to it.
LEMMA CreateDoneInv ==
  ASSUME IInv, NEW t \in Threads, CreateDone(t)
  PROVE  IInv'
  <1> USE HostMapAssumption, LegacyAssumption
      DEF CreateDone, locals, fields, Begin, Goto, Done, Answered, Unlocked
  <1>1. \A l \in Keys : Holders(l)' \subseteq Holders(l)
    BY DEF Holders, IInv, Types, LegacyTypeOK, SafeInv, TakePc, Bound
  <1>2. CountInv'
    BY <1>1, QuietCounts
  <1>3. Types'
    BY DEF IInv, Types, LegacyTypeOK, SafeInv
  <1>4. MapInv'
    BY DEF IInv, Types, LegacyTypeOK, SafeInv, MapInv, Taking, TakePc, Bound, ThreadInv
  <1>5. ThreadInv'
    BY DEF IInv, Types, LegacyTypeOK, SafeInv, Exclusive, Freeing, Leaving, Working,
           Taking, UsePc, FreePc, PostPc, BoundPc, LeavePc, TakePc, Bound, ThreadInv
  <1>6. LockReleased' /\ Exclusive' /\ FreedOnce'
    BY DEF IInv, Types, LegacyTypeOK, SafeInv, LockReleased, FreedOnce, Exclusive
  <1>7. LockInv'
    BY DEF IInv, Types, LegacyTypeOK, SafeInv, LegacyInv, LockInv
  <1>8. ConnInv'
    BY DEF IInv, Types, LegacyTypeOK, SafeInv, LegacyInv, ConnInv, Taking, TakePc,
           ThreadInv
  <1> QED
    BY <1>2, <1>3, <1>4, <1>5, <1>6, <1>7, <1>8 DEF IInv, SafeInv, LegacyInv

\* The daemon dies; nothing else changes.
LEMMA CreateFailsInv ==
  ASSUME IInv, NEW t \in Threads, CreateFails(t)
  PROVE  IInv'
  <1> USE HostMapAssumption, LegacyAssumption
      DEF CreateFails, locals, fields, Begin, Goto, Done, Crash, legacy
  <1>1. \A l \in Keys : Holders(l)' \subseteq Holders(l)
    BY DEF Holders, IInv, Types, LegacyTypeOK, SafeInv, Bound
  <1>2. CountInv'
    BY <1>1, QuietCounts
  <1>3. Types'
    BY DEF IInv, Types, LegacyTypeOK, SafeInv
  <1>4. MapInv'
    BY DEF IInv, Types, LegacyTypeOK, SafeInv, MapInv, Bound
  <1>5. ThreadInv'
    BY DEF IInv, Types, LegacyTypeOK, SafeInv, Freeing, Leaving, Working, Taking, Bound,
           ThreadInv
  <1>6. LockReleased' /\ Exclusive' /\ FreedOnce'
    BY DEF IInv, Types, LegacyTypeOK, SafeInv, LockReleased, FreedOnce, Exclusive
  <1>7. LockInv'
    BY DEF IInv, Types, LegacyTypeOK, SafeInv, LegacyInv, LockInv
  <1>8. ConnInv'
    BY DEF IInv, Types, LegacyTypeOK, SafeInv, LegacyInv, ConnInv
  <1> QED
    BY <1>2, <1>3, <1>4, <1>5, <1>6, <1>7, <1>8 DEF IInv, SafeInv, LegacyInv

\* The client is bound to a connection that is there, or the daemon dies.
LEMMA CreateReuseInv ==
  ASSUME IInv, NEW t \in Threads, CreateReuse(t)
  PROVE  IInv'
  <1> USE HostMapAssumption, LegacyAssumption
      DEF CreateReuse, locals, fields, Begin, Goto, Done, Answered, Crash
  <1>1. \A l \in Keys : Holders(l)' \subseteq Holders(l)
    BY DEF Holders, IInv, Types, LegacyTypeOK, SafeInv, Clients, TakePc, Bound
  <1>2. CountInv'
    BY <1>1, QuietCounts
  <1>3. Types'
    BY DEF IInv, Types, LegacyTypeOK, SafeInv
  <1>4. MapInv'
    BY DEF IInv, Types, LegacyTypeOK, SafeInv, MapInv, Taking, Clients, TakePc, Bound,
           ThreadInv
  <1>5. ThreadInv'
    BY DEF IInv, Types, LegacyTypeOK, SafeInv, Exclusive, Freeing, Leaving, Working,
           Taking, Clients, UsePc, FreePc, PostPc, BoundPc, LeavePc, TakePc, Bound,
           ThreadInv
  <1>6. LockReleased' /\ Exclusive' /\ FreedOnce'
    <2>1. LockReleased'
      BY DEF IInv, Types, LegacyTypeOK, SafeInv, LockReleased
    <2>2. Exclusive'
      BY DEF IInv, Types, LegacyTypeOK, SafeInv, Exclusive
    <2>3. FreedOnce'
      BY DEF IInv, Types, LegacyTypeOK, SafeInv, FreedOnce
    <2> QED
      BY <2>1, <2>2, <2>3
  <1>7. LockInv'
    BY DEF IInv, Types, LegacyTypeOK, SafeInv, LegacyInv, LockInv
  <1>8. ConnInv'
    BY DEF IInv, Types, LegacyTypeOK, SafeInv, LegacyInv, ConnInv, Taking, TakePc,
           ThreadInv
  <1> QED
    BY <1>2, <1>3, <1>4, <1>5, <1>6, <1>7, <1>8 DEF IInv, SafeInv, LegacyInv

\* A setup finds the connection of the host its client is bound to.
LEMMA SetupFindInv ==
  ASSUME IInv, NEW t \in Threads, NEW v \in VConns, NEW k \in LegacyKeys,
         SetupFind(t, v, k)
  PROVE  IInv'
  <1>0. vhost[v] = k /\ k \in Keys /\ k # None
    BY NamesOwn DEF SetupFind
  <1> USE <1>0, HostMapAssumption, LegacyAssumption
      DEF SetupFind, locals, fields, Begin, Goto, Done, NoCallOn, legacy
  <1>1. \A l \in Keys : Holders(l)' \subseteq Holders(l)
    BY DEF Holders, IInv, Types, LegacyTypeOK, SafeInv, Bound
  <1>2. CountInv'
    BY <1>1, QuietCounts
  <1>3. Types'
    BY DEF IInv, Types, LegacyTypeOK, SafeInv, SetupPc
  <1>4. MapInv'
    BY DEF IInv, Types, LegacyTypeOK, SafeInv, MapInv, Bound
  <1>5. ThreadInv'
    BY DEF IInv, Types, LegacyTypeOK, SafeInv, Freeing, Leaving, Working, Taking, SetupPc,
           FreePc, LeavePc, TakePc, Bound, ThreadInv
  <1>6. LockReleased' /\ Exclusive' /\ FreedOnce'
    BY Held
       DEF IInv, Types, LegacyTypeOK, SafeInv, LockReleased, FreedOnce, Exclusive, Clients,
           Bound
  <1>7. LockInv'
    BY DEF IInv, Types, LegacyTypeOK, SafeInv, LegacyInv, LockInv
  <1>8. ConnInv'
    BY DEF IInv, Types, LegacyTypeOK, SafeInv, LegacyInv, ConnInv
  <1> QED
    BY <1>2, <1>3, <1>4, <1>5, <1>6, <1>7, <1>8 DEF IInv, SafeInv, LegacyInv

\* The status changes, or the failure is only told.
LEMMA SetupConnInv ==
  ASSUME IInv, NEW t \in Threads, SetupConn(t)
  PROVE  IInv'
  <1> USE HostMapAssumption, LegacyAssumption
      DEF SetupConn, locals, fields, Begin, Goto, Done, legacy
  <1>1. \A l \in Keys : Holders(l)' \subseteq Holders(l)
    BY DEF Holders, IInv, Types, LegacyTypeOK, SafeInv, LeavePc, TakePc, Bound
  <1>2. CountInv'
    BY <1>1, QuietCounts
  <1>3. Types'
    BY DEF IInv, Types, LegacyTypeOK, SafeInv, SetupPc
  <1>4. MapInv'
    BY DEF IInv, Types, LegacyTypeOK, SafeInv, MapInv, Bound
  <1>5. ThreadInv'
    BY DEF IInv, Types, LegacyTypeOK, SafeInv, Freeing, Leaving, Working, Taking, SetupPc,
           FreePc, BoundPc, LeavePc, TakePc, Bound, ThreadInv
  <1>6. LockReleased' /\ Exclusive' /\ FreedOnce'
    BY DEF IInv, Types, LegacyTypeOK, SafeInv, LockReleased, FreedOnce, Exclusive, UsePc,
           PostPc
  <1>7. LockInv'
    BY DEF IInv, Types, LegacyTypeOK, SafeInv, LegacyInv, LockInv
  <1>8. ConnInv'
    BY DEF IInv, Types, LegacyTypeOK, SafeInv, LegacyInv, ConnInv
  <1> QED
    BY <1>2, <1>3, <1>4, <1>5, <1>6, <1>7, <1>8 DEF IInv, SafeInv, LegacyInv

\* What enters conn_map is the connection of the client's host.
LEMMA SetupMapInv ==
  ASSUME IInv, NEW t \in Threads, SetupMap(t)
  PROVE  IInv'
  <1> USE HostMapAssumption, LegacyAssumption
      DEF SetupMap, locals, fields, Begin, Goto, Done
  <1>1. \A l \in Keys : Holders(l)' \subseteq Holders(l)
    BY DEF Holders, IInv, Types, LegacyTypeOK, SafeInv, Bound
  <1>2. CountInv'
    BY <1>1, QuietCounts
  <1>3. Types'
    BY DEF IInv, Types, LegacyTypeOK, SafeInv
  <1>4. MapInv'
    BY DEF IInv, Types, LegacyTypeOK, SafeInv, MapInv, Bound
  <1>5. ThreadInv'
    BY DEF IInv, Types, LegacyTypeOK, SafeInv, Freeing, Leaving, Working, Taking, FreePc,
           BoundPc, LeavePc, TakePc, Bound, ThreadInv
  <1>6. LockReleased' /\ Exclusive' /\ FreedOnce'
    BY DEF IInv, Types, LegacyTypeOK, SafeInv, LockReleased, FreedOnce, Exclusive
  <1>7. LockInv'
    BY DEF IInv, Types, LegacyTypeOK, SafeInv, LegacyInv, LockInv
  <1>8. ConnInv'
    BY DEF IInv, Types, LegacyTypeOK, SafeInv, LegacyInv, ConnInv, Working, BoundPc, Bound,
           ThreadInv
  <1> QED
    BY <1>2, <1>3, <1>4, <1>5, <1>6, <1>7, <1>8 DEF IInv, SafeInv, LegacyInv

\* A post or poll begins on a client that is bound.
LEMMA PostRequestInv ==
  ASSUME IInv, NEW t \in Threads, NEW v \in VConns, NEW k \in LegacyKeys,
         PostRequest(t, v, k)
  PROVE  IInv'
  <1>0. vhost[v] = k /\ k \in Keys /\ k # None
    BY NamesOwn DEF PostRequest
  <1> USE <1>0, HostMapAssumption, LegacyAssumption
      DEF PostRequest, locals, fields, Begin, Goto, Done, legacy
  <1>1. \A l \in Keys : Holders(l)' \subseteq Holders(l)
    BY DEF Holders, IInv, Types, LegacyTypeOK, SafeInv, Bound
  <1>2. CountInv'
    BY <1>1, QuietCounts
  <1>3. Types'
    BY DEF IInv, Types, LegacyTypeOK, SafeInv, PostPc
  <1>4. MapInv'
    BY DEF IInv, Types, LegacyTypeOK, SafeInv, MapInv, Bound
  <1>5. ThreadInv'
    BY DEF IInv, Types, LegacyTypeOK, SafeInv, Freeing, Leaving, Working, Taking, FreePc,
           PostPc, LeavePc, TakePc, Bound, ThreadInv
  <1>6. LockReleased' /\ Exclusive' /\ FreedOnce'
    BY DEF IInv, Types, LegacyTypeOK, SafeInv, LockReleased, FreedOnce, Exclusive, PostPc
  <1>7. LockInv'
    BY DEF IInv, Types, LegacyTypeOK, SafeInv, LegacyInv, LockInv
  <1>8. ConnInv'
    BY DEF IInv, Types, LegacyTypeOK, SafeInv, LegacyInv, ConnInv
  <1> QED
    BY <1>2, <1>3, <1>4, <1>5, <1>6, <1>7, <1>8 DEF IInv, SafeInv, LegacyInv

\* What conn_map has is the connection of the client's host (ConnInv): no request
\* that erases the client's entry is under way with a post.
LEMMA PostFindInv ==
  ASSUME IInv, NEW t \in Threads, PostFind(t)
  PROVE  IInv'
  <1> USE HostMapAssumption, LegacyAssumption
      DEF PostFind, locals, fields, Begin, Goto, Done
  <1>1. \A l \in Keys : Holders(l)' \subseteq Holders(l)
    BY DEF Holders, IInv, Types, LegacyTypeOK, SafeInv, LeavePc, TakePc, Bound
  <1>2. CountInv'
    BY <1>1, QuietCounts
  <1>3. Types'
    BY DEF IInv, Types, LegacyTypeOK, SafeInv, Working, PostPc, BoundPc, ThreadInv
  <1>4. MapInv'
    BY DEF IInv, Types, LegacyTypeOK, SafeInv, MapInv, Bound
  <1>5. ThreadInv'
    BY DEF IInv, Types, LegacyTypeOK, SafeInv, LegacyInv, ConnInv, Freeing, Leaving,
           Working, Taking, FreePc, PostPc, BoundPc, LeavePc, TakePc, Bound, ThreadInv
  <1>6. LockReleased' /\ Exclusive' /\ FreedOnce'
    BY Held
       DEF IInv, Types, LegacyTypeOK, SafeInv, LockReleased, FreedOnce, Exclusive, PostPc
  <1>7. LockInv'
    BY DEF IInv, Types, LegacyTypeOK, SafeInv, LegacyInv, LockInv
  <1>8. ConnInv'
    BY DEF IInv, Types, LegacyTypeOK, SafeInv, LegacyInv, ConnInv
  <1> QED
    BY <1>2, <1>3, <1>4, <1>5, <1>6, <1>7, <1>8 DEF IInv, SafeInv, LegacyInv

\* It is done.
LEMMA PostConnInv ==
  ASSUME IInv, NEW t \in Threads, PostConn(t)
  PROVE  IInv'
  <1> USE HostMapAssumption, LegacyAssumption
      DEF PostConn, locals, fields, Begin, Goto, Done, legacy
  <1>1. \A l \in Keys : Holders(l)' \subseteq Holders(l)
    BY DEF Holders, IInv, Types, LegacyTypeOK, SafeInv, Bound
  <1>2. CountInv'
    BY <1>1, QuietCounts
  <1>3. Types'
    BY DEF IInv, Types, LegacyTypeOK, SafeInv
  <1>4. MapInv'
    BY DEF IInv, Types, LegacyTypeOK, SafeInv, MapInv, Bound
  <1>5. ThreadInv'
    BY DEF IInv, Types, LegacyTypeOK, SafeInv, Freeing, Leaving, Working, Taking, FreePc,
           BoundPc, LeavePc, TakePc, Bound, ThreadInv
  <1>6. LockReleased' /\ Exclusive' /\ FreedOnce'
    BY DEF IInv, Types, LegacyTypeOK, SafeInv, LockReleased, FreedOnce, Exclusive
  <1>7. LockInv'
    BY DEF IInv, Types, LegacyTypeOK, SafeInv, LegacyInv, LockInv
  <1>8. ConnInv'
    BY DEF IInv, Types, LegacyTypeOK, SafeInv, LegacyInv, ConnInv
  <1> QED
    BY <1>2, <1>3, <1>4, <1>5, <1>6, <1>7, <1>8 DEF IInv, SafeInv, LegacyInv

\* It dies with the mutex, which nobody who needs it unlocked holds.
LEMMA PostFailsInv ==
  ASSUME IInv, NEW t \in Threads, PostFails(t)
  PROVE  IInv'
  <1> USE HostMapAssumption, LegacyAssumption
      DEF PostFails, locals, fields, Begin, Goto, Done
  <1>1. \A l \in Keys : Holders(l)' \subseteq Holders(l)
    BY DEF Holders, IInv, Types, LegacyTypeOK, SafeInv, Bound
  <1>2. CountInv'
    BY <1>1, QuietCounts
  <1>3. Types'
    BY Held DEF IInv, Types, LegacyTypeOK, SafeInv, MapInv, Working, BoundPc, ThreadInv
  <1>4. MapInv'
    BY DEF IInv, Types, LegacyTypeOK, SafeInv, MapInv, Bound
  <1>5. ThreadInv'
    BY DEF IInv, Types, LegacyTypeOK, SafeInv, Freeing, Leaving, Working, Taking, FreePc,
           BoundPc, LeavePc, TakePc, Bound, ThreadInv
  <1>6. LockReleased' /\ Exclusive' /\ FreedOnce'
    BY DEF IInv, Types, LegacyTypeOK, SafeInv, LockReleased, FreedOnce, Exclusive
  <1>7. LockInv'
    BY Held
       DEF IInv, Types, LegacyTypeOK, SafeInv, LegacyInv, LockInv, Working, BoundPc,
           ThreadInv
  <1>8. ConnInv'
    BY DEF IInv, Types, LegacyTypeOK, SafeInv, LegacyInv, ConnInv
  <1> QED
    BY <1>2, <1>3, <1>4, <1>5, <1>6, <1>7, <1>8 DEF IInv, SafeInv, LegacyInv

\* The client is unbound and holds its connection until the reference is dropped.
LEMMA EraseRequestInv ==
  ASSUME IInv, NEW t \in Threads, NEW v \in VConns, NEW k \in LegacyKeys,
         EraseRequest(t, v, k)
  PROVE  IInv'
  <1>0. vhost[v] = k /\ k \in Keys /\ k # None
    BY NamesOwn DEF EraseRequest
  <1> USE <1>0, HostMapAssumption, LegacyAssumption
      DEF EraseRequest, locals, fields, Begin, Goto, Done, NoCallOn
  <1>1. \A l \in Keys : Holders(l)' \subseteq Holders(l)
    BY DEF Holders, IInv, Types, LegacyTypeOK, SafeInv, Bound
  <1>2. CountInv'
    BY <1>1, QuietCounts
  <1>3. Types'
    BY DEF IInv, Types, LegacyTypeOK, SafeInv
  <1>4. MapInv'
    BY DEF IInv, Types, LegacyTypeOK, SafeInv, MapInv, Bound
  <1>5. ThreadInv'
    BY DEF IInv, Types, LegacyTypeOK, SafeInv, MapInv, Freeing, Leaving, Working, Taking,
           Clients, FreePc, BoundPc, TakePc, Bound, ThreadInv
  <1>6. LockReleased' /\ Exclusive' /\ FreedOnce'
    BY DEF IInv, Types, LegacyTypeOK, SafeInv, LockReleased, FreedOnce, Exclusive
  <1>7. LockInv'
    BY DEF IInv, Types, LegacyTypeOK, SafeInv, LegacyInv, LockInv
  <1>8. ConnInv'
    BY DEF IInv, Types, LegacyTypeOK, SafeInv, LegacyInv, ConnInv
  <1> QED
    BY <1>2, <1>3, <1>4, <1>5, <1>6, <1>7, <1>8 DEF IInv, SafeInv, LegacyInv

\* The entry of conn_map goes before the reference does.
LEMMA EraseConnInv ==
  ASSUME IInv, NEW t \in Threads, EraseConn(t)
  PROVE  IInv'
  <1> USE HostMapAssumption, LegacyAssumption
      DEF EraseConn, locals, fields, Begin, Goto, Done, Forgotten
  <1>1. \A l \in Keys : Holders(l)' \subseteq Holders(l)
    BY DEF Holders, IInv, Types, LegacyTypeOK, SafeInv, LeavePc, Bound
  <1>2. CountInv'
    BY <1>1, QuietCounts
  <1>3. Types'
    BY DEF IInv, Types, LegacyTypeOK, SafeInv, DestroyPc
  <1>4. MapInv'
    BY DEF IInv, Types, LegacyTypeOK, SafeInv, MapInv, Bound
  <1>5. ThreadInv'
    BY DEF IInv, Types, LegacyTypeOK, SafeInv, Freeing, Leaving, Working, Taking, FreePc,
           BoundPc, LeavePc, TakePc, Bound, ThreadInv
  <1>6. LockReleased' /\ Exclusive' /\ FreedOnce'
    BY DEF IInv, Types, LegacyTypeOK, SafeInv, LockReleased, FreedOnce, Exclusive, UsePc,
           PostPc
  <1>7. LockInv'
    BY DEF IInv, Types, LegacyTypeOK, SafeInv, LegacyInv, LockInv
  <1>8. ConnInv'
    BY DEF IInv, Types, LegacyTypeOK, SafeInv, LegacyInv, ConnInv
  <1> QED
    BY <1>2, <1>3, <1>4, <1>5, <1>6, <1>7, <1>8 DEF IInv, SafeInv, LegacyInv

\* A new entry has count 1, and its only holder is the new client: before it
\* there was no entry, so no holder either (Unmapped).
LEMMA CountsNew ==
  ASSUME IInv, NEW t \in Threads, NEW g \in Clients, NEW k \in Keys, NEW c \in Conns,
         NEW p \in {"m_create", "c_create"},
         NotFound(k), c \notin live, Begin(t, g, k, c, p),
         ref_cnt' = [ref_cnt EXCEPT ![c] = InitialRefs],
         host_map' = [host_map EXCEPT ![k] = c],
         UNCHANGED <<src_qp_map, vhost>>
  PROVE  CountInv'
  <1> USE HostMapAssumption DEF Begin, NotFound, InitialRefs
  <1>1. Holders(k) = {}
    BY Unmapped
  <1>2. \A l \in Keys \ {k} : Holders(l)' \subseteq Holders(l)
    BY DEF Holders, Bound, IInv, Types, LegacyTypeOK, TakePc, LeavePc
  <1>3. Holders(k)' \subseteq Holders(k) \cup {g}
    BY DEF Holders, Bound, IInv, Types, LegacyTypeOK, TakePc, LeavePc
  <1> SUFFICES ASSUME NEW l \in Keys
               PROVE  IF host_map'[l] = None THEN Holders(l)' = {}
                      ELSE Cardinality(Holders(l)') <= ref_cnt'[host_map'[l]]
    BY DEF CountInv
  <1>4. CASE l = k
    <2>1. Cardinality({g}) = 1
      BY FS_Singleton
    <2>2. Holders(k)' \subseteq {g}
      BY <1>1, <1>3
    <2>3. Cardinality(Holders(k)') <= 1
      BY <2>1, <2>2, FewerHolders, HoldersFinite
    <2> QED
      BY <1>4, <2>3 DEF IInv, Types, LegacyTypeOK
  <1>5. CASE l # k /\ host_map[l] = None
    BY <1>2, <1>5 DEF IInv, Types, CountInv
  <1>6. CASE l # k /\ host_map[l] # None
    <2>1. host_map'[l] = host_map[l] /\ host_map[l] # c
      BY <1>6 DEF IInv, Types, SafeInv, MapInv
    <2>2. /\ Cardinality(Holders(l)) <= ref_cnt[host_map[l]]
          /\ ref_cnt'[host_map[l]] = ref_cnt[host_map[l]]
          /\ ref_cnt[host_map[l]] \in Nat
      BY <1>6, <2>1 DEF IInv, Types, LegacyTypeOK, CountInv
    <2>3. /\ Cardinality(Holders(l)') \in Nat /\ Cardinality(Holders(l)) \in Nat
          /\ Cardinality(Holders(l)') <= Cardinality(Holders(l))
      BY <1>2, <1>6, HoldersFinite, FewerHolders
    <2> QED
      BY <1>6, <2>1, <2>2, <2>3
  <1> QED
    BY <1>4, <1>5, <1>6

\* The client becomes a holder and the count is raised in the same step.
LEMMA CountsShare ==
  ASSUME IInv, NEW t \in Threads, NEW g \in Clients, NEW k \in Keys,
         NEW p \in {"m_reuse", "c_reuse"},
         ~NotFound(k), Begin(t, g, k, host_map[k], p), ref_cnt' = RefTaken(host_map[k]),
         UNCHANGED <<host_map, src_qp_map, vhost>>
  PROVE  CountInv'
  <1> USE HostMapAssumption DEF Begin, NotFound, RefTaken
  <1>1. \A l \in Keys \ {k} : Holders(l)' \subseteq Holders(l)
    BY DEF Holders, Bound, IInv, Types, LegacyTypeOK, TakePc, LeavePc
  <1>2. Holders(k)' \subseteq Holders(k) \cup {g}
    BY DEF Holders, Bound, IInv, Types, LegacyTypeOK, TakePc, LeavePc
  <1>3. host_map[k] \in Conns /\ ref_cnt[host_map[k]] \in Nat
    BY DEF IInv, Types, LegacyTypeOK
  <1> SUFFICES ASSUME NEW l \in Keys
               PROVE  IF host_map[l] = None THEN Holders(l)' = {}
                      ELSE Cardinality(Holders(l)') <= ref_cnt'[host_map[l]]
    BY DEF CountInv
  <1>4. CASE l = k
    <2>1. Cardinality(Holders(k)) <= ref_cnt[host_map[k]]
      BY DEF IInv, CountInv
    <2>2. /\ Cardinality(Holders(k)) \in Nat /\ Cardinality(Holders(k) \cup {g}) \in Nat
          /\ Cardinality(Holders(k) \cup {g}) <= Cardinality(Holders(k)) + 1
      BY HoldersFinite, OneMoreHolder
    <2>3. /\ Cardinality(Holders(k)') \in Nat
          /\ Cardinality(Holders(k)') <= Cardinality(Holders(k) \cup {g})
      <3>1. Holders(k) \cup {g} \in SUBSET Clients
        BY HoldersFinite
      <3> QED
        BY <1>2, <3>1, FewerHolders
    <2>4. ref_cnt'[host_map[k]] = ref_cnt[host_map[k]] + 1
      BY <1>3 DEF IInv, Types, LegacyTypeOK
    <2> QED
      BY <1>3, <1>4, <2>1, <2>2, <2>3, <2>4
  <1>5. CASE l # k /\ host_map[l] = None
    BY <1>1, <1>5 DEF IInv, CountInv
  <1>6. CASE l # k /\ host_map[l] # None
    <2>1. host_map[l] # host_map[k]
      BY <1>6 DEF IInv, SafeInv, MapInv
    <2>2. /\ Cardinality(Holders(l)) <= ref_cnt[host_map[l]]
          /\ ref_cnt'[host_map[l]] = ref_cnt[host_map[l]]
          /\ ref_cnt[host_map[l]] \in Nat
      BY <1>3, <1>6, <2>1 DEF IInv, Types, LegacyTypeOK, CountInv
    <2>3. /\ Cardinality(Holders(l)') \in Nat /\ Cardinality(Holders(l)) \in Nat
          /\ Cardinality(Holders(l)') <= Cardinality(Holders(l))
      BY <1>1, <1>6, HoldersFinite, FewerHolders
    <2> QED
      BY <1>6, <2>2, <2>3
  <1> QED
    BY <1>4, <1>5, <1>6

\* A fresh address, locked by the thread that will make its QP, enters host_map.
LEMMA ModifyNewInv ==
  ASSUME IInv, NEW t \in Threads, NEW h \in Handles, NEW k \in Keys, NEW c \in Conns,
         ModifyNew(t, h, k, c), UNCHANGED legacy
  PROVE  IInv'
  <1> USE HostMapAssumption, LegacyAssumption
      DEF ModifyNew, locals, fields, legacy, Begin, NoCallOn, NotFound, InitialRefs
  <1>1. /\ \A u \in Threads : pc[u] \in TakePc \cup LeavePc \cup BoundPc => key[u] # k
        /\ \A l \in Clients : Bound(l) # k
    BY Unmapped DEF NotFound
  <1>2. CountInv'
    <2>1. h \in Clients /\ "m_create" \in {"m_create"}
      BY DEF Clients
    <2> QED
      BY <2>1, CountsNew
  <1>3. Types'
    BY <1>1 DEF IInv, Types, LegacyTypeOK, ModifyPc
  <1>4. MapInv'
    BY <1>1 DEF IInv, Types, LegacyTypeOK, SafeInv, MapInv, Clients, Bound
  <1>5. ThreadInv'
    BY <1>1
       DEF IInv, Types, LegacyTypeOK, SafeInv, MapInv, Freeing, Leaving, Working, Taking,
           CreatePc, BoundPc, LeavePc, Bound, ThreadInv
  <1>6. LockReleased' /\ Exclusive' /\ FreedOnce'
    BY <1>1
       DEF IInv, Types, LegacyTypeOK, SafeInv, LockReleased, FreedOnce, Exclusive, Freeing,
           FreePc, ThreadInv
  <1>7. LockInv'
    BY <1>1
       DEF IInv, Types, LegacyTypeOK, SafeInv, LegacyInv, LockInv, MapInv, Freeing, Taking,
           FreePc, TakePc, ThreadInv
  <1>8. ConnInv'
    BY <1>1 DEF IInv, Types, LegacyTypeOK, SafeInv, LegacyInv, ConnInv
  <1> QED
    BY <1>2, <1>3, <1>4, <1>5, <1>6, <1>7, <1>8 DEF IInv, SafeInv, LegacyInv

\* The entry of a host is found and held.
LEMMA ModifyShareInv ==
  ASSUME IInv, NEW t \in Threads, NEW h \in Handles, NEW k \in Keys,
         ModifyShare(t, h, k), UNCHANGED legacy
  PROVE  IInv'
  <1> USE HostMapAssumption, LegacyAssumption
      DEF ModifyShare, locals, fields, legacy, Begin, NoCallOn, NotFound, RefTaken
  <1>1. host_map[k] \in Conns /\ host_map[k] # None
    BY DEF IInv, Types, NotFound
  <1>2. CountInv'
    <2>1. h \in Clients /\ "m_reuse" \in {"m_reuse"}
      BY DEF Clients
    <2> QED
      BY <2>1, CountsShare
  <1>3. Types'
    BY <1>1 DEF IInv, Types, LegacyTypeOK, ModifyPc
  <1>4. MapInv'
    BY <1>1 DEF IInv, Types, LegacyTypeOK, SafeInv, MapInv, Bound
  <1>5. ThreadInv'
    BY <1>1
       DEF IInv, Types, LegacyTypeOK, SafeInv, Freeing, Leaving, Working, Taking, CreatePc,
           FreePc, BoundPc, LeavePc, Bound, ThreadInv
  <1>6. LockReleased' /\ Exclusive' /\ FreedOnce'
    BY <1>1 DEF IInv, Types, LegacyTypeOK, SafeInv, LockReleased, FreedOnce, Exclusive
  <1>7. LockInv'
    BY <1>1 DEF IInv, Types, LegacyTypeOK, SafeInv, LegacyInv, LockInv
  <1>8. ConnInv'
    BY <1>1 DEF IInv, Types, LegacyTypeOK, SafeInv, LegacyInv, ConnInv
  <1> QED
    BY <1>2, <1>3, <1>4, <1>5, <1>6, <1>7, <1>8 DEF IInv, SafeInv, LegacyInv

\* The same for a legacy client.
LEMMA CreateNewInv ==
  ASSUME IInv, NEW t \in Threads, NEW v \in VConns, NEW k \in Keys, NEW c \in Conns,
         CreateNew(t, v, k, c)
  PROVE  IInv'
  <1> USE HostMapAssumption, LegacyAssumption
      DEF CreateNew, locals, fields, legacy, Begin, NoCallOn, NotFound, InitialRefs, MayCreate
  <1>1. /\ \A u \in Threads : pc[u] \in TakePc \cup LeavePc \cup BoundPc => key[u] # k
        /\ \A l \in Clients : Bound(l) # k
    BY Unmapped DEF NotFound
  <1>2. CountInv'
    <2>1. v \in Clients /\ "c_create" \in {"c_create"}
      BY DEF Clients
    <2> QED
      BY <2>1, CountsNew
  <1>3. Types'
    BY <1>1 DEF IInv, Types, LegacyTypeOK, CreatePc
  <1>4. MapInv'
    BY <1>1 DEF IInv, Types, LegacyTypeOK, SafeInv, MapInv, Clients, Bound
  <1>5. ThreadInv'
    BY <1>1
       DEF IInv, Types, LegacyTypeOK, SafeInv, MapInv, Freeing, Leaving, Working, Taking,
           CreatePc, BoundPc, LeavePc, Bound, ThreadInv
  <1>6. LockReleased' /\ Exclusive' /\ FreedOnce'
    BY <1>1
       DEF IInv, Types, LegacyTypeOK, SafeInv, LockReleased, FreedOnce, Exclusive, Freeing,
           FreePc, ThreadInv
  <1>7. LockInv'
    BY <1>1
       DEF IInv, Types, LegacyTypeOK, SafeInv, LegacyInv, LockInv, MapInv, Freeing, Taking,
           FreePc, TakePc, ThreadInv
  <1>8. ConnInv'
    BY <1>1 DEF IInv, Types, LegacyTypeOK, SafeInv, LegacyInv, ConnInv
  <1> QED
    BY <1>2, <1>3, <1>4, <1>5, <1>6, <1>7, <1>8 DEF IInv, SafeInv, LegacyInv

\* The same for a legacy client.
LEMMA CreateShareInv ==
  ASSUME IInv, NEW t \in Threads, NEW v \in VConns, NEW k \in Keys,
         CreateShare(t, v, k)
  PROVE  IInv'
  <1> USE HostMapAssumption, LegacyAssumption
      DEF CreateShare, locals, fields, legacy, Begin, NoCallOn, NotFound, RefTaken, MayCreate
  <1>1. host_map[k] \in Conns /\ host_map[k] # None
    BY DEF IInv, Types, NotFound
  <1>2. CountInv'
    <2>1. v \in Clients /\ "c_reuse" \in {"c_reuse"}
      BY DEF Clients
    <2> QED
      BY <2>1, CountsShare
  <1>3. Types'
    BY <1>1 DEF IInv, Types, LegacyTypeOK, CreatePc
  <1>4. MapInv'
    BY <1>1 DEF IInv, Types, LegacyTypeOK, SafeInv, MapInv, Bound
  <1>5. ThreadInv'
    BY <1>1
       DEF IInv, Types, LegacyTypeOK, SafeInv, Freeing, Leaving, Working, Taking, CreatePc,
           FreePc, BoundPc, LeavePc, Bound, ThreadInv
  <1>6. LockReleased' /\ Exclusive' /\ FreedOnce'
    BY <1>1 DEF IInv, Types, LegacyTypeOK, SafeInv, LockReleased, FreedOnce, Exclusive
  <1>7. LockInv'
    BY <1>1 DEF IInv, Types, LegacyTypeOK, SafeInv, LegacyInv, LockInv
  <1>8. ConnInv'
    BY <1>1 DEF IInv, Types, LegacyTypeOK, SafeInv, LegacyInv, ConnInv
  <1> QED
    BY <1>2, <1>3, <1>4, <1>5, <1>6, <1>7, <1>8 DEF IInv, SafeInv, LegacyInv

\* Whoever drops the last reference is the only holder left.
LEMMA LastHolder ==
  ASSUME IInv, NEW t \in Threads, pc[t] = "d_drop"
  PROVE  /\ hdl[t] \in Holders(key[t]) /\ key[t] \in Keys
         /\ host_map[key[t]] \in Conns /\ host_map[key[t]] # None
         /\ ref_cnt[host_map[key[t]]] \in Nat \ {0}
         /\ LastRef(host_map[key[t]]) => Holders(key[t]) = {hdl[t]}
  <1>1. /\ hdl[t] \in Holders(key[t]) /\ key[t] \in Keys
        /\ host_map[key[t]] \in Conns /\ host_map[key[t]] # None
    BY Held DEF LeavePc
  <1>2. ref_cnt[host_map[key[t]]] \in Nat
    BY <1>1 DEF IInv, Types, LegacyTypeOK
  <1>3. Cardinality(Holders(key[t])) <= ref_cnt[host_map[key[t]]]
    BY <1>1 DEF IInv, CountInv
  <1>4. /\ Cardinality(Holders(key[t])) \in Nat /\ Cardinality(Holders(key[t])) >= 1
        /\ Cardinality(Holders(key[t])) = 1 => Holders(key[t]) = {hdl[t]}
    BY <1>1, HoldersFinite, OneHolderLess
  <1> QED
    BY <1>1, <1>2, <1>3, <1>4 DEF LastRef

\* One holder and one reference less; if the count was 1 there was no other
\* holder of either kind (LastHolder), so taking the entry away leaves nobody
\* without a connection.
LEMMA DestroyDropInv ==
  ASSUME IInv, NEW t \in Threads, DestroyDrop(t), UNCHANGED legacy
  PROVE  IInv'
  <1> USE HostMapAssumption, LegacyAssumption
      DEF locals, fields, legacy, Begin, Done
  <1>a. PICK k \in Keys : k = key[t]
    BY LastHolder DEF DestroyDrop
  <1>b. PICK h \in Clients : h = hdl[t]
    BY LastHolder, HoldersFinite DEF DestroyDrop
  <1>c. PICK c : c = host_map[k]
    OBVIOUS
  <1>1. pc[t] = "d_drop" /\ Bound(h) = None
    BY <1>b DEF DestroyDrop, IInv, SafeInv, ThreadInv, Leaving, LeavePc
  <1>2. /\ h \in Holders(k) /\ c \in Conns /\ c # None
        /\ ref_cnt[c] \in Nat \ {0}
        /\ LastRef(c) => Holders(k) = {h}
    BY <1>a, <1>b, <1>c, <1>1, LastHolder
  <1>3. /\ ref_cnt' = [ref_cnt EXCEPT ![c] = @ - 1]
        /\ hdl'[t] \in {None, h} /\ pc'[t] \in {"idle", "d_qp"}
        /\ \A u \in Threads \ {t} : pc'[u] = pc[u] /\ hdl'[u] = hdl[u]
                                     /\ key'[u] = key[u] /\ cur'[u] = cur[u]
        /\ UNCHANGED <<host_lock, src_qp_map, dst_qp_map, live, qp, status, mutex,
                       ready, crashed, vhost, conn_map, connmap_lock, wedged>>
    BY <1>a, <1>b, <1>c, <1>1, <1>2 DEF DestroyDrop, IInv, Types, LegacyTypeOK
  <1>4. \A g : Bound(g)' = Bound(g)
    BY <1>3 DEF Bound
  <1>5. \A l \in Keys : Holders(l)' \subseteq Holders(l)
    BY <1>3, <1>4 DEF Holders, TakePc, LeavePc
  <1>6. h \notin Holders(k)'
    <2>1. \A u \in Threads : hdl'[u] = h => pc'[u] \notin TakePc \cup LeavePc
      BY <1>b, <1>1, <1>3, ClientsFinite
         DEF IInv, SafeInv, Exclusive, UsePc, PostPc, TakePc, LeavePc
    <2>2. k # None
      OBVIOUS
    <2> QED
      BY <1>1, <1>4, <2>1, <2>2 DEF Holders
  <1>7. Types'
    <2>1. ref_cnt' \in [Conns -> Nat]
      BY <1>2, <1>3 DEF IInv, Types, LegacyTypeOK
    <2>2. host_map' \in [Keys -> Conns \cup {None}]
      BY <1>a, <1>c, <1>2 DEF DestroyDrop, Erased, IInv, Types
    <2>3. CASE LastRef(c)
      BY <1>a, <1>b, <1>c, <1>2, <1>3, <2>1, <2>2, <2>3
         DEF DestroyDrop, IInv, Types, LegacyTypeOK, DestroyPc
    <2>4. CASE ~LastRef(c)
      BY <1>a, <1>b, <1>c, <1>2, <1>3, <2>1, <2>2, <2>4
         DEF DestroyDrop, IInv, Types, LegacyTypeOK, DestroyPc
    <2> QED
      BY <2>3, <2>4
  <1>8. \A l \in Keys : l # k /\ host_map[l] # None =>
          /\ host_map[l] # c
          /\ Cardinality(Holders(l)') <= ref_cnt'[host_map[l]]
    <2> TAKE l \in Keys
    <2> HAVE l # k /\ host_map[l] # None
    <2>1. host_map[l] # c
      BY <1>c, <1>2 DEF IInv, SafeInv, MapInv
    <2>2. /\ Cardinality(Holders(l)) <= ref_cnt[host_map[l]]
          /\ ref_cnt'[host_map[l]] = ref_cnt[host_map[l]]
          /\ ref_cnt[host_map[l]] \in Nat
      BY <1>3, <2>1 DEF IInv, Types, LegacyTypeOK, CountInv
    <2>3. /\ Cardinality(Holders(l)') \in Nat /\ Cardinality(Holders(l)) \in Nat
          /\ Cardinality(Holders(l)') <= Cardinality(Holders(l))
      BY <1>5, HoldersFinite, FewerHolders
    <2> QED
      BY <2>1, <2>2, <2>3
  <1>9. CASE ~LastRef(c)
    <2>1. /\ pc' = [pc EXCEPT ![t] = "idle"] /\ hdl' = [hdl EXCEPT ![t] = None]
          /\ key' = [key EXCEPT ![t] = None] /\ cur' = [cur EXCEPT ![t] = None]
          /\ host_map' = host_map
      BY <1>a, <1>b, <1>c, <1>2, <1>9 DEF DestroyDrop
    <2>2. CountInv'
      <3> SUFFICES ASSUME NEW l \in Keys
                   PROVE  IF host_map[l] = None THEN Holders(l)' = {}
                          ELSE Cardinality(Holders(l)') <= ref_cnt'[host_map[l]]
        BY <2>1 DEF CountInv
      <3>1. CASE l = k
        <4>1. /\ Cardinality(Holders(k)) \in Nat
              /\ Cardinality(Holders(k) \ {h}) = Cardinality(Holders(k)) - 1
          BY <1>2, HoldersFinite, OneHolderLess
        <4>2. /\ Cardinality(Holders(k)') \in Nat
              /\ Cardinality(Holders(k)') <= Cardinality(Holders(k) \ {h})
          <5>1. Holders(k)' \subseteq Holders(k) \ {h}
            BY <1>5, <1>6
          <5>2. Holders(k) \ {h} \in SUBSET Clients
            BY HoldersFinite
          <5> QED
            BY <5>1, <5>2, FewerHolders
        <4>3. Cardinality(Holders(k)) <= ref_cnt[c]
          BY <1>c, <1>2 DEF IInv, CountInv
        <4>4. ref_cnt'[c] = ref_cnt[c] - 1
          BY <1>2, <1>3 DEF IInv, Types, LegacyTypeOK
        <4> QED
          BY <1>c, <1>2, <3>1, <4>1, <4>2, <4>3, <4>4
      <3>2. CASE l # k /\ host_map[l] = None
        BY <1>5, <3>2 DEF IInv, CountInv
      <3> QED
        BY <1>8, <3>1, <3>2
    <2>3. MapInv' /\ ThreadInv' /\ Exclusive' /\ FreedOnce'
      BY <1>1, <1>2, <1>3, <1>4, <2>1
         DEF IInv, Types, LegacyTypeOK, SafeInv, MapInv, ThreadInv, Exclusive, FreedOnce,
             Taking, Leaving, Working, Freeing, TakePc, LeavePc, BoundPc, FreePc,
             CreatePc, SetupPc, PostPc, UsePc
    <2>4. LockReleased' /\ LegacyInv'
      BY <1>1, <1>3, <2>1
         DEF IInv, Types, LegacyTypeOK, LockReleased, LegacyInv, LockInv, ConnInv
    <2> QED
      BY <1>7, <2>2, <2>3, <2>4 DEF IInv, SafeInv
  <1>10. CASE LastRef(c)
    <2>1. /\ host_map' = [host_map EXCEPT ![k] = None]
          /\ pc' = [pc EXCEPT ![t] = "d_qp"] /\ hdl' = [hdl EXCEPT ![t] = h]
          /\ key' = [key EXCEPT ![t] = k] /\ cur' = [cur EXCEPT ![t] = c]
      BY <1>a, <1>b, <1>c, <1>2, <1>10 DEF DestroyDrop, Erased
    <2>2. /\ \A u \in Threads \ {t} :
               pc[u] \in TakePc \cup LeavePc \cup BoundPc => key[u] # k
          /\ \A g \in Clients : Bound(g) # k
      <3>1. Holders(k) = {h}
        BY <1>2, <1>10
      <3>2. ASSUME NEW u \in Threads \ {t},
                   pc[u] \in TakePc \cup LeavePc \cup BoundPc, key[u] = k
            PROVE  FALSE
        <4>1. hdl[u] = h
          BY <3>1, <3>2, Held
        <4> QED
          BY <1>b, <1>1, <4>1, ClientsFinite DEF IInv, SafeInv, Exclusive, UsePc, PostPc
      <3>3. ASSUME NEW g \in Clients, Bound(g) = k PROVE FALSE
        BY <1>1, <3>1, <3>3 DEF Holders
      <3> QED
        BY <3>2, <3>3
    <2>3. CountInv'
      <3> SUFFICES ASSUME NEW l \in Keys
                   PROVE  IF host_map'[l] = None THEN Holders(l)' = {}
                          ELSE Cardinality(Holders(l)') <= ref_cnt'[host_map'[l]]
        BY DEF CountInv
      <3>1. CASE l = k
        BY <1>2, <1>5, <1>6, <1>10, <2>1, <3>1 DEF IInv, Types
      <3>2. CASE l # k /\ host_map[l] = None
        BY <1>5, <2>1, <3>2 DEF IInv, Types, CountInv
      <3>3. CASE l # k /\ host_map[l] # None
        BY <1>8, <2>1, <3>3 DEF IInv, Types
      <3> QED
        BY <3>1, <3>2, <3>3
    <2>4. LockReleased' /\ Exclusive'
      BY <1>b, <1>1, <1>3, <2>1
         DEF IInv, Types, LegacyTypeOK, LockReleased, SafeInv, Exclusive, UsePc, PostPc
    <2>5. MapInv'
      BY <1>3, <1>4, <2>1, <2>2 DEF IInv, Types, SafeInv, MapInv
    <2>6. FreedOnce'
      BY <1>c, <1>2, <1>3, <1>8, <2>1
         DEF IInv, Types, LegacyTypeOK, SafeInv, FreedOnce, ThreadInv, Freeing, FreePc
    <2>7. ThreadInv'
      <3>1. Freeing(t)' /\ pc'[t] = "d_qp"
        BY <1>a, <1>c, <1>1, <1>2, <1>3, <2>1
           DEF IInv, Types, LegacyTypeOK, SafeInv, MapInv, ThreadInv, Leaving, Freeing, LeavePc
      <3> SUFFICES ASSUME NEW u \in Threads \ {t}
                   PROVE  /\ pc[u] = "idle" => hdl[u] = None /\ cur[u] = None
                          /\ pc[u] \in TakePc => Taking(u)'
                          /\ pc[u] \in LeavePc => Leaving(u)'
                          /\ pc[u] \in BoundPc => Working(u)'
                          /\ pc[u] \in FreePc => Freeing(u)'
        BY <1>3, <3>1 DEF ThreadInv, TakePc, LeavePc, BoundPc, FreePc
      <3>2. pc[u] \in TakePc \cup LeavePc \cup BoundPc =>
              host_map'[key[u]] = host_map[key[u]]
        BY <2>1, <2>2, Held DEF IInv, Types
      <3>3. CASE pc[u] \in {"idle"} \cup FreePc
        BY <1>3, <3>3
           DEF IInv, SafeInv, ThreadInv, Freeing, TakePc, LeavePc, BoundPc, FreePc
      <3>4. CASE pc[u] \in TakePc
        BY <1>3, <3>2, <3>4
           DEF IInv, SafeInv, ThreadInv, Taking, TakePc, LeavePc, BoundPc, FreePc
      <3>5. CASE pc[u] \in LeavePc
        BY <1>3, <1>4, <3>2, <3>5
           DEF IInv, SafeInv, ThreadInv, Leaving, TakePc, LeavePc, BoundPc, FreePc
      <3>6. CASE pc[u] \in BoundPc
        BY <1>3, <1>4, <3>2, <3>6
           DEF IInv, SafeInv, ThreadInv, Working, TakePc, LeavePc, BoundPc, FreePc
      <3> QED
        BY <3>3, <3>4, <3>5, <3>6
    <2>8. LockInv'
      BY <1>3, <2>1 DEF IInv, Types, LegacyTypeOK, LegacyInv, LockInv
    <2>9. ConnInv'
      <3> SUFFICES ASSUME NEW v \in VConns, conn_map[v] # None
                   PROVE  \/ vhost[v] # None /\ conn_map[v] = host_map'[vhost[v]]
                          \/ \E u \in Threads : pc'[u] = "x_erase" /\ hdl'[u] = v
        BY <1>3 DEF ConnInv
      <3>1. v \in Clients /\ v \notin Handles /\ Bound(v) = vhost[v]
        BY DEF Clients, Bound
      <3>2. vhost[v] # k
        BY <2>2, <3>1
      <3>3. CASE vhost[v] # None /\ conn_map[v] = host_map[vhost[v]]
        BY <2>1, <3>2, <3>3 DEF IInv, Types, LegacyTypeOK
      <3>4. CASE \E u \in Threads : pc[u] = "x_erase" /\ hdl[u] = v
        BY <1>1, <1>3, <3>4
      <3> QED
        BY <3>3, <3>4 DEF IInv, LegacyInv, ConnInv
    <2> QED
      BY <1>7, <2>3, <2>4, <2>5, <2>6, <2>7, <2>8, <2>9 DEF IInv, SafeInv, LegacyInv
  <1> QED
    BY <1>9, <1>10

-----------------------------------------------------------------------------

\* No request is left with a pointer to a connection that was freed.
LEMMA NoneDangles ==
  ASSUME IInv, NEW t \in Threads
  PROVE  ~DanglingUse(t)
  <1> SUFFICES ASSUME pc[t] \in {"m_ready", "u_conn", "s_conn", "p_conn"} PROVE cur[t] \in live
    BY DEF DanglingUse, Dangles
  <1>1. pc[t] \in BoundPc /\ pc[t] \notin {"u_find", "p_find"}
    BY DEF BoundPc
  <1>2. hdl[t] \in Clients /\ key[t] \in Keys /\ host_map[key[t]] # None
    BY <1>1, Held
  <1>3. cur[t] = host_map[key[t]]
    BY <1>1 DEF IInv, SafeInv, ThreadInv, Working
  <1> QED
    BY <1>2, <1>3 DEF IInv, SafeInv, MapInv

\* A step that changes nothing, of a daemon that is dead or not.
LEMMA StutterInv ==
  ASSUME IInv, UNCHANGED allvars
  PROVE  IInv'
  <1> USE DEF allvars, vars, locals, fields, legacy
  <1>1. \A l : Holders(l)' = Holders(l)
    BY DEF Holders, Bound
  <1>2. CountInv'
    BY <1>1, QuietCounts
  <1>3. Types' /\ LockReleased' /\ LegacyInv'
    BY DEF IInv, Types, LegacyTypeOK, LockReleased, LegacyInv, LockInv, ConnInv
  <1>4. SafeInv'
    BY DEF IInv, SafeInv, MapInv, ThreadInv, Exclusive, FreedOnce, Taking, Leaving, Working,
       Freeing, Bound
  <1> QED
    BY <1>2, <1>3, <1>4 DEF IInv

\* The requests of virtual QPs keep the invariant,
LEMMA HostMapStepInv ==
  ASSUME IInv, Next, UNCHANGED legacy
  PROVE  IInv'
  <1>1. ASSUME NEW t \in Threads, Continue(t) PROVE IInv'
    BY <1>1, ModifyCreateInv, ModifyCreateFailsInv, ModifyReuseInv, ModifySrcInv,
       ModifyTellInv, ModifyWaitInv, ModifyFindInv, ModifyReadyInv, ModifyNotReadyInv,
       DestroyDropInv, DestroyQpInv, DestroyFreeInv, UseFindInv, UseConnInv
       DEF Continue
  <1>2. ASSUME NEW t \in Threads, NEW h \in Handles, Request(t, h) PROVE IInv'
    BY <1>2, ModifyShareInv, ModifyNewInv, DestroyUnbindInv, UseLookupInv DEF Request
  <1>3. ASSUME NEW k \in Keys, Remote(k) PROVE IInv'
    BY <1>3, RemoteInv
  <1>4. CASE Dead
    BY <1>4, StutterInv DEF Dead, allvars
  <1> QED
    BY <1>1, <1>2, <1>3, <1>4 DEF Next

\* and so do those of legacy clients.
LEMMA LegacyStepInv ==
  ASSUME IInv, NEW t \in Threads,
         LegacyContinue(t) \/ \E v \in VConns : LegacyRequest(t, v)
  PROVE  IInv'
  <1>1. CASE LegacyContinue(t)
    BY <1>1, CreateDoneInv, CreateFailsInv, CreateReuseInv, SetupConnInv, SetupMapInv,
       PostFindInv, PostConnInv, PostFailsInv, EraseConnInv, NoneDangles
       DEF LegacyContinue
  <1>2. ASSUME NEW v \in VConns, LegacyRequest(t, v) PROVE IInv'
    <2>1. LegacyKeys \subseteq Keys
      BY LegacyAssumption
    <2> QED
      BY <1>2, <2>1, CreateShareInv, CreateNewInv, SetupFindInv, PostRequestInv,
         EraseRequestInv
         DEF LegacyRequest
  <1> QED
    BY <1>1, <1>2

\* The invariant holds in every reachable state.
THEOREM Invariance ==
  ASSUME Unprepared = {}
  PROVE  LegacySpec => []IInv
  <1>1. IInv /\ [LegacyNext]_allvars => IInv'
    BY HostMapStepInv, LegacyStepInv, StutterInv DEF LegacyNext
  <1> QED
    BY InitInv, <1>1, PTL DEF LegacySpec

\* Every variable keeps its type; in particular no count of references falls
\* below zero, and a mutex that a dead thread keeps is one of a connection that
\* is still allocated (so DESTROY_RES never frees a locked conn_resources).
THEOREM TypeCorrect ==
  ASSUME Unprepared = {}
  PROVE  LegacySpec => []LegacyTypeOK
  <1>1. IInv => LegacyTypeOK
    BY DEF IInv, Types
  <1> QED
    BY Invariance, <1>1, PTL

\* The reference count covers the clients of both kinds.
LEMMA CountedBoth == IInv => CountsBoth
  <1> SUFFICES ASSUME IInv, NEW k \in Keys
               PROVE  LET holders == Cardinality(Users(k)) + Cardinality(LegacyUsers(k)) IN
                      IF host_map[k] = None THEN holders = 0
                      ELSE holders <= ref_cnt[host_map[k]]
    BY DEF CountsBoth
  <1> USE HostMapAssumption, LegacyAssumption
  <1>1. Users(k) \cup LegacyUsers(k) \subseteq Holders(k)
    BY DEF Users, LegacyUsers, Holders, Bound, Clients, TakePc, LeavePc, CreatePc
  <1>2. Users(k) \cap LegacyUsers(k) = {}
    BY DEF Users, LegacyUsers
  <1>3. IsFiniteSet(Users(k)) /\ IsFiniteSet(LegacyUsers(k))
    BY <1>1, HoldersFinite, FS_Subset
  <1>4. /\ Cardinality(Users(k)) \in Nat /\ Cardinality(LegacyUsers(k)) \in Nat
        /\ Cardinality(Users(k) \cup LegacyUsers(k))
             = Cardinality(Users(k)) + Cardinality(LegacyUsers(k))
    <2>1. Cardinality(Users(k) \cap LegacyUsers(k)) = 0
      BY <1>2, FS_EmptySet
    <2>2. /\ Cardinality(Users(k)) \in Nat /\ Cardinality(LegacyUsers(k)) \in Nat
      BY <1>3, FS_CardinalityType
    <2>3. Cardinality(Users(k) \cup LegacyUsers(k))
            = Cardinality(Users(k)) + Cardinality(LegacyUsers(k))
                - Cardinality(Users(k) \cap LegacyUsers(k))
      BY <1>3, FS_Union
    <2> QED
      BY <2>1, <2>2, <2>3
  <1>5. /\ Cardinality(Users(k) \cup LegacyUsers(k)) <= Cardinality(Holders(k))
        /\ Cardinality(Holders(k)) \in Nat
    BY <1>1, HoldersFinite, FewerHolders
  <1>6. CASE host_map[k] = None
    <2>1. Users(k) = {} /\ LegacyUsers(k) = {}
      BY <1>1, <1>6 DEF IInv, CountInv
    <2>2. Cardinality(Users(k)) = 0 /\ Cardinality(LegacyUsers(k)) = 0
      BY <2>1, FS_EmptySet
    <2> QED
      BY <1>6, <2>2
  <1>7. CASE host_map[k] # None
    BY <1>4, <1>5, <1>7 DEF IInv, CountInv, Types, LegacyTypeOK
  <1> QED
    BY <1>6, <1>7

\* So it does in every reachable state.
THEOREM CountsCover ==
  ASSUME Unprepared = {}
  PROVE  LegacySpec => []CountsBoth
  BY Invariance, CountedBoth, PTL

\* conn_map and host_map agree on the connection of a legacy client.
THEOREM MapsAgreement ==
  ASSUME Unprepared = {}
  PROVE  LegacySpec => []MapsAgree
  <1>1. IInv => MapsAgree
    <2> SUFFICES ASSUME IInv, NEW v \in VConns, vhost[v] # None, conn_map[v] # None
                 PROVE  conn_map[v] = host_map[vhost[v]]
      BY DEF MapsAgree
    <2>1. ASSUME NEW t \in Threads, pc[t] = "x_erase", hdl[t] = v PROVE FALSE
      BY <2>1, LegacyAssumption DEF IInv, SafeInv, ThreadInv, Leaving, LeavePc, Bound
    <2> QED
      BY <2>1 DEF IInv, LegacyInv, ConnInv
  <1> QED
    BY Invariance, <1>1, PTL

\* No pointer dangles, whichever request carries it.
THEOREM PointersSafe ==
  ASSUME Unprepared = {}
  PROVE  LegacySpec => []PointersHold
  <1>1. IInv => PointersHold
    <2> SUFFICES ASSUME IInv, NEW t \in Threads
                 PROVE  /\ cur[t] # None => cur[t] \in live
                        /\ pc[t] \in {"m_ready", "u_conn", "d_qp", "s_conn", "s_map", "p_conn"} =>
                             qp[cur[t]] = "made"
      BY DEF PointersHold, NoUseAfterFree
    <2>1. CASE pc[t] \in TakePc
      BY <2>1, Held DEF IInv, SafeInv, MapInv, ThreadInv, Taking, TakePc
    <2>2. CASE pc[t] \in BoundPc
      <3>1. /\ hdl[t] \in Clients /\ key[t] \in Keys /\ Bound(hdl[t]) = key[t]
            /\ host_map[key[t]] # None
        BY <2>2, Held DEF IInv, SafeInv, ThreadInv, Working
      <3>2. qp[host_map[key[t]]] = "made" /\ host_map[key[t]] \in live
        BY <3>1, HostMapAssumption DEF IInv, SafeInv, MapInv
      <3>3. cur[t] = IF pc[t] \in {"u_find", "p_find"} THEN None ELSE host_map[key[t]]
        BY <2>2 DEF IInv, SafeInv, ThreadInv, Working
      <3> QED
        BY <3>2, <3>3
    <2>3. CASE pc[t] \in FreePc
      BY <2>3 DEF IInv, SafeInv, ThreadInv, Freeing, FreePc
    <2>4. CASE pc[t] \in LeavePc \cup {"idle"}
      BY <2>4 DEF IInv, SafeInv, ThreadInv, Leaving, LeavePc
    <2>5. pc[t] \in TakePc \cup BoundPc \cup FreePc \cup LeavePc \cup {"idle"}
      BY DEF IInv, Types, LegacyTypeOK, TakePc, BoundPc, FreePc, LeavePc, ModifyPc, DestroyPc,
         UsePc, CreatePc, SetupPc, PostPc
    <2> QED
      BY <2>1, <2>2, <2>3, <2>4, <2>5
  <1> QED
    BY Invariance, <1>1, PTL

\* No request ends with hostmap_lock.mutex held, of either kind, as long as legacy
\* clients set up only what they were answered CREATE_RES for: a set-up of another
\* host jumps to kill at scalerouter.cpp:993 with the lock held, and a tear-down
\* of another takes the entry from under an IBV_MODIFY_QP, which jumps at 1755.
THEOREM HostLockReleased ==
  ASSUME Unprepared = {}
  PROVE  LegacySpec => []LockReleased
  <1>1. IInv => LockReleased
    BY DEF IInv
  <1> QED
    BY Invariance, <1>1, PTL

\* No two requests of either kind free the same connection.
THEOREM FreeOnce ==
  ASSUME Unprepared = {}
  PROVE  LegacySpec => []FreedOnce
  <1>1. IInv => FreedOnce
    BY DEF IInv, SafeInv
  <1> QED
    BY Invariance, <1>1, PTL

-----------------------------------------------------------------------------
(* Orderly clients of both kinds, who never ask again for a connection they *)
(* are bound to (~Reconnect): the count is exact, and the two interfaces    *)
(* together implement one table of shared connections.                      *)

\* The state of the connection of a host.
ConnState(k) ==
  IF host_map[k] = None THEN "down"
  ELSE IF status[host_map[k]] = 4 THEN "ready" ELSE "up"

\* The table of SharedConn, whose handles are the clients of both kinds.
Both == INSTANCE SharedConn
  WITH Handles <- Clients,
       users <- [k \in Keys |-> Holders(k)],
       conn <- [k \in Keys |-> ConnState(k)]

Table == <<[k \in Keys |-> Holders(k)], [k \in Keys |-> ConnState(k)]>>

\* An orderly client is not bound while a request takes a connection for it.
BindInv == \A t \in Threads : pc[t] \in TakePc => Bound(hdl[t]) = None

\* "reference counting of virtual conn_ids" (scalerouter.h:97) as it is meant:
\* the count of a connection is the number of clients, of either kind, that hold
\* it, and the connection is in host_map exactly while there are any.
BothExact ==
  \A k \in Keys :
    IF host_map[k] = None THEN Holders(k) = {}
    ELSE /\ Holders(k) # {}
         /\ ref_cnt[host_map[k]] = Cardinality(Holders(k))

OrderlyInv == IInv /\ status \in [Conns -> {0, 4}] /\ BindInv /\ BothExact

\* What a step must preserve for orderly clients, and do to the table.
Orderly ==
  status' \in [Conns -> {0, 4}] /\ BindInv' /\ BothExact' /\ [Both!Next]_Table

\* The thread that takes the step holds a connection before and after it, in
\* the same way, or neither before nor after.
HoldsAlike(t) ==
  /\ \A u \in Threads \ {t} : pc'[u] = pc[u] /\ hdl'[u] = hdl[u] /\ key'[u] = key[u]
  /\ \/ pc[t] \notin TakePc \cup LeavePc /\ pc'[t] \notin TakePc \cup LeavePc
     \/ /\ hdl'[t] = hdl[t] /\ key'[t] = key[t]
        /\ \/ pc[t] \in TakePc /\ pc'[t] \in TakePc
           \/ pc[t] \in LeavePc /\ pc'[t] \in LeavePc

\* What makes a step an Acquire of the table, in terms of holders and states.
LEMMA AcquireStep ==
  ASSUME NEW h \in Clients, NEW k \in Keys,
         \A l \in Keys : h \notin Holders(l),
         \A l \in Keys : Holders(l)' = IF l = k THEN Holders(l) \cup {h} ELSE Holders(l),
         \A l \in Keys : ConnState(l)' =
           IF l = k /\ ConnState(l) = "down" THEN "up" ELSE ConnState(l)
  PROVE  [Both!Next]_Table
  <1>1. Both!Acquire(h, k)
    BY DEF Both!Acquire
  <1> QED
    BY <1>1 DEF Both!Next

\* What makes one an Establish.
LEMMA EstablishStep ==
  ASSUME NEW k \in Keys,
         \A l \in Keys : Holders(l)' = Holders(l),
         ConnState(k) = "up",
         \A l \in Keys : ConnState(l)' = IF l = k THEN "ready" ELSE ConnState(l)
  PROVE  [Both!Next]_Table
  <1>1. Both!Establish(k)
    BY DEF Both!Establish
  <1> QED
    BY <1>1 DEF Both!Next

\* What makes one a Release.
LEMMA ReleaseStep ==
  ASSUME NEW h \in Clients, NEW k \in Keys, h \in Holders(k),
         \A l \in Keys : Holders(l)' = IF l = k THEN Holders(l) \ {h} ELSE Holders(l),
         \A l \in Keys : ConnState(l)' =
           IF l = k /\ Holders(k) = {h} THEN "down" ELSE ConnState(l)
  PROVE  [Both!Next]_Table
  <1>1. Both!Release(h, k)
    BY DEF Both!Release
  <1> QED
    BY <1>1 DEF Both!Next

\* A step after which every connection has the same holders, count and state is
\* a stuttering step of the table.
LEMMA SameTable ==
  ASSUME OrderlyInv, BindInv', UNCHANGED <<host_map, ref_cnt, status>>,
         \A k \in Keys : Holders(k)' = Holders(k)
  PROVE  Orderly
  <1>1. BothExact'
    BY DEF OrderlyInv, BothExact
  <1>2. UNCHANGED Table
    BY DEF Table, ConnState
  <1> QED
    BY <1>1, <1>2 DEF Orderly, OrderlyInv

AnyPc ==
  {"idle"} \cup ModifyPc \cup DestroyPc \cup UsePc \cup CreatePc \cup SetupPc \cup PostPc
    \cup {"x_erase"}

\* The types of the variables that say who holds what.
LEMMA HolderTypes ==
  ASSUME IInv
  PROVE  /\ pc \in [Threads -> AnyPc] /\ hdl \in [Threads -> Clients \cup {None}]
         /\ key \in [Threads -> Keys \cup {None}]
         /\ src_qp_map \in [Handles -> Keys \cup {None}]
         /\ vhost \in [VConns -> Keys \cup {None}]
  BY DEF IInv, Types, LegacyTypeOK, AnyPc, Clients

\* With the bindings unchanged, and the thread holding what it held, so are
\* the holders.
LEMMA HeldAlike ==
  ASSUME OrderlyInv, NEW t \in Threads, HoldsAlike(t), UNCHANGED <<src_qp_map, vhost>>
  PROVE  BindInv' /\ \A k \in Keys : Holders(k)' = Holders(k)
  <1>1. \A h : Bound(h)' = Bound(h)
    BY DEF Bound
  <1>2. BindInv'
    BY <1>1 DEF OrderlyInv, BindInv, HoldsAlike, TakePc, LeavePc
  <1>3. ASSUME NEW k \in Keys, NEW h \in Clients
        PROVE  (\E u \in Threads : hdl'[u] = h /\ key'[u] = k /\ pc'[u] \in TakePc \cup LeavePc)
                 <=> \E u \in Threads : hdl[u] = h /\ key[u] = k /\ pc[u] \in TakePc \cup LeavePc
    BY DEF HoldsAlike
  <1>4. \A k \in Keys : Holders(k)' = Holders(k)
    BY <1>1, <1>3 DEF Holders
  <1> QED
    BY <1>2, <1>4

\* The steps of a virtual QP's request in which it neither takes nor gives back
\* a connection, binds or connects.
LEMMA QuietTable ==
  ASSUME OrderlyInv, NEW t \in Threads, UNCHANGED legacy,
         \/ ModifyCreate(t) \/ ModifyCreateFails(t) \/ ModifyReuse(t)
         \/ ModifyTell(t) \/ ModifyWait(t) \/ ModifyFind(t) \/ ModifyNotReady(t)
         \/ DestroyQp(t) \/ DestroyFree(t) \/ UseFind(t) \/ UseConn(t)
         \/ \E h \in Handles : UseLookup(t, h)
  PROVE  Orderly
  <1>1. UNCHANGED <<host_map, ref_cnt, status, src_qp_map, vhost>>
    BY DEF ModifyCreate, ModifyCreateFails, ModifyReuse, ModifyTell, ModifyWait, ModifyFind,
           ModifyNotReady, DestroyQp, DestroyFree, UseFind, UseConn, UseLookup, fields, legacy
  <1>2. /\ pc \in [Threads -> AnyPc] /\ hdl \in [Threads -> Clients \cup {None}]
        /\ key \in [Threads -> Keys \cup {None}]
    BY HolderTypes DEF OrderlyInv
  <1>3. HoldsAlike(t)
    <2> USE <1>2 DEF HoldsAlike, TakePc, LeavePc, Begin, Goto, Done, locals
    <2>1. CASE ModifyCreate(t)
      BY <2>1 DEF ModifyCreate
    <2>2. CASE ModifyCreateFails(t)
      BY <2>2 DEF ModifyCreateFails
    <2>3. CASE ModifyReuse(t)
      BY <2>3 DEF ModifyReuse
    <2>4. CASE ModifyTell(t)
      BY <2>4 DEF ModifyTell
    <2>5. CASE ModifyWait(t)
      BY <2>5 DEF ModifyWait
    <2>6. CASE ModifyFind(t)
      BY <2>6 DEF ModifyFind
    <2>7. CASE ModifyNotReady(t)
      BY <2>7 DEF ModifyNotReady
    <2>8. CASE DestroyQp(t)
      BY <2>8 DEF DestroyQp
    <2>9. CASE DestroyFree(t)
      BY <2>9 DEF DestroyFree
    <2>10. CASE UseFind(t)
      BY <2>10 DEF UseFind
    <2>11. CASE UseConn(t)
      BY <2>11 DEF UseConn
    <2>12. CASE \E h \in Handles : UseLookup(t, h)
      BY <2>12 DEF UseLookup
    <2> QED
      BY <2>1, <2>2, <2>3, <2>4, <2>5, <2>6, <2>7, <2>8, <2>9, <2>10, <2>11, <2>12
  <1> QED
    BY <1>1, <1>3, HeldAlike, SameTable

\* Likewise those of a legacy client's.
LEMMA QuietLegacyTable ==
  ASSUME OrderlyInv, NEW t \in Threads,
         \/ CreateFails(t) \/ SetupMap(t) \/ PostFind(t) \/ PostConn(t) \/ PostFails(t)
         \/ EraseConn(t)
         \/ \E v \in VConns, k \in LegacyKeys : SetupFind(t, v, k) \/ PostRequest(t, v, k)
  PROVE  Orderly
  <1>1. UNCHANGED <<host_map, ref_cnt, status, src_qp_map, vhost>>
    BY DEF CreateFails, SetupMap, PostFind, PostConn, PostFails, EraseConn, SetupFind,
           PostRequest, fields, legacy
  <1>2. /\ pc \in [Threads -> AnyPc] /\ hdl \in [Threads -> Clients \cup {None}]
        /\ key \in [Threads -> Keys \cup {None}]
    BY HolderTypes DEF OrderlyInv
  <1>3. HoldsAlike(t)
    <2> USE <1>2 DEF HoldsAlike, TakePc, LeavePc, Begin, Goto, Done, locals
    <2>1. CASE CreateFails(t)
      BY <2>1 DEF CreateFails
    <2>2. CASE SetupMap(t)
      BY <2>2 DEF SetupMap
    <2>3. CASE PostFind(t)
      BY <2>3 DEF PostFind
    <2>4. CASE PostConn(t)
      BY <2>4 DEF PostConn
    <2>5. CASE PostFails(t)
      BY <2>5 DEF PostFails
    <2>6. CASE EraseConn(t)
      BY <2>6 DEF EraseConn
    <2>7. ASSUME NEW v \in VConns, NEW k \in LegacyKeys, SetupFind(t, v, k)
         PROVE  HoldsAlike(t)
      BY <2>7 DEF SetupFind
    <2>8. ASSUME NEW v \in VConns, NEW k \in LegacyKeys, PostRequest(t, v, k)
         PROVE  HoldsAlike(t)
      BY <2>8 DEF PostRequest
    <2> QED
      BY <2>1, <2>2, <2>3, <2>4, <2>5, <2>6, <2>7, <2>8
  <1> QED
    BY <1>1, <1>3, HeldAlike, SameTable

\* A peer's message changes nothing here.
LEMMA RemoteTable ==
  ASSUME OrderlyInv, UNCHANGED <<locals, host_map, src_qp_map, fields, legacy>>
  PROVE  Orderly
  <1>1. UNCHANGED <<pc, hdl, key, host_map, ref_cnt, status, src_qp_map, vhost>>
    BY DEF locals, fields, legacy
  <1>2. \A h : Bound(h)' = Bound(h)
    BY <1>1 DEF Bound
  <1>3. \A k \in Keys : Holders(k)' = Holders(k)
    BY <1>1, <1>2 DEF Holders
  <1>4. BindInv'
    BY <1>1, <1>2 DEF OrderlyInv, BindInv
  <1> QED
    BY <1>1, <1>3, <1>4, SameTable

\* A client is bound to the connection that its request holds, and the request
\* holds it no longer, or is unbound from it while its request holds it: the
\* holders stay.
LEMMA BoundAlike ==
  ASSUME OrderlyInv, NEW t \in Threads, NEW h \in Clients, NEW k \in Keys,
         \A u \in Threads \ {t} :
           pc'[u] = pc[u] /\ hdl'[u] = hdl[u] /\ key'[u] = key[u] /\ hdl[u] # h,
         \A g \in Clients \ {h} : Bound(g)' = Bound(g),
         \/ /\ Bound(h) = None /\ hdl[t] = h /\ key[t] = k /\ pc[t] \in TakePc
            /\ Bound(h)' = k /\ pc'[t] \notin TakePc \cup LeavePc
         \/ /\ Bound(h) = k /\ pc[t] = "idle"
            /\ Bound(h)' = None /\ hdl'[t] = h /\ key'[t] = k /\ pc'[t] \in LeavePc
  PROVE  BindInv' /\ \A l \in Keys : Holders(l)' = Holders(l)
  <1> USE HostMapAssumption DEF TakePc, LeavePc
  <1>1. ASSUME NEW u \in Threads, NEW g, g = hdl'[u], pc'[u] \in TakePc
        PROVE  Bound(g)' = None
    <2>1. u # t
      BY <1>1
    <2>2. pc[u] \in TakePc /\ g = hdl[u] /\ g # h
      BY <1>1, <2>1
    <2>3. g \in Clients /\ Bound(g) = None
      BY <2>2, Held DEF OrderlyInv, BindInv
    <2> QED
      BY <2>2, <2>3
  <1>2. BindInv'
    BY <1>1 DEF BindInv, Bound
  <1>3. ASSUME NEW l \in Keys, NEW g \in Clients PROVE g \in Holders(l)' <=> g \in Holders(l)
    <2>1. CASE g = h
      BY <2>1 DEF Holders
    <2>2. CASE g # h
      <3>1. (\E u \in Threads : hdl'[u] = g /\ key'[u] = l /\ pc'[u] \in TakePc \cup LeavePc)
              <=> \E u \in Threads : hdl[u] = g /\ key[u] = l /\ pc[u] \in TakePc \cup LeavePc
        BY <2>2
      <3> QED
        BY <2>2, <3>1 DEF Holders
    <2> QED
      BY <2>1, <2>2
  <1>4. \A l \in Keys : Holders(l)' = Holders(l)
    BY <1>3 DEF Holders
  <1> QED
    BY <1>2, <1>4

\* IBV_MODIFY_QP and CREATE_RES bind the client to what was taken for it;
\* IBV_DESTROY_QP and DESTROY_RES unbind it first.
LEMMA BindTable ==
  ASSUME OrderlyInv, NEW t \in Threads,
         \/ ModifySrc(t) /\ UNCHANGED legacy
         \/ \E h \in Handles : DestroyUnbind(t, h) /\ UNCHANGED legacy
         \/ CreateDone(t) \/ CreateReuse(t)
         \/ \E v \in VConns, k \in LegacyKeys : EraseRequest(t, v, k)
  PROVE  Orderly
  <1> USE HostMapAssumption, LegacyAssumption
  <1>1. UNCHANGED <<host_map, ref_cnt, status>>
    BY DEF ModifySrc, DestroyUnbind, CreateDone, CreateReuse, EraseRequest, fields
  <1>2. /\ pc \in [Threads -> AnyPc] /\ hdl \in [Threads -> Clients \cup {None}]
        /\ key \in [Threads -> Keys \cup {None}]
        /\ src_qp_map \in [Handles -> Keys \cup {None}]
        /\ vhost \in [VConns -> Keys \cup {None}]
    BY HolderTypes DEF OrderlyInv
  <1>3. ASSUME pc[t] \in TakePc
        PROVE  /\ hdl[t] \in Clients /\ key[t] \in Keys /\ Bound(hdl[t]) = None
               /\ pc[t] \in CreatePc <=> hdl[t] \in VConns
               /\ \A u \in Threads \ {t} : hdl[u] # hdl[t]
    <2>1. hdl[t] \in Clients /\ key[t] \in Keys /\ Bound(hdl[t]) = None
      BY <1>3, Held DEF OrderlyInv, BindInv
    <2>2. pc[t] \in CreatePc <=> hdl[t] \in VConns
      BY <1>3 DEF OrderlyInv, IInv, SafeInv, ThreadInv, Taking
    <2>3. \A u \in Threads \ {t} : hdl[u] # hdl[t]
      BY <1>3, <2>1 DEF OrderlyInv, IInv, SafeInv, Exclusive, TakePc, UsePc, PostPc, Clients
    <2> QED
      BY <2>1, <2>2, <2>3
  <1>4. CASE ModifySrc(t) /\ UNCHANGED legacy
    <2>1. pc[t] = "m_src" /\ "m_src" \in TakePc /\ "m_src" \notin CreatePc
      BY <1>4 DEF ModifySrc, TakePc, CreatePc
    <2>2. PICK h \in Handles : h = hdl[t]
      BY <1>3, <2>1 DEF Clients
    <2>3. h \in Clients /\ Bound(h)' = key[t] /\ \A g \in Clients \ {h} : Bound(g)' = Bound(g)
      BY <1>2, <1>4, <2>2 DEF ModifySrc, Bound, legacy, Clients
    <2>4. /\ pc'[t] = "m_tell" /\ "m_tell" \notin TakePc \cup LeavePc
          /\ \A u \in Threads \ {t} : pc'[u] = pc[u] /\ hdl'[u] = hdl[u] /\ key'[u] = key[u]
      BY <1>2, <1>4 DEF ModifySrc, Goto, TakePc, LeavePc
    <2> QED
      BY <1>1, <1>3, <2>1, <2>2, <2>3, <2>4, BoundAlike, SameTable
  <1>5. ASSUME NEW h \in Handles, DestroyUnbind(t, h), UNCHANGED legacy PROVE Orderly
    <2>1. /\ h \in Clients /\ src_qp_map[h] \in Keys /\ Bound(h) = src_qp_map[h]
          /\ pc[t] = "idle" /\ \A u \in Threads : hdl[u] # h
      BY <1>2, <1>5 DEF DestroyUnbind, NoCallOn, Bound, Clients
    <2>2. Bound(h)' = None /\ \A g \in Clients \ {h} : Bound(g)' = Bound(g)
      BY <1>2, <1>5 DEF DestroyUnbind, Bound, legacy, Clients
    <2>3. /\ hdl'[t] = h /\ key'[t] = src_qp_map[h] /\ pc'[t] \in LeavePc
          /\ \A u \in Threads \ {t} : pc'[u] = pc[u] /\ hdl'[u] = hdl[u] /\ key'[u] = key[u]
      BY <1>2, <1>5 DEF DestroyUnbind, Begin, LeavePc
    <2> QED
      BY <1>1, <2>1, <2>2, <2>3, BoundAlike, SameTable
  <1>6. ASSUME pc[t] \in CreatePc, Answered(t), UNCHANGED src_qp_map PROVE Orderly
    <2> PICK h : h = hdl[t]
      OBVIOUS
    <2>1. pc[t] \in TakePc /\ h \in VConns /\ h \notin Handles /\ h \in Clients
      BY <1>3, <1>6 DEF TakePc, CreatePc
    <2>2. Bound(h)' = key[t] /\ \A g \in Clients \ {h} : Bound(g)' = Bound(g)
      BY <1>2, <1>6, <2>1 DEF Answered, Bound, Clients
    <2>3. /\ pc'[t] = "idle" /\ "idle" \notin TakePc \cup LeavePc
          /\ \A u \in Threads \ {t} : pc'[u] = pc[u] /\ hdl'[u] = hdl[u] /\ key'[u] = key[u]
      BY <1>2, <1>6 DEF Answered, Done, Begin, TakePc, LeavePc
    <2> QED
      BY <1>1, <1>3, <2>1, <2>2, <2>3, BoundAlike, SameTable
  <1>7. CASE CreateDone(t)
    BY <1>6, <1>7 DEF CreateDone, CreatePc
  <1>8. CASE CreateReuse(t)
    <2>1. CASE Answered(t)
      BY <1>6, <1>8, <2>1 DEF CreateReuse, CreatePc
    <2>2. CASE UNCHANGED <<locals, vhost>>
      <3>1. UNCHANGED <<locals, host_map, src_qp_map, fields, legacy>>
        BY <1>8, <2>2 DEF CreateReuse, legacy
      <3> QED
        BY <3>1, RemoteTable
    <2> QED
      BY <1>8, <2>1, <2>2 DEF CreateReuse
  <1>9. ASSUME NEW v \in VConns, NEW k \in LegacyKeys, EraseRequest(t, v, k) PROVE Orderly
    <2>0. vhost[v] = k
      BY <1>9, NamesOwn DEF OrderlyInv, EraseRequest
    <2>1. /\ v \in Clients /\ v \notin Handles /\ vhost[v] \in Keys /\ Bound(v) = vhost[v]
          /\ pc[t] = "idle" /\ \A u \in Threads : hdl[u] # v
      BY <1>2, <1>9, <2>0, NamesOwn DEF OrderlyInv, EraseRequest, NoCallOn, Bound, Clients
    <2>2. Bound(v)' = None /\ \A g \in Clients \ {v} : Bound(g)' = Bound(g)
      BY <1>2, <1>9, <2>1 DEF EraseRequest, Bound, Clients
    <2>3. /\ hdl'[t] = v /\ key'[t] = vhost[v] /\ pc'[t] \in LeavePc
          /\ \A u \in Threads \ {t} : pc'[u] = pc[u] /\ hdl'[u] = hdl[u] /\ key'[u] = key[u]
      BY <1>2, <1>9, <2>0 DEF EraseRequest, Begin, LeavePc
    <2> QED
      BY <1>1, <2>1, <2>2, <2>3, BoundAlike, SameTable
  <1> QED
    BY <1>4, <1>5, <1>7, <1>8, <1>9

\* Whoever connects first establishes the connection, an IBV_MODIFY_QP or a
\* SETUP_CONN; for the next one nothing changes.
LEMMA ConnectTable ==
  ASSUME OrderlyInv, NEW t \in Threads,
         (ModifyReady(t) /\ UNCHANGED legacy) \/ SetupConn(t)
  PROVE  Orderly
  <1> USE HostMapAssumption
  <1> PICK k : k = key[t]
    OBVIOUS
  <1>1. pc[t] \in {"m_ready", "s_conn"}
    BY DEF ModifyReady, SetupConn
  <1>2. k \in Keys /\ cur[t] = host_map[k] /\ cur[t] \in Conns
    BY <1>1, Held DEF OrderlyInv, IInv, SafeInv, ThreadInv, Working, BoundPc
  <1>3. UNCHANGED <<host_map, ref_cnt, src_qp_map, vhost>>
    BY DEF ModifyReady, SetupConn, legacy
  <1>4. HoldsAlike(t)
    <2>1. /\ pc \in [Threads -> AnyPc] /\ hdl \in [Threads -> Clients \cup {None}]
          /\ key \in [Threads -> Keys \cup {None}]
      BY HolderTypes DEF OrderlyInv
    <2> QED
      BY <1>1, <2>1 DEF ModifyReady, SetupConn, HoldsAlike, TakePc, LeavePc, Done, Begin, Goto
  <1>5. BindInv' /\ \A l \in Keys : Holders(l)' = Holders(l)
    BY <1>3, <1>4, HeldAlike
  <1>6. BothExact'
    BY <1>3, <1>5 DEF OrderlyInv, BothExact
  <1>7. status' = status \/ status' = [status EXCEPT ![cur[t]] = 4]
    BY DEF ModifyReady, SetupConn
  <1>8. CASE status' = status
    BY <1>3, <1>5, <1>8, SameTable
  <1>9. CASE status' = [status EXCEPT ![cur[t]] = 4]
    <2>1. /\ status' \in [Conns -> {0, 4}] /\ status'[cur[t]] = 4 /\ cur[t] # None
          /\ \A c \in Conns \ {cur[t]} : status'[c] = status[c]
      BY <1>2, <1>9 DEF OrderlyInv
    <2>2. ConnState(k)' = "ready" /\ ConnState(k) \in {"up", "ready"}
      BY <1>2, <1>3, <2>1 DEF ConnState
    <2>3. \A l \in Keys \ {k} : ConnState(l)' = ConnState(l)
      BY <1>2, <1>3, <2>1 DEF ConnState, OrderlyInv, IInv, SafeInv, MapInv, Types
    <2>4. CASE ConnState(k) = "up"
      BY <1>2, <1>5, <1>6, <2>1, <2>2, <2>3, <2>4, EstablishStep DEF Orderly
    <2>5. CASE ConnState(k) = "ready"
      <3>1. UNCHANGED Table
        BY <1>5, <2>2, <2>3, <2>5 DEF Table
      <3> QED
        BY <1>5, <1>6, <2>1, <3>1 DEF Orderly
    <2> QED
      BY <2>2, <2>4, <2>5
  <1> QED
    BY <1>7, <1>8, <1>9

\* With the bindings unchanged, a request that begins to take the connection of
\* host k for a client makes it one more holder.
LEMMA OneMore ==
  ASSUME OrderlyInv, NEW t \in Threads, NEW g \in Clients, NEW k \in Keys,
         NEW c, NEW p \in TakePc,
         pc[t] = "idle", NoCallOn(g), Bound(g) = None, Begin(t, g, k, c, p),
         UNCHANGED <<src_qp_map, vhost>>
  PROVE  /\ BindInv'
         /\ \A l \in Keys : g \notin Holders(l)
         /\ \A l \in Keys : Holders(l)' = IF l = k THEN Holders(l) \cup {g} ELSE Holders(l)
  <1> USE HostMapAssumption
  <1>1. \A h : Bound(h)' = Bound(h)
    BY DEF Bound
  <1>2. \A u \in Threads : hdl[u] # g
    BY DEF NoCallOn
  <1>3. /\ pc'[t] = p /\ hdl'[t] = g /\ key'[t] = k
        /\ \A u \in Threads \ {t} : pc'[u] = pc[u] /\ hdl'[u] = hdl[u] /\ key'[u] = key[u]
    BY HolderTypes DEF Begin, OrderlyInv
  <1>4. BindInv'
    <2>1. ASSUME NEW u \in Threads, NEW h, h = hdl'[u], pc'[u] \in TakePc
          PROVE  Bound(h)' = None
      BY <1>1, <1>3, <2>1 DEF OrderlyInv, BindInv
    <2> QED
      BY <2>1 DEF BindInv, Bound
  <1>5. \A l \in Keys : g \notin Holders(l)
    BY <1>2 DEF Holders
  <1>6. "idle" \notin TakePc \cup LeavePc
    BY DEF TakePc, LeavePc
  <1>7. ASSUME NEW l \in Keys, NEW h \in Clients
        PROVE  h \in Holders(l)' <=> h \in Holders(l) \/ (l = k /\ h = g)
    <2>1. (\E u \in Threads : hdl'[u] = h /\ key'[u] = l /\ pc'[u] \in TakePc \cup LeavePc)
            <=> \/ \E u \in Threads : hdl[u] = h /\ key[u] = l /\ pc[u] \in TakePc \cup LeavePc
                \/ l = k /\ h = g
      BY <1>3, <1>6
    <2> QED
      BY <1>1, <2>1 DEF Holders
  <1>8. \A l \in Keys : Holders(l)' = IF l = k THEN Holders(l) \cup {g} ELSE Holders(l)
    BY <1>7 DEF Holders
  <1> QED
    BY <1>4, <1>5, <1>8

\* A client that is free takes a connection that was down.
LEMMA NewTable ==
  ASSUME OrderlyInv, NEW t \in Threads, NEW g \in Clients, NEW k \in Keys, NEW c \in Conns,
         NEW p \in TakePc,
         pc[t] = "idle", NoCallOn(g), Bound(g) = None, NotFound(k), c \notin live,
         Begin(t, g, k, c, p),
         ref_cnt' = [ref_cnt EXCEPT ![c] = InitialRefs],
         status' = [status EXCEPT ![c] = 0],
         host_map' = [host_map EXCEPT ![k] = c],
         UNCHANGED <<src_qp_map, vhost>>
  PROVE  Orderly
  <1> USE HostMapAssumption DEF OrderlyInv
  <1>1. /\ host_map \in [Keys -> Conns \cup {None}] /\ ref_cnt \in [Conns -> Nat]
        /\ status \in [Conns -> {0, 4}]
    BY DEF IInv, Types, LegacyTypeOK
  <1>2. /\ BindInv'
        /\ \A l \in Keys : g \notin Holders(l)
        /\ \A l \in Keys : Holders(l)' = IF l = k THEN Holders(l) \cup {g} ELSE Holders(l)
    BY OneMore
  <1>3. Holders(k)' = {g}
    BY <1>2, Unmapped DEF NotFound
  <1>4. host_map'[k] = c /\ \A l \in Keys \ {k} : host_map'[l] = host_map[l]
    BY <1>1
  <1>5. \A l \in Keys \ {k} : host_map[l] # None => host_map[l] # c /\ host_map[l] \in Conns
    BY <1>1 DEF IInv, SafeInv, MapInv
  <1>6. BothExact'
    <2> SUFFICES ASSUME NEW l \in Keys
                 PROVE  IF host_map'[l] = None THEN Holders(l)' = {}
                        ELSE /\ Holders(l)' # {}
                             /\ ref_cnt'[host_map'[l]] = Cardinality(Holders(l)')
      BY DEF BothExact
    <2>1. CASE l = k
      <3>1. Cardinality({g}) = 1
        BY FS_Singleton
      <3> QED
        BY <1>1, <1>3, <1>4, <2>1, <3>1 DEF InitialRefs
    <2>2. CASE l # k
      BY <1>1, <1>2, <1>4, <1>5, <2>2 DEF BothExact
    <2> QED
      BY <2>1, <2>2
  <1>7. ConnState(k) = "down" /\ ConnState(k)' = "up"
    BY <1>1, <1>4 DEF ConnState, NotFound
  <1>8. \A l \in Keys \ {k} : ConnState(l)' = ConnState(l)
    BY <1>1, <1>4, <1>5 DEF ConnState
  <1>9. status' \in [Conns -> {0, 4}]
    BY <1>1
  <1> QED
    BY <1>2, <1>6, <1>7, <1>8, <1>9, AcquireStep DEF Orderly

\* A client that is free takes a connection that is there already, be it held
\* by clients of its own kind or of the other.
LEMMA ShareTable ==
  ASSUME OrderlyInv, NEW t \in Threads, NEW g \in Clients, NEW k \in Keys, NEW p \in TakePc,
         pc[t] = "idle", NoCallOn(g), Bound(g) = None, ~NotFound(k),
         Begin(t, g, k, host_map[k], p), ref_cnt' = RefTaken(host_map[k]),
         UNCHANGED <<host_map, status, src_qp_map, vhost>>
  PROVE  Orderly
  <1> USE HostMapAssumption DEF OrderlyInv
  <1>1. /\ host_map \in [Keys -> Conns \cup {None}] /\ ref_cnt \in [Conns -> Nat]
        /\ status \in [Conns -> {0, 4}]
    BY DEF IInv, Types, LegacyTypeOK
  <1>2. /\ BindInv'
        /\ \A l \in Keys : g \notin Holders(l)
        /\ \A l \in Keys : Holders(l)' = IF l = k THEN Holders(l) \cup {g} ELSE Holders(l)
    BY OneMore
  <1>3. host_map[k] \in Conns /\ host_map[k] # None
    BY <1>1 DEF NotFound
  <1>4. \A l \in Keys \ {k} : host_map[l] # host_map[k]
    BY <1>3 DEF IInv, SafeInv, MapInv
  <1>5. BothExact'
    <2> SUFFICES ASSUME NEW l \in Keys
                 PROVE  IF host_map[l] = None THEN Holders(l)' = {}
                        ELSE /\ Holders(l)' # {}
                             /\ ref_cnt'[host_map[l]] = Cardinality(Holders(l)')
      BY DEF BothExact
    <2>1. CASE l = k
      <3>1. Cardinality(Holders(k) \cup {g}) = Cardinality(Holders(k)) + 1
        BY <1>2, HoldersFinite, FS_AddElement
      <3>2. ref_cnt[host_map[k]] = Cardinality(Holders(k))
        BY <1>3 DEF BothExact
      <3> QED
        BY <1>1, <1>2, <1>3, <2>1, <3>1, <3>2 DEF RefTaken
    <2>2. CASE l # k
      BY <1>1, <1>2, <1>3, <1>4, <2>2 DEF BothExact, RefTaken
    <2> QED
      BY <2>1, <2>2
  <1>6. \A l \in Keys : ConnState(l)' = ConnState(l)
    BY DEF ConnState
  <1>7. ConnState(k) # "down"
    BY <1>3 DEF ConnState
  <1> QED
    BY <1>1, <1>2, <1>5, <1>6, <1>7, AcquireStep DEF Orderly

\* One holder less; the last one, of whichever kind, takes the connection down.
LEMMA DropTable ==
  ASSUME OrderlyInv, NEW t \in Threads, DestroyDrop(t), UNCHANGED legacy
  PROVE  Orderly
  <1> USE HostMapAssumption DEF OrderlyInv
  <1> PICK h, k, c : h = hdl[t] /\ k = key[t] /\ c = host_map[key[t]]
    OBVIOUS
  <1>1. /\ host_map \in [Keys -> Conns \cup {None}] /\ ref_cnt \in [Conns -> Nat]
        /\ status \in [Conns -> {0, 4}]
    BY DEF IInv, Types, LegacyTypeOK
  <1>2. /\ k \in Keys /\ c \in Conns /\ c # None /\ host_map[k] = c
        /\ pc[t] = "d_drop" /\ h \in Holders(k) /\ h \in Clients
    BY LastHolder, HoldersFinite DEF DestroyDrop
  <1>3. Bound(h) = None
    BY <1>2 DEF IInv, SafeInv, ThreadInv, Leaving, LeavePc
  <1>4. /\ ref_cnt' = [ref_cnt EXCEPT ![c] = @ - 1]
        /\ IF LastRef(c)
           THEN /\ host_map' = [host_map EXCEPT ![k] = None]
                /\ Begin(t, h, k, c, "d_qp")
           ELSE Done(t) /\ UNCHANGED host_map
        /\ UNCHANGED <<src_qp_map, vhost, status>>
    BY <1>2 DEF DestroyDrop, Erased, legacy
  <1>5. \A u \in Threads \ {t} : hdl[u] # h
    <2>1. h # None /\ "d_drop" \notin UsePc \cup PostPc
      BY <1>2, ClientsFinite DEF UsePc, PostPc
    <2> QED
      BY <1>2, <2>1 DEF IInv, SafeInv, Exclusive
  <1>6. /\ pc'[t] \in {"idle", "d_qp"}
        /\ \A u \in Threads \ {t} : pc'[u] = pc[u] /\ hdl'[u] = hdl[u] /\ key'[u] = key[u]
    BY <1>4, HolderTypes DEF Begin, Done
  <1>7. pc'[t] \notin TakePc \cup LeavePc
    BY <1>6 DEF TakePc, LeavePc
  <1>8. \A g : Bound(g)' = Bound(g)
    BY <1>4 DEF Bound
  <1>9. BindInv'
    <2>1. ASSUME NEW u \in Threads, NEW g, g = hdl'[u], pc'[u] \in TakePc
          PROVE  Bound(g)' = None
      BY <1>6, <1>7, <1>8, <2>1 DEF BindInv
    <2> QED
      BY <2>1 DEF BindInv, Bound
  <1>10. ASSUME NEW l \in Keys, NEW g \in Clients
         PROVE  g \in Holders(l)' <=> g \in Holders(l) /\ ~(l = k /\ g = h)
    <2>1. (\E u \in Threads : hdl'[u] = g /\ key'[u] = l /\ pc'[u] \in TakePc \cup LeavePc)
            <=> \E u \in Threads \ {t} :
                  hdl[u] = g /\ key[u] = l /\ pc[u] \in TakePc \cup LeavePc
      BY <1>6, <1>7
    <2>2. CASE g = h
      BY <1>3, <1>5, <1>8, <2>1, <2>2 DEF Holders
    <2>3. CASE g # h
      BY <1>8, <2>1, <2>3 DEF Holders
    <2> QED
      BY <2>2, <2>3
  <1>11. \A l \in Keys : Holders(l)' = IF l = k THEN Holders(l) \ {h} ELSE Holders(l)
    BY <1>10 DEF Holders
  <1>12. /\ ref_cnt[c] = Cardinality(Holders(k)) /\ Cardinality(Holders(k)) \in Nat
         /\ Cardinality(Holders(k)) >= 1
         /\ Cardinality(Holders(k) \ {h}) = Cardinality(Holders(k)) - 1
         /\ Cardinality(Holders(k)) = 1 => Holders(k) = {h}
    BY <1>2, HoldersFinite, OneHolderLess DEF BothExact
  <1>13. LastRef(c) <=> Holders(k) = {h}
    <2>1. Cardinality({h}) = 1
      BY FS_Singleton
    <2>2. LastRef(c) <=> Cardinality(Holders(k)) = 1
      BY <1>12 DEF LastRef
    <2> QED
      BY <1>12, <2>1, <2>2
  <1>14. \A l \in Keys \ {k} : host_map[l] # c /\ host_map'[l] = host_map[l]
    BY <1>1, <1>2, <1>4 DEF IInv, SafeInv, MapInv
  <1>15. host_map'[k] = IF Holders(k) = {h} THEN None ELSE c
    BY <1>1, <1>2, <1>4, <1>13
  <1>16. /\ ref_cnt'[c] = ref_cnt[c] - 1
         /\ \A l \in Keys \ {k} : host_map[l] # None => ref_cnt'[host_map[l]] = ref_cnt[host_map[l]]
    BY <1>1, <1>2, <1>4, <1>14
  <1>17. BothExact'
    <2> SUFFICES ASSUME NEW l \in Keys
                 PROVE  IF host_map'[l] = None THEN Holders(l)' = {}
                        ELSE /\ Holders(l)' # {}
                             /\ ref_cnt'[host_map'[l]] = Cardinality(Holders(l)')
      BY DEF BothExact
    <2>1. CASE l = k
      BY <1>2, <1>11, <1>12, <1>15, <1>16, <2>1
    <2>2. CASE l # k
      BY <1>11, <1>14, <1>16, <2>2 DEF BothExact
    <2> QED
      BY <2>1, <2>2
  <1>18. \A l \in Keys : ConnState(l)' =
           IF l = k /\ Holders(k) = {h} THEN "down" ELSE ConnState(l)
    BY <1>2, <1>4, <1>14, <1>15 DEF ConnState
  <1> QED
    BY <1>1, <1>2, <1>4, <1>9, <1>11, <1>17, <1>18, ReleaseStep DEF Orderly

\* A client that may ask for a connection, of either kind, is not bound.
LEMMA TakeTable ==
  ASSUME ~Reconnect, OrderlyInv, NEW t \in Threads, NEW k \in Keys,
         \/ /\ \E h \in Handles : ModifyShare(t, h, k) \/ \E c \in Conns : ModifyNew(t, h, k, c)
            /\ UNCHANGED legacy
         \/ \E v \in VConns : CreateShare(t, v, k) \/ \E c \in Conns : CreateNew(t, v, k, c)
  PROVE  Orderly
  <1> USE DEF TakePc, Clients
  <1>1. ASSUME NEW h \in Handles, ModifyShare(t, h, k), UNCHANGED legacy PROVE Orderly
    <2>1. Bound(h) = None
      BY <1>1 DEF ModifyShare, Bound
    <2> QED
      BY <1>1, <2>1, ShareTable DEF ModifyShare, legacy
  <1>2. ASSUME NEW h \in Handles, NEW c \in Conns, ModifyNew(t, h, k, c), UNCHANGED legacy
        PROVE  Orderly
    <2>1. Bound(h) = None
      BY <1>2 DEF ModifyNew, Bound
    <2> QED
      BY <1>2, <2>1, NewTable DEF ModifyNew, legacy
  <1>3. ASSUME NEW v \in VConns, CreateShare(t, v, k) PROVE Orderly
    <2>1. Bound(v) = None
      BY <1>3, LegacyAssumption DEF CreateShare, MayCreate, Bound
    <2> QED
      BY <1>3, <2>1, ShareTable DEF CreateShare, legacy
  <1>4. ASSUME NEW v \in VConns, NEW c \in Conns, CreateNew(t, v, k, c) PROVE Orderly
    <2>1. Bound(v) = None
      BY <1>4, LegacyAssumption DEF CreateNew, MayCreate, Bound
    <2> QED
      BY <1>4, <2>1, NewTable DEF CreateNew, legacy
  <1> QED
    BY <1>1, <1>2, <1>3, <1>4

\* Every step of orderly clients keeps the counts exact, and is a step of the
\* table or a stutter.
LEMMA OrderlyStep ==
  ASSUME ~Reconnect
  PROVE  OrderlyInv /\ [LegacyNext]_allvars => OrderlyInv' /\ [Both!Next]_Table
  <1> SUFFICES ASSUME OrderlyInv, [LegacyNext]_allvars PROVE Orderly
    BY HostMapStepInv, LegacyStepInv, StutterInv DEF LegacyNext, OrderlyInv, Orderly
  <1>1. ASSUME UNCHANGED vars, UNCHANGED legacy PROVE Orderly
    BY <1>1, RemoteTable DEF vars
  <1>2. ASSUME NEW t \in Threads, Continue(t), UNCHANGED legacy PROVE Orderly
    BY <1>2, QuietTable, BindTable, ConnectTable, DropTable DEF Continue
  <1>3. ASSUME NEW t \in Threads, NEW h \in Handles, Request(t, h), UNCHANGED legacy
        PROVE  Orderly
    BY <1>3, TakeTable, BindTable, QuietTable DEF Request
  <1>4. ASSUME NEW k \in Keys, Remote(k), UNCHANGED legacy PROVE Orderly
    BY <1>4, RemoteTable DEF Remote, RemoteInsert, RemoteDelete
  <1>5. ASSUME NEW t \in Threads, LegacyContinue(t) PROVE Orderly
    BY <1>5, QuietLegacyTable, BindTable, ConnectTable, NoneDangles
       DEF LegacyContinue, OrderlyInv
  <1>6. ASSUME NEW t \in Threads, NEW v \in VConns, LegacyRequest(t, v) PROVE Orderly
    <2>1. \A k \in LegacyKeys : k \in Keys
      BY LegacyAssumption
    <2> QED
      BY <1>6, <2>1, TakeTable, BindTable, QuietLegacyTable DEF LegacyRequest
  <1> QED
    BY <1>1, <1>2, <1>3, <1>4, <1>5, <1>6 DEF LegacyNext, Next, Dead, allvars

\* With no thread under way and nothing bound the counts are exact, and the
\* table is empty.
LEMMA OrderlyInit ==
  ASSUME Unprepared = {}
  PROVE  LegacyInit => OrderlyInv /\ Both!Init
  <1> SUFFICES ASSUME LegacyInit PROVE OrderlyInv /\ Both!Init
    OBVIOUS
  <1>1. \A k \in Keys : Holders(k) = {}
    <2>1. \A h \in Clients : Bound(h) = None
      BY DEF LegacyInit, Init, Bound, Clients
    <2>2. \A t \in Threads : pc[t] \notin TakePc \cup LeavePc
      BY DEF LegacyInit, Init, TakePc, LeavePc
    <2> QED
      BY <2>1, <2>2, HostMapAssumption DEF Holders
  <1>2. IInv
    BY InitInv
  <1>3. BindInv /\ BothExact /\ status \in [Conns -> {0, 4}]
    BY <1>1 DEF LegacyInit, Init, BindInv, BothExact, TakePc
  <1>4. Both!Init
    BY <1>1 DEF LegacyInit, Init, Both!Init, ConnState
  <1> QED
    BY <1>2, <1>3, <1>4 DEF OrderlyInv

\* With orderly clients of both kinds the invariant holds in every reachable
\* state.
THEOREM OrderlyInvariance ==
  ASSUME ~Reconnect, Unprepared = {}
  PROVE  LegacySpec => []OrderlyInv
  BY OrderlyInit, OrderlyStep, PTL DEF LegacySpec

\* With orderly clients ref_cnt is the number of virtual QPs and legacy
\* connections that hold the conn_resources, and it is in host_map exactly while
\* there are any: neither interface leaks a reference to the other.
THEOREM CountsExact ==
  ASSUME ~Reconnect, Unprepared = {}
  PROVE  LegacySpec => []BothExact
  <1>1. OrderlyInv => BothExact
    BY DEF OrderlyInv
  <1> QED
    BY <1>1, OrderlyInvariance, PTL

\* With orderly clients the requests of both interfaces, interleaved in any way
\* and killed or not, implement one abstract table of shared connections, whose
\* holders are the virtual QPs and the legacy connections alike.
THEOREM BothRefine ==
  ASSUME ~Reconnect, Unprepared = {}
  PROVE  LegacySpec => Both!Spec
  <1>1. OrderlyInv /\ [LegacyNext]_allvars => [Both!Next]_Table
    BY OrderlyStep
  <1> QED
    BY <1>1, OrderlyInit, OrderlyInvariance, PTL
       DEF LegacySpec, Both!Spec, Table

-----------------------------------------------------------------------------
(* What virtual QPs are promised, now that legacy clients come and go on    *)
(* the same connections, whatever clients of either kind do.                *)

\* A ready QP is bound to a connection in RTS, and no request is setting it up
\* or tearing it down.
ReadyInv ==
  \A h \in ready :
    /\ src_qp_map[h] # None
    /\ status[host_map[src_qp_map[h]]] = 4
    /\ NoSetupOn(h)

ReadyTypes == status \in [Conns -> {0, 4}] /\ ready \subseteq Handles

ServiceInv == IInv /\ ReadyTypes /\ ReadyInv /\ NoLeak

\* What a step must preserve for the clients.
ReadyKept ==
  \A h \in ready \cap ready' : host_map'[src_qp_map'[h]] = host_map[src_qp_map[h]]

Service == ReadyTypes' /\ ReadyInv' /\ NoLeak' /\ ReadyKept

\* The step of a thread that neither begins to set up or tear down a QP that is
\* ready after it, nor forgets a connection that is to be freed.
QuietThread(t) ==
  /\ \A u \in Threads \ {t} : pc'[u] = pc[u] /\ hdl'[u] = hdl[u] /\ cur'[u] = cur[u]
  /\ hdl'[t] \in ready' =>
       pc'[t] \in UsePc \/ (hdl'[t] = hdl[t] /\ (pc[t] \in UsePc => pc'[t] \in UsePc))
  /\ pc[t] \in FreePc => pc'[t] \in FreePc /\ cur'[t] = cur[t]

\* A ready QP holds the connection of its host.
LEMMA ReadyHolds ==
  ASSUME ServiceInv, NEW h \in ready
  PROVE  /\ h \in Handles /\ src_qp_map[h] \in Keys /\ h \in Holders(src_qp_map[h])
         /\ host_map[src_qp_map[h]] \in Conns /\ host_map[src_qp_map[h]] # None
         /\ qp[host_map[src_qp_map[h]]] = "made"
  <1>1. h \in Handles /\ h \in Clients /\ Bound(h) = src_qp_map[h] /\ Bound(h) # None
    BY DEF ServiceInv, ReadyTypes, ReadyInv, Bound, Clients
  <1> QED
    BY <1>1, Held DEF ServiceInv, IInv, SafeInv, MapInv

\* The types of the variables that the promise is about.
LEMMA ServiceTypes ==
  ASSUME ServiceInv
  PROVE  /\ pc \in [Threads -> AnyPc] /\ hdl \in [Threads -> Clients \cup {None}]
         /\ key \in [Threads -> Keys \cup {None}] /\ cur \in [Threads -> Conns \cup {None}]
         /\ src_qp_map \in [Handles -> Keys \cup {None}]
         /\ host_map \in [Keys -> Conns \cup {None}]
         /\ status \in [Conns -> {0, 4}] /\ ready \subseteq Handles /\ live \subseteq Conns
  BY HolderTypes DEF ServiceInv, ReadyTypes, IInv, Types

\* The thread part of the promise: a QP that is ready before and after a quiet
\* step is not being set up or torn down after it.
LEMMA StillUndisturbed ==
  ASSUME ServiceInv, NEW t \in Threads, QuietThread(t), ready' \subseteq ready
  PROVE  \A h \in ready' : NoSetupOn(h)'
  <1> SUFFICES ASSUME NEW h \in ready', NEW u \in Threads, hdl'[u] = h
               PROVE  pc'[u] \in UsePc
    BY DEF NoSetupOn
  <1>1. \A w \in Threads : hdl[w] = h => pc[w] \in UsePc
    BY DEF ServiceInv, ReadyInv, NoSetupOn
  <1> QED
    BY <1>1 DEF QuietThread

\* A quiet step after which host_map, the addresses in use and the bindings of
\* ready QPs are what they were, and no connection has left RTS, keeps the
\* promise.
LEMMA QuietService ==
  ASSUME ServiceInv, NEW t \in Threads, QuietThread(t),
         UNCHANGED <<host_map, live>>, ready' \subseteq ready,
         \A h \in ready' : src_qp_map'[h] = src_qp_map[h],
         status' \in [Conns -> {0, 4}],
         \A c \in Conns : status[c] = 4 => status'[c] = 4
  PROVE  Service
  <1>1. ReadyTypes'
    BY DEF ReadyTypes, ServiceInv
  <1>2. ReadyInv'
    <2> SUFFICES ASSUME NEW h \in ready'
                 PROVE  /\ src_qp_map'[h] # None
                        /\ status'[host_map'[src_qp_map'[h]]] = 4
                        /\ NoSetupOn(h)'
      BY DEF ReadyInv
    <2>1. src_qp_map[h] # None /\ status[host_map[src_qp_map[h]]] = 4
      BY DEF ServiceInv, ReadyInv
    <2>2. host_map[src_qp_map[h]] \in Conns
      BY ReadyHolds
    <2> QED
      BY <2>1, <2>2, StillUndisturbed
  <1>3. NoLeak'
    <2> SUFFICES ASSUME NEW c \in live, \A k \in Keys : host_map[k] # c
                 PROVE  \E u \in Threads : pc'[u] \in FreePc /\ cur'[u] = c
      BY DEF NoLeak, FreePc
    <2>1. PICK u \in Threads : pc[u] \in FreePc /\ cur[u] = c
      BY DEF ServiceInv, NoLeak, FreePc
    <2> QED
      BY <2>1 DEF QuietThread
  <1>4. ReadyKept
    BY DEF ReadyKept
  <1> QED
    BY <1>1, <1>2, <1>3, <1>4 DEF Service

\* The steps of a virtual QP's request that are quiet; those that begin to set
\* it up or tear it down take it out of the ready ones first.
LEMMA QuietRequests ==
  ASSUME ServiceInv, NEW t \in Threads, UNCHANGED legacy,
         \/ ModifyCreate(t) \/ ModifyCreateFails(t) \/ ModifyReuse(t)
         \/ ModifyTell(t) \/ ModifyWait(t) \/ ModifyFind(t) \/ ModifyNotReady(t)
         \/ DestroyQp(t) \/ UseFind(t) \/ UseConn(t)
         \/ \E h \in Handles :
              UseLookup(t, h) \/ DestroyUnbind(t, h) \/ \E k \in Keys : ModifyShare(t, h, k)
  PROVE  Service
  <1>1. /\ pc \in [Threads -> AnyPc] /\ hdl \in [Threads -> Clients \cup {None}]
        /\ key \in [Threads -> Keys \cup {None}] /\ cur \in [Threads -> Conns \cup {None}]
        /\ src_qp_map \in [Handles -> Keys \cup {None}]
        /\ status \in [Conns -> {0, 4}] /\ ready \subseteq Handles
    BY ServiceTypes
  <1>2. UNCHANGED <<host_map, live, status>> /\ ready' \subseteq ready
    BY DEF ModifyCreate, ModifyCreateFails, ModifyReuse, ModifyTell, ModifyWait, ModifyFind,
           ModifyNotReady, DestroyQp, UseFind, UseConn, UseLookup, DestroyUnbind, ModifyShare,
           fields
  <1>3. \A h \in ready' : src_qp_map'[h] = src_qp_map[h]
    BY <1>1
       DEF ModifyCreate, ModifyCreateFails, ModifyReuse, ModifyTell, ModifyWait, ModifyFind,
           ModifyNotReady, DestroyQp, UseFind, UseConn, UseLookup, DestroyUnbind, ModifyShare,
           fields
  <1>4. QuietThread(t)
    <2> USE <1>1, HostMapAssumption DEF QuietThread, FreePc, UsePc, Begin, Goto, Done, locals
    <2>1. CASE ModifyCreate(t)
      BY <2>1 DEF ModifyCreate
    <2>2. CASE ModifyCreateFails(t)
      BY <2>2 DEF ModifyCreateFails
    <2>3. CASE ModifyReuse(t)
      BY <2>3 DEF ModifyReuse
    <2>4. CASE ModifyTell(t)
      BY <2>4 DEF ModifyTell
    <2>5. CASE ModifyWait(t)
      BY <2>5 DEF ModifyWait
    <2>6. CASE ModifyFind(t)
      BY <2>6 DEF ModifyFind
    <2>7. CASE ModifyNotReady(t)
      BY <2>7 DEF ModifyNotReady
    <2>8. CASE DestroyQp(t)
      BY <2>8 DEF DestroyQp
    <2>9. CASE UseFind(t)
      BY <2>9 DEF UseFind
    <2>10. CASE UseConn(t)
      BY <2>10 DEF UseConn
    <2>11. ASSUME NEW h \in Handles, UseLookup(t, h) PROVE QuietThread(t)
      BY <2>11 DEF UseLookup
    <2>12. ASSUME NEW h \in Handles, DestroyUnbind(t, h) PROVE QuietThread(t)
      BY <2>12 DEF DestroyUnbind
    <2>13. ASSUME NEW h \in Handles, NEW k \in Keys, ModifyShare(t, h, k) PROVE QuietThread(t)
      BY <2>13 DEF ModifyShare
    <2> QED
      BY <2>1, <2>2, <2>3, <2>4, <2>5, <2>6, <2>7, <2>8, <2>9, <2>10, <2>11, <2>12, <2>13
  <1> QED
    BY <1>1, <1>2, <1>3, <1>4, QuietService

\* Those of a legacy client are all quiet, but for the one that makes a new
\* entry; SETUP_CONN may bring the connection to RTS, as a virtual QP's does.
LEMMA QuietLegacy ==
  ASSUME ServiceInv, NEW t \in Threads,
         \/ LegacyContinue(t)
         \/ \E v \in VConns, k \in Keys :
              \/ SetupFind(t, v, k) \/ PostRequest(t, v, k) \/ EraseRequest(t, v, k)
              \/ CreateShare(t, v, k)
  PROVE  Service
  <1>0. ~DanglingUse(t)
    BY NoneDangles DEF ServiceInv
  <1>1. /\ pc \in [Threads -> AnyPc] /\ hdl \in [Threads -> Clients \cup {None}]
        /\ key \in [Threads -> Keys \cup {None}] /\ cur \in [Threads -> Conns \cup {None}]
        /\ status \in [Conns -> {0, 4}] /\ ready \subseteq Handles
    BY ServiceTypes
  <1>2. UNCHANGED <<host_map, live, src_qp_map, ready>>
    BY <1>0 DEF LegacyContinue, CreateDone, CreateFails, CreateReuse, SetupConn, SetupMap, PostFind,
           PostConn, PostFails, EraseConn, SetupFind, PostRequest, EraseRequest, CreateShare,
           fields
  <1>3. status' = status \/ status' = [status EXCEPT ![cur[t]] = 4]
    BY <1>0 DEF LegacyContinue, CreateDone, CreateFails, CreateReuse, SetupConn, SetupMap, PostFind,
           PostConn, PostFails, EraseConn, SetupFind, PostRequest, EraseRequest, CreateShare,
           fields
  <1>4. status' \in [Conns -> {0, 4}] /\ \A c \in Conns : status[c] = 4 => status'[c] = 4
    BY <1>1, <1>3
  <1>5. QuietThread(t)
    <2>1. \A v \in VConns : v \notin ready'
      BY <1>1, <1>2, LegacyAssumption
    <2>2. None \notin ready'
      BY <1>1, <1>2, HostMapAssumption
    <2> USE <1>1, <2>1, <2>2
        DEF QuietThread, FreePc, UsePc, Begin, Goto, Done, Answered, locals
    <2>3. CASE CreateDone(t)
      BY <2>3 DEF CreateDone
    <2>4. CASE CreateFails(t)
      BY <2>4 DEF CreateFails
    <2>5. CASE CreateReuse(t)
      BY <2>5 DEF CreateReuse
    <2>6. CASE SetupConn(t)
      BY <2>6 DEF SetupConn
    <2>7. CASE SetupMap(t)
      BY <2>7 DEF SetupMap
    <2>8. CASE PostFind(t)
      BY <2>8 DEF PostFind
    <2>9. CASE PostConn(t)
      BY <2>9 DEF PostConn
    <2>10. CASE PostFails(t)
      BY <2>10 DEF PostFails
    <2>11. CASE EraseConn(t)
      BY <2>11 DEF EraseConn
    <2>12. ASSUME NEW v \in VConns, NEW k \in Keys, SetupFind(t, v, k) PROVE QuietThread(t)
      BY <2>12 DEF SetupFind
    <2>13. ASSUME NEW v \in VConns, NEW k \in Keys, PostRequest(t, v, k) PROVE QuietThread(t)
      BY <2>13 DEF PostRequest
    <2>14. ASSUME NEW v \in VConns, NEW k \in Keys, EraseRequest(t, v, k) PROVE QuietThread(t)
      BY <2>14 DEF EraseRequest
    <2>15. ASSUME NEW v \in VConns, NEW k \in Keys, CreateShare(t, v, k) PROVE QuietThread(t)
      BY <2>15 DEF CreateShare
    <2> QED
      BY <1>0, <2>3, <2>4, <2>5, <2>6, <2>7, <2>8, <2>9, <2>10, <2>11, <2>12, <2>13, <2>14,
         <2>15
         DEF LegacyContinue
  <1> QED
    BY <1>2, <1>4, <1>5, QuietService

\* The QP that is bound is not ready: a request sets it up.
LEMMA SrcService ==
  ASSUME ServiceInv, NEW t \in Threads, ModifySrc(t)
  PROVE  Service
  <1>1. /\ pc \in [Threads -> AnyPc] /\ src_qp_map \in [Handles -> Keys \cup {None}]
        /\ status \in [Conns -> {0, 4}] /\ ready \subseteq Handles
    BY ServiceTypes
  <1>2. hdl[t] \notin ready
    BY DEF ModifySrc, ServiceInv, ReadyInv, NoSetupOn, UsePc
  <1>3. \A h \in ready' : src_qp_map'[h] = src_qp_map[h]
    BY <1>1, <1>2 DEF ModifySrc
  <1>4. QuietThread(t)
    BY <1>1, <1>2 DEF ModifySrc, Goto, QuietThread, FreePc, UsePc
  <1> QED
    BY <1>1, <1>3, <1>4, QuietService DEF ModifySrc, fields

\* The connection that was brought to RTS is the one the QP is bound to, and no
\* other request sets that QP up or tears it down.
LEMMA ReadyService ==
  ASSUME ServiceInv, NEW t \in Threads, ModifyReady(t)
  PROVE  Service
  <1> USE HostMapAssumption
  <1> PICK g, k, d : g = hdl[t] /\ k = key[t] /\ d = cur[t]
    OBVIOUS
  <1>1. /\ pc \in [Threads -> AnyPc] /\ hdl \in [Threads -> Clients \cup {None}]
        /\ cur \in [Threads -> Conns \cup {None}]
        /\ status \in [Conns -> {0, 4}] /\ ready \subseteq Handles
    BY ServiceTypes
  <1>2. pc[t] = "m_ready" /\ status' = [status EXCEPT ![d] = 4] /\ ready' = ready \cup {g}
    BY DEF ModifyReady
  <1>3. /\ g \in Handles /\ k \in Keys /\ src_qp_map[g] = k
        /\ d = host_map[k] /\ d \in Conns
    <2>1. g \in Handles /\ Bound(g) = k /\ d = host_map[k]
      BY <1>2 DEF ServiceInv, IInv, SafeInv, ThreadInv, Working, BoundPc, SetupPc, PostPc
    <2> QED
      BY <1>2, <2>1, Held DEF ServiceInv, Bound, BoundPc
  <1>4. \A u \in Threads \ {t} : hdl[u] # g
    <2>1. g # None /\ "m_ready" \notin UsePc \cup PostPc
      BY <1>3 DEF UsePc, PostPc
    <2> QED
      BY <1>2, <2>1 DEF ServiceInv, IInv, SafeInv, Exclusive
  <1>5. /\ hdl'[t] = None
        /\ \A u \in Threads \ {t} : pc'[u] = pc[u] /\ hdl'[u] = hdl[u] /\ cur'[u] = cur[u]
    BY <1>1 DEF ModifyReady, Done, Begin
  <1>6. UNCHANGED <<host_map, live, src_qp_map>>
    BY DEF ModifyReady
  <1>7. ReadyTypes'
    BY <1>1, <1>2, <1>3 DEF ReadyTypes
  <1>8. ReadyInv'
    <2> SUFFICES ASSUME NEW h \in ready'
                 PROVE  /\ src_qp_map[h] # None
                        /\ status'[host_map[src_qp_map[h]]] = 4
                        /\ \A u \in Threads : hdl'[u] = h => pc'[u] \in UsePc
      BY <1>6 DEF ReadyInv, NoSetupOn
    <2>1. h # None
      BY <1>1, <1>2, <1>3
    <2>2. CASE h = g
      BY <1>1, <1>2, <1>3, <1>4, <1>5, <2>1, <2>2
    <2>3. CASE h # g
      <3>1. h \in ready /\ host_map[src_qp_map[h]] \in Conns
        BY <1>2, <2>3, ReadyHolds
      <3>2. /\ src_qp_map[h] # None /\ status[host_map[src_qp_map[h]]] = 4
            /\ \A u \in Threads : hdl[u] = h => pc[u] \in UsePc
        BY <3>1 DEF ServiceInv, ReadyInv, NoSetupOn
      <3> QED
        BY <1>1, <1>2, <1>5, <2>1, <3>1, <3>2
    <2> QED
      BY <2>2, <2>3
  <1>9. NoLeak'
    BY <1>2, <1>5, <1>6 DEF ServiceInv, NoLeak
  <1>10. ReadyKept
    BY <1>6 DEF ReadyKept
  <1> QED
    BY <1>7, <1>8, <1>9, <1>10 DEF Service

\* A new entry, of a client of either kind, is for a host no ready QP is bound
\* to, at an address no entry has.
LEMMA NewService ==
  ASSUME ServiceInv, NEW t \in Threads, NEW g \in Clients, NEW k \in Keys, NEW c \in Conns,
         NEW p \in TakePc,
         NotFound(k), c \notin live, pc[t] = "idle", Begin(t, g, k, c, p),
         live' = live \cup {c}, status' = [status EXCEPT ![c] = 0],
         host_map' = [host_map EXCEPT ![k] = c], UNCHANGED src_qp_map,
         ready' = ready \ {g}
  PROVE  Service
  <1>1. /\ pc \in [Threads -> AnyPc] /\ hdl \in [Threads -> Clients \cup {None}]
        /\ cur \in [Threads -> Conns \cup {None}]
        /\ host_map \in [Keys -> Conns \cup {None}]
        /\ status \in [Conns -> {0, 4}] /\ ready \subseteq Handles
    BY ServiceTypes
  <1>2. ASSUME NEW h \in ready
        PROVE  src_qp_map[h] \in Keys \ {k} /\ host_map[src_qp_map[h]] \in Conns \ {c}
    <2>1. src_qp_map[h] \in Keys \ {k} /\ host_map[src_qp_map[h]] \in Conns
      BY ReadyHolds DEF NotFound
    <2>2. host_map[src_qp_map[h]] \in live
      BY <2>1, ReadyHolds DEF ServiceInv, IInv, SafeInv, MapInv
    <2> QED
      BY <2>1, <2>2
  <1>3. ReadyTypes'
    BY <1>1 DEF ReadyTypes
  <1>4. QuietThread(t)
    BY <1>1 DEF Begin, QuietThread, FreePc
  <1>5. ReadyInv'
    <2> SUFFICES ASSUME NEW h \in ready'
                 PROVE  /\ src_qp_map'[h] # None
                        /\ status'[host_map'[src_qp_map'[h]]] = 4
                        /\ NoSetupOn(h)'
      BY DEF ReadyInv
    <2>1. src_qp_map[h] # None /\ status[host_map[src_qp_map[h]]] = 4
      BY DEF ServiceInv, ReadyInv
    <2>2. src_qp_map[h] \in Keys \ {k} /\ host_map[src_qp_map[h]] \in Conns \ {c}
      BY <1>2
    <2> QED
      BY <1>1, <1>4, <2>1, <2>2, StillUndisturbed
  <1>6. NoLeak'
    <2> SUFFICES ASSUME NEW d \in live', \A l \in Keys : host_map'[l] # d
                 PROVE  \E u \in Threads : pc'[u] \in FreePc /\ cur'[u] = d
      BY DEF NoLeak, FreePc
    <2>1. d \in live
      BY <1>1
    <2>2. \A l \in Keys : host_map[l] # d
      <3> SUFFICES ASSUME NEW l \in Keys PROVE host_map[l] # d
        OBVIOUS
      <3>1. CASE l = k
        BY <1>1, <2>1, <3>1, ServiceTypes, HostMapAssumption DEF NotFound
      <3>2. CASE l # k
        BY <1>1, <3>2
      <3> QED
        BY <3>1, <3>2
    <2>3. PICK u \in Threads : pc[u] \in FreePc /\ cur[u] = d
      BY <2>1, <2>2 DEF ServiceInv, NoLeak, FreePc
    <2> QED
      BY <1>4, <2>3 DEF QuietThread
  <1>7. ReadyKept
    BY <1>1, <1>2 DEF ReadyKept
  <1> QED
    BY <1>3, <1>5, <1>6, <1>7 DEF Service

\* An entry is erased only with its last holder, which is not a ready QP; the
\* thread that erases it keeps the pointer.
LEMMA DropService ==
  ASSUME ServiceInv, NEW t \in Threads, DestroyDrop(t), UNCHANGED legacy
  PROVE  Service
  <1> USE HostMapAssumption
  <1> PICK g, k, c : g = hdl[t] /\ k = key[t] /\ c = host_map[key[t]]
    OBVIOUS
  <1>1. /\ pc \in [Threads -> AnyPc] /\ hdl \in [Threads -> Clients \cup {None}]
        /\ cur \in [Threads -> Conns \cup {None}]
        /\ host_map \in [Keys -> Conns \cup {None}]
        /\ status \in [Conns -> {0, 4}] /\ ready \subseteq Handles
    BY ServiceTypes
  <1>2. /\ k \in Keys /\ c \in Conns /\ c # None /\ pc[t] = "d_drop"
        /\ LastRef(c) => Holders(k) = {g}
    BY LastHolder DEF DestroyDrop, ServiceInv
  <1>3. g \notin ready
    BY <1>2 DEF ServiceInv, ReadyInv, NoSetupOn, UsePc
  <1>4. /\ UNCHANGED <<live, src_qp_map, status, ready>>
        /\ IF LastRef(c)
           THEN host_map' = [host_map EXCEPT ![k] = None] /\ Begin(t, g, k, c, "d_qp")
           ELSE Done(t) /\ UNCHANGED host_map
    BY <1>2 DEF DestroyDrop, Erased
  <1>5. QuietThread(t)
    BY <1>1, <1>2, <1>3, <1>4 DEF Begin, Done, QuietThread, FreePc
  <1>6. CASE ~LastRef(c)
    BY <1>1, <1>4, <1>5, <1>6, QuietService
  <1>7. CASE LastRef(c)
    <2>1. \A h \in ready : src_qp_map[h] \in Keys \ {k}
      BY <1>2, <1>3, <1>7, ReadyHolds
    <2>2. \A h \in ready : host_map'[src_qp_map'[h]] = host_map[src_qp_map[h]]
      BY <1>1, <1>4, <1>7, <2>1
    <2>3. ReadyInv'
      <3> SUFFICES ASSUME NEW h \in ready'
                   PROVE  /\ src_qp_map'[h] # None
                          /\ status'[host_map'[src_qp_map'[h]]] = 4
                          /\ NoSetupOn(h)'
        BY DEF ReadyInv
      <3>1. src_qp_map[h] # None /\ status[host_map[src_qp_map[h]]] = 4
        BY <1>4 DEF ServiceInv, ReadyInv
      <3> QED
        BY <1>4, <1>5, <2>2, <3>1, StillUndisturbed
    <2>4. NoLeak'
      <3> SUFFICES ASSUME NEW d \in live, \A l \in Keys : host_map'[l] # d
                   PROVE  \E u \in Threads : pc'[u] \in FreePc /\ cur'[u] = d
        BY <1>4 DEF NoLeak, FreePc
      <3>1. CASE d = c
        <4>1. pc'[t] = "d_qp" /\ cur'[t] = c
          BY <1>1, <1>4, <1>7 DEF Begin
        <4> QED
          BY <3>1, <4>1 DEF FreePc
      <3>2. CASE d # c
        <4>1. \A l \in Keys : host_map[l] # d
          BY <1>1, <1>4, <1>7, <3>2
        <4>2. PICK u \in Threads : pc[u] \in FreePc /\ cur[u] = d
          BY <4>1 DEF ServiceInv, NoLeak, FreePc
        <4> QED
          BY <1>5, <4>2 DEF QuietThread
      <3> QED
        BY <3>1, <3>2
    <2> QED
      BY <1>1, <1>4, <2>2, <2>3, <2>4 DEF Service, ReadyKept, ReadyTypes
  <1> QED
    BY <1>6, <1>7

\* The memory that is freed is in no entry and in no other thread's hands.
LEMMA FreeService ==
  ASSUME ServiceInv, NEW t \in Threads, DestroyFree(t)
  PROVE  Service
  <1> USE HostMapAssumption
  <1> PICK d : d = cur[t]
    OBVIOUS
  <1>1. /\ pc \in [Threads -> AnyPc] /\ hdl \in [Threads -> Clients \cup {None}]
        /\ cur \in [Threads -> Conns \cup {None}]
        /\ status \in [Conns -> {0, 4}] /\ ready \subseteq Handles
    BY ServiceTypes
  <1>2. /\ live' = live \ {d} /\ pc[t] = "d_free" /\ pc'[t] = "idle" /\ hdl'[t] = None
        /\ UNCHANGED <<host_map, src_qp_map, status, ready>>
        /\ \A u \in Threads \ {t} : pc'[u] = pc[u] /\ hdl'[u] = hdl[u] /\ cur'[u] = cur[u]
    BY <1>1 DEF DestroyFree, Done, Begin
  <1>3. ReadyInv'
    <2> SUFFICES ASSUME NEW h \in ready
                 PROVE  /\ src_qp_map[h] # None
                        /\ status[host_map[src_qp_map[h]]] = 4
                        /\ \A u \in Threads : hdl'[u] = h => pc'[u] \in UsePc
      BY <1>2 DEF ReadyInv, NoSetupOn
    <2>1. h # None
      BY <1>1
    <2> QED
      BY <1>2, <2>1 DEF ServiceInv, ReadyInv, NoSetupOn
  <1>4. NoLeak'
    BY <1>2 DEF ServiceInv, NoLeak
  <1> QED
    BY <1>1, <1>2, <1>3, <1>4 DEF Service, ReadyKept, ReadyTypes

\* A peer's message, or a step that changes nothing.
LEMMA RemoteService ==
  ASSUME ServiceInv, UNCHANGED <<locals, host_map, src_qp_map, fields, ready>>
  PROVE  Service
  BY DEF locals, fields, ServiceInv, Service, ReadyTypes, ReadyInv, NoSetupOn, NoLeak, ReadyKept

\* Every step of either interface keeps the promise.
LEMMA ServiceStep == ServiceInv /\ [LegacyNext]_allvars => ServiceInv' /\ ReadyKept
  <1> SUFFICES ASSUME ServiceInv, [LegacyNext]_allvars PROVE Service
    BY HostMapStepInv, LegacyStepInv, StutterInv DEF LegacyNext, ServiceInv, Service
  <1>1. ASSUME UNCHANGED vars PROVE Service
    BY <1>1, RemoteService DEF vars
  <1>2. ASSUME NEW t \in Threads, Continue(t), UNCHANGED legacy PROVE Service
    BY <1>2, QuietRequests, SrcService, ReadyService, DropService, FreeService DEF Continue
  <1>3. ASSUME NEW t \in Threads, NEW h \in Handles, Request(t, h), UNCHANGED legacy
        PROVE  Service
    <2>1. ASSUME NEW k \in Keys, NEW c \in Conns, ModifyNew(t, h, k, c) PROVE Service
      BY <2>1, NewService DEF ModifyNew, TakePc, Clients
    <2> QED
      BY <1>3, <2>1, QuietRequests DEF Request
  <1>4. ASSUME NEW k \in Keys, Remote(k) PROVE Service
    BY <1>4, RemoteService DEF Remote, RemoteInsert, RemoteDelete
  <1>5. ASSUME NEW t \in Threads, LegacyContinue(t) PROVE Service
    BY <1>5, QuietLegacy
  <1>6. ASSUME NEW t \in Threads, NEW v \in VConns, LegacyRequest(t, v) PROVE Service
    <2>1. \A k \in LegacyKeys : k \in Keys
      BY LegacyAssumption
    <2>2. ASSUME NEW k \in Keys, NEW c \in Conns, CreateNew(t, v, k, c) PROVE Service
      <3>1. v \in Clients /\ ready' = ready \ {v} /\ "c_create" \in TakePc
        BY <2>2, ServiceTypes, LegacyAssumption DEF CreateNew, Clients, TakePc
      <3> QED
        BY <2>2, <3>1, NewService DEF CreateNew
    <2> QED
      BY <1>6, <2>1, <2>2, QuietLegacy DEF LegacyRequest
  <1> QED
    BY <1>1, <1>2, <1>3, <1>4, <1>5, <1>6 DEF LegacyNext, Next, Dead, allvars

\* The promise is kept in every reachable state of the composed system.
THEOREM ServiceInvariance ==
  ASSUME Unprepared = {}
  PROVE  LegacySpec => []ServiceInv
  <1>1. ASSUME LegacyInit PROVE ServiceInv
    <2>1. IInv
      BY <1>1, InitInv
    <2>2. ready = {} /\ live = {} /\ status \in [Conns -> {0, 4}]
      BY <1>1 DEF LegacyInit, Init
    <2>3. ReadyTypes /\ ReadyInv /\ NoLeak
      BY <2>2 DEF ReadyTypes, ReadyInv, NoLeak
    <2> QED
      BY <2>1, <2>3 DEF ServiceInv
  <1> QED
    BY <1>1, ServiceStep, PTL DEF LegacySpec

\* A client that was answered flag = 1 has a connection in RTS behind its QP,
\* also after legacy clients have set up, used and torn down their own on it.
THEOREM ReadyIsConnected ==
  ASSUME Unprepared = {}
  PROVE  LegacySpec => []ReadyConnected
  <1>1. ASSUME ServiceInv PROVE ReadyConnected
    <2> SUFFICES ASSUME NEW h \in ready
                 PROVE  LET c == host_map[src_qp_map[h]] IN
                        /\ src_qp_map[h] # None /\ c # None
                        /\ c \in live /\ qp[c] = "made" /\ status[c] = 4
      BY DEF ReadyConnected
    <2>1. src_qp_map[h] # None /\ status[host_map[src_qp_map[h]]] = 4
      BY <1>1 DEF ServiceInv, ReadyInv
    <2>2. /\ src_qp_map[h] \in Keys /\ host_map[src_qp_map[h]] # None
          /\ qp[host_map[src_qp_map[h]]] = "made"
      BY <1>1, ReadyHolds
    <2> QED
      BY <1>1, <2>1, <2>2 DEF ServiceInv, IInv, SafeInv, MapInv
  <1> QED
    BY <1>1, ServiceInvariance, PTL

\* Every allocated conn_resources is in host_map or about to be freed, whichever
\* interface took it and whichever gave it back last.
THEOREM NothingLeaks ==
  ASSUME Unprepared = {}
  PROVE  LegacySpec => []NoLeak
  <1>1. ServiceInv => NoLeak
    BY DEF ServiceInv
  <1> QED
    BY <1>1, ServiceInvariance, PTL

\* The connection under a ready QP is not replaced: neither a DESTROY_RES nor a
\* CREATE_RES of a legacy client on the same host puts another one there.
THEOREM ReadyStays ==
  ASSUME Unprepared = {}
  PROVE  LegacySpec => ReadyStable
  <1>1. ServiceInv /\ [LegacyNext]_allvars =>
          [\A h \in ready \cap ready' :
             host_map'[src_qp_map'[h]] = host_map[src_qp_map[h]]]_vars
    BY ServiceStep DEF ReadyKept
  <1> QED
    BY <1>1, ServiceInvariance, PTL DEF LegacySpec, ReadyStable
=============================================================================
