-------------------------- MODULE HostMapRefinement --------------------------
(***************************************************************************)
(* What the connection table promises its clients.  For all clients: a     *)
(* ready virtual QP has a connection in RTS behind it, the same one as     *)
(* long as it is ready, and no conn_resources is lost.  For orderly ones,  *)
(* who never bring a bound QP to RTR again (~Reconnect): the count is      *)
(* exact, and the table implements the abstract one of SharedConn.         *)
(***************************************************************************)
EXTENDS HostMapProofs

\* A ready QP is bound to a connection in RTS, and no request is setting it up
\* or tearing it down.
ReadyInv ==
  \A h \in ready :
    /\ src_qp_map[h] # None
    /\ status[host_map[src_qp_map[h]]] = 4
    /\ NoSetupOn(h)

ServiceInv == IInv /\ ReadyInv /\ NoLeak

\* An orderly client's QP is not bound while a request is about to bind it.
BindInv ==
  \A t \in Threads : pc[t] \in {"m_create", "m_reuse", "m_src"} =>
    src_qp_map[hdl[t]] = None

OrderlyInv == IInv /\ BindInv /\ RefExact

\* What a step must preserve for the clients.
ReadyKept ==
  \A h \in ready \cap ready' : host_map'[src_qp_map'[h]] = host_map[src_qp_map[h]]

Service == ReadyInv' /\ NoLeak' /\ ReadyKept

-----------------------------------------------------------------------------
(* Ready QPs and memory, whatever clients do.                               *)

\* A step that changes no map, no status and no set of ready QPs, begins no
\* request that sets up or tears down, and lets nobody forget a connection
\* that is to be freed, keeps the promise.
LEMMA QuietService ==
  ASSUME ServiceInv,
         UNCHANGED <<host_map, src_qp_map, live, status, ready>>,
         \A t \in Threads : hdl'[t] \in Handles =>
           (hdl'[t] = hdl[t] /\ (pc[t] \in UsePc => pc'[t] \in UsePc)) \/ pc'[t] \in UsePc,
         \A t \in Threads : pc[t] \in {"d_qp", "d_free"} =>
           pc'[t] \in {"d_qp", "d_free"} /\ cur'[t] = cur[t]
  PROVE  Service
  <1>1. ReadyInv'
    BY DEF ServiceInv, ReadyInv, NoSetupOn, IInv, TypeOK
  <1>2. NoLeak'
    BY DEF ServiceInv, NoLeak
  <1> QED
    BY <1>1, <1>2 DEF Service, ReadyKept

\* The steps of a request in which it neither binds nor unbinds its QP, nor
\* answers that the QP is ready, nor changes host_map, nor frees.
LEMMA QuietRequests ==
  ASSUME ServiceInv, NEW t \in Threads,
         \/ ModifyCreate(t) \/ ModifyCreateFails(t) \/ ModifyReuse(t)
         \/ ModifyTell(t) \/ ModifyWait(t) \/ ModifyFind(t) \/ ModifyNotReady(t)
         \/ DestroyQp(t) \/ UseFind(t) \/ UseConn(t)
  PROVE  Service
  <1> USE DEF ServiceInv, IInv, TypeOK, locals, fields, Begin, Goto, Done, Crash, UsePc
  <1>1. CASE ModifyCreate(t)
    BY <1>1, HostMapAssumption, QuietService DEF ModifyCreate
  <1>2. CASE ModifyCreateFails(t)
    BY <1>2, HostMapAssumption, QuietService DEF ModifyCreateFails
  <1>3. CASE ModifyReuse(t)
    BY <1>3, HostMapAssumption, QuietService DEF ModifyReuse
  <1>4. CASE ModifyTell(t)
    BY <1>4, HostMapAssumption, QuietService DEF ModifyTell
  <1>5. CASE ModifyWait(t)
    BY <1>5, HostMapAssumption, QuietService DEF ModifyWait
  <1>6. CASE ModifyFind(t)
    BY <1>6, HostMapAssumption, QuietService DEF ModifyFind
  <1>7. CASE ModifyNotReady(t)
    BY <1>7, HostMapAssumption, QuietService DEF ModifyNotReady
  <1>8. CASE DestroyQp(t)
    BY <1>8, HostMapAssumption, QuietService DEF DestroyQp
  <1>9. CASE UseFind(t)
    BY <1>9, HostMapAssumption, QuietService DEF UseFind
  <1>10. CASE UseConn(t)
    BY <1>10, HostMapAssumption, QuietService DEF UseConn
  <1> QED
    BY <1>1, <1>2, <1>3, <1>4, <1>5, <1>6, <1>7, <1>8, <1>9, <1>10

\* The new entry is for a host no ready QP is bound to, at an address no entry
\* has; the QP of the request is not ready from here on.
LEMMA ModifyNewService ==
  ASSUME ServiceInv, NEW t \in Threads, NEW h \in Handles, NEW k \in Keys,
         NEW c \in Conns, ModifyNew(t, h, k, c)
  PROVE  Service
  <1> USE HostMapAssumption DEF ModifyNew, locals, fields, Begin, NoCallOn, NotFound
  <1>1. \A g \in Handles : src_qp_map[g] # k
    BY Unmapped DEF ServiceInv
  <1>2. \A g \in ready : /\ g \in Handles
                         /\ src_qp_map[g] \in Keys \ {k}
                         /\ host_map[src_qp_map[g]] \in Conns \ {c}
    BY <1>1, Unmapped DEF ServiceInv, ReadyInv, IInv, TypeOK, MapInv
  <1>3. ReadyInv'
    BY <1>2 DEF ServiceInv, ReadyInv, NoSetupOn, IInv, TypeOK
  <1>4. NoLeak'
    BY DEF ServiceInv, NoLeak, IInv, TypeOK
  <1>5. ReadyKept
    BY <1>2 DEF ReadyKept, ServiceInv, IInv, TypeOK
  <1> QED
    BY <1>3, <1>4, <1>5 DEF Service

\* The QP of the request is not ready from here on; the maps stay.
LEMMA ModifyShareService ==
  ASSUME ServiceInv, NEW t \in Threads, NEW h \in Handles, NEW k \in Keys,
         ModifyShare(t, h, k)
  PROVE  Service
  <1> USE HostMapAssumption DEF ModifyShare, locals, fields, Begin, NoCallOn
  <1>1. ReadyInv'
    BY DEF ServiceInv, ReadyInv, NoSetupOn, IInv, TypeOK
  <1>2. NoLeak'
    BY DEF ServiceInv, NoLeak, IInv, TypeOK
  <1>3. ReadyKept
    BY DEF ReadyKept, ServiceInv, IInv, TypeOK
  <1> QED
    BY <1>1, <1>2, <1>3 DEF Service

\* The QP that is bound is not ready: a request sets it up.
LEMMA ModifySrcService ==
  ASSUME ServiceInv, NEW t \in Threads, ModifySrc(t)
  PROVE  Service
  <1> USE HostMapAssumption DEF ModifySrc, locals, fields, Goto
  <1>1. hdl[t] \notin ready
    BY DEF ServiceInv, ReadyInv, NoSetupOn, UsePc
  <1>2. ReadyInv'
    BY <1>1 DEF ServiceInv, ReadyInv, NoSetupOn, IInv, TypeOK, UsePc
  <1>3. NoLeak'
    BY DEF ServiceInv, NoLeak, IInv, TypeOK
  <1>4. ReadyKept
    BY <1>1 DEF ReadyKept, ServiceInv, IInv, TypeOK
  <1> QED
    BY <1>2, <1>3, <1>4 DEF Service

\* The connection it brought to RTS is the one its QP is bound to, and no other
\* request sets that QP up or tears it down.
LEMMA ModifyReadyService ==
  ASSUME ServiceInv, NEW t \in Threads, ModifyReady(t)
  PROVE  Service
  <1> USE HostMapAssumption DEF ModifyReady, locals, fields, Begin, Done
  <1>1. /\ hdl[t] \in Handles /\ src_qp_map[hdl[t]] = key[t] /\ key[t] \in Keys
        /\ cur[t] = host_map[key[t]] /\ cur[t] \in Conns
    BY DEF ServiceInv, IInv, TypeOK, ThreadInv, Modifying, ModifyPc
  <1>2. \A u \in Threads \ {t} : hdl[u] # hdl[t]
    BY <1>1 DEF ServiceInv, IInv, Exclusive, UsePc
  <1>3. ReadyInv'
    BY <1>1, <1>2 DEF ServiceInv, ReadyInv, NoSetupOn, IInv, TypeOK, UsePc
  <1>4. NoLeak'
    BY DEF ServiceInv, NoLeak, IInv, TypeOK
  <1>5. ReadyKept
    BY DEF ReadyKept, ServiceInv, IInv, TypeOK
  <1> QED
    BY <1>3, <1>4, <1>5 DEF Service

\* The QP that is unbound is not ready any more.
LEMMA DestroyUnbindService ==
  ASSUME ServiceInv, NEW t \in Threads, NEW h \in Handles, DestroyUnbind(t, h)
  PROVE  Service
  <1> USE HostMapAssumption DEF DestroyUnbind, locals, fields, Begin, NoCallOn
  <1>1. ReadyInv'
    BY DEF ServiceInv, ReadyInv, NoSetupOn, IInv, TypeOK
  <1>2. NoLeak'
    BY DEF ServiceInv, NoLeak, IInv, TypeOK
  <1>3. ReadyKept
    BY DEF ReadyKept, ServiceInv, IInv, TypeOK
  <1> QED
    BY <1>1, <1>2, <1>3 DEF Service

\* An entry is erased only when its last user is a QP that is being torn down,
\* so that no ready QP is bound to it; the thread that erases it keeps the
\* pointer.
LEMMA DestroyDropService ==
  ASSUME ServiceInv, NEW t \in Threads, DestroyDrop(t)
  PROVE  Service
  <1> USE HostMapAssumption DEF locals, fields, Begin, Done
  <1>1. /\ hdl[t] \in Handles /\ key[t] \in Keys /\ host_map[key[t]] \in Conns
        /\ src_qp_map[hdl[t]] = None
        /\ pc[t] = "d_drop"
    BY LastUser, UsersFinite DEF DestroyDrop, ServiceInv, IInv, ThreadInv, Dropping
  <1>2. CASE ~LastRef(host_map[key[t]])
    <2>1. UNCHANGED <<host_map, src_qp_map, live, status, ready>> /\ Done(t)
      BY <1>1, <1>2 DEF DestroyDrop
    <2> QED
      BY <1>1, <2>1, QuietService DEF ServiceInv, IInv, TypeOK
  <1>3. CASE LastRef(host_map[key[t]])
    <2>1. /\ host_map' = [host_map EXCEPT ![key[t]] = None]
          /\ Begin(t, hdl[t], key[t], host_map[key[t]], "d_qp")
          /\ UNCHANGED <<src_qp_map, live, status, ready>>
      BY <1>1, <1>3 DEF DestroyDrop, Erased
    <2>2. Users(key[t]) = {hdl[t]}
      BY <1>1, <1>3, LastUser DEF ServiceInv
    <2>3. \A g \in ready : g \in Handles /\ src_qp_map[g] \in Keys \ {key[t]}
      BY <1>1, <2>2, Holders DEF ServiceInv, ReadyInv, IInv, TypeOK
    <2>4. ReadyInv'
      BY <1>1, <2>1, <2>3 DEF ServiceInv, ReadyInv, NoSetupOn, IInv, TypeOK, UsePc
    <2>5. NoLeak'
      BY <1>1, <2>1 DEF ServiceInv, NoLeak, IInv, TypeOK
    <2>6. ReadyKept
      BY <2>1, <2>3 DEF ReadyKept, ServiceInv, IInv, TypeOK
    <2> QED
      BY <2>4, <2>5, <2>6 DEF Service
  <1> QED
    BY <1>2, <1>3

\* The memory that is freed is in no entry and in no other thread's hands.
LEMMA DestroyFreeService ==
  ASSUME ServiceInv, NEW t \in Threads, DestroyFree(t)
  PROVE  Service
  <1> USE HostMapAssumption DEF DestroyFree, locals, fields, Begin, Done
  <1>1. ReadyInv'
    BY DEF ServiceInv, ReadyInv, NoSetupOn, IInv, TypeOK
  <1>2. NoLeak'
    BY DEF ServiceInv, NoLeak, IInv, TypeOK
  <1>3. ReadyKept
    BY DEF ReadyKept, ServiceInv, IInv, TypeOK
  <1> QED
    BY <1>1, <1>2, <1>3 DEF Service

\* Every step keeps the promise.
LEMMA ServiceStep == ServiceInv /\ [Next]_vars => ServiceInv' /\ ReadyKept
  <1> SUFFICES ASSUME ServiceInv, [Next]_vars PROVE Service
    BY StepInv DEF ServiceInv, Service
  <1>1. ASSUME NEW t \in Threads, Continue(t) PROVE Service
    BY <1>1, QuietRequests, ModifySrcService, ModifyReadyService,
       DestroyDropService, DestroyFreeService DEF Continue
  <1>2. ASSUME NEW t \in Threads, NEW h \in Handles, UseLookup(t, h) PROVE Service
    BY <1>2, QuietService, HostMapAssumption
       DEF UseLookup, Begin, locals, fields, UsePc, ServiceInv, IInv, TypeOK
  <1>3. ASSUME NEW t \in Threads, NEW h \in Handles, Request(t, h) PROVE Service
    BY <1>2, <1>3, ModifyNewService, ModifyShareService, DestroyUnbindService DEF Request
  <1>4. ASSUME NEW k \in Keys, Remote(k) PROVE Service
    BY <1>4, QuietService DEF Remote, RemoteInsert, RemoteDelete, locals, fields
  <1>5. ASSUME UNCHANGED vars PROVE Service
    BY <1>5, QuietService DEF vars, locals, fields
  <1> QED
    BY <1>1, <1>3, <1>4, <1>5 DEF Next, Dead

\* The promise is kept in every reachable state.
THEOREM ServiceInvariance == Spec => []ServiceInv
  <1>1. Init => ServiceInv
    BY InitInv DEF Init, ServiceInv, ReadyInv, NoLeak
  <1> QED
    BY <1>1, ServiceStep, PTL DEF Spec

\* A client that was answered flag = 1 has a connection in RTS behind its QP.
THEOREM ReadyIsConnected == Spec => []ReadyConnected
  <1>1. ASSUME ServiceInv PROVE ReadyConnected
    <2> SUFFICES ASSUME NEW h \in ready
                 PROVE  LET c == host_map[src_qp_map[h]] IN
                        /\ src_qp_map[h] # None /\ c # None
                        /\ c \in live /\ qp[c] = "made" /\ status[c] = 4
      BY DEF ReadyConnected
    <2>1. h \in Handles /\ src_qp_map[h] \in Keys /\ status[host_map[src_qp_map[h]]] = 4
      BY <1>1 DEF ServiceInv, ReadyInv, IInv, TypeOK
    <2>2. host_map[src_qp_map[h]] # None
      BY <1>1, <2>1, Unmapped DEF ServiceInv
    <2> QED
      BY <1>1, <2>1, <2>2, HostMapAssumption DEF ServiceInv, IInv, MapInv
  <1> QED
    BY <1>1, ServiceInvariance, PTL

\* Every allocated conn_resources is in host_map or about to be freed.
THEOREM NothingLeaks == Spec => []NoLeak
  <1>1. ServiceInv => NoLeak
    BY DEF ServiceInv
  <1> QED
    BY <1>1, ServiceInvariance, PTL

\* The connection under a ready QP is not replaced.
THEOREM ReadyStays == Spec => ReadyStable
  <1>1. ServiceInv /\ [Next]_vars =>
          [\A h \in ready \cap ready' :
             host_map'[src_qp_map'[h]] = host_map[src_qp_map[h]]]_vars
    BY ServiceStep DEF ReadyKept
  <1> QED
    BY <1>1, ServiceInvariance, PTL DEF Spec, ReadyStable

-----------------------------------------------------------------------------
(* Orderly clients: exact counts, and the abstract table.                   *)

\* The state of a connection in the table.
ConnState(k) ==
  IF host_map[k] = None THEN "down"
  ELSE IF status[host_map[k]] = 4 THEN "ready" ELSE "up"

Table == <<[k \in Keys |-> Users(k)], [k \in Keys |-> ConnState(k)]>>

\* What a step must preserve for orderly clients, and do to the table.
Orderly == BindInv' /\ RefExact' /\ [Shared!Next]_Table

\* What makes a step an Acquire of the table, in terms of users and states.
LEMMA AcquireStep ==
  ASSUME NEW h \in Handles, NEW k \in Keys,
         \A l \in Keys : h \notin Users(l),
         \A l \in Keys : Users(l)' = IF l = k THEN Users(l) \cup {h} ELSE Users(l),
         \A l \in Keys : ConnState(l)' =
           IF l = k /\ ConnState(l) = "down" THEN "up" ELSE ConnState(l)
  PROVE  [Shared!Next]_Table
  <1>1. Shared!Acquire(h, k)
    BY DEF Shared!Acquire, ConnState
  <1> QED
    BY <1>1 DEF Shared!Next

\* What makes one an Establish.
LEMMA EstablishStep ==
  ASSUME NEW k \in Keys,
         \A l \in Keys : Users(l)' = Users(l),
         ConnState(k) = "up",
         \A l \in Keys : ConnState(l)' = IF l = k THEN "ready" ELSE ConnState(l)
  PROVE  [Shared!Next]_Table
  <1>1. Shared!Establish(k)
    BY DEF Shared!Establish, ConnState
  <1> QED
    BY <1>1 DEF Shared!Next

\* What makes one a Release.
LEMMA ReleaseStep ==
  ASSUME NEW h \in Handles, NEW k \in Keys, h \in Users(k),
         \A l \in Keys : Users(l)' = IF l = k THEN Users(l) \ {h} ELSE Users(l),
         \A l \in Keys : ConnState(l)' =
           IF l = k /\ Users(k) = {h} THEN "down" ELSE ConnState(l)
  PROVE  [Shared!Next]_Table
  <1>1. Shared!Release(h, k)
    BY DEF Shared!Release, ConnState
  <1> QED
    BY <1>1 DEF Shared!Next

\* A step after which every connection has the same users, count and state is
\* a stuttering step of the table.
LEMMA SameTable ==
  ASSUME OrderlyInv, BindInv',
         UNCHANGED <<host_map, ref_cnt>>,
         \A k \in Keys : Users(k)' = Users(k),
         \A k \in Keys : host_map[k] # None =>
           status'[host_map[k]] = status[host_map[k]]
  PROVE  Orderly
  <1>1. RefExact'
    BY DEF OrderlyInv, RefExact
  <1>2. UNCHANGED Table
    BY DEF Table, ConnState
  <1> QED
    BY <1>1, <1>2 DEF Orderly

\* The steps of a request in which it neither takes nor gives back a connection.
LEMMA QuietTable ==
  ASSUME OrderlyInv, NEW t \in Threads,
         \/ ModifyCreate(t) \/ ModifyCreateFails(t) \/ ModifyReuse(t)
         \/ ModifyTell(t) \/ ModifyWait(t) \/ ModifyFind(t) \/ ModifyNotReady(t)
         \/ DestroyQp(t) \/ DestroyFree(t) \/ UseFind(t) \/ UseConn(t)
  PROVE  Orderly
  <1> USE HostMapAssumption
      DEF OrderlyInv, IInv, TypeOK, locals, fields, Begin, Goto, Done, Crash, BindInv
  <1>1. CASE ModifyCreate(t)
    <2>1. \A k \in Keys : Users(k)' = Users(k)
      BY <1>1 DEF ModifyCreate, Users
    <2> QED
      BY <1>1, <2>1, SameTable DEF ModifyCreate
  <1>2. CASE ModifyCreateFails(t)
    <2>1. \A k \in Keys : Users(k)' = Users(k)
      BY <1>2 DEF ModifyCreateFails, Users
    <2> QED
      BY <1>2, <2>1, SameTable DEF ModifyCreateFails
  <1>3. CASE ModifyReuse(t)
    <2>1. \A k \in Keys : Users(k)' = Users(k)
      BY <1>3 DEF ModifyReuse, Users
    <2> QED
      BY <1>3, <2>1, SameTable DEF ModifyReuse
  <1>4. CASE ModifyTell(t)
    <2>1. \A k \in Keys : Users(k)' = Users(k)
      BY <1>4 DEF ModifyTell, Users
    <2> QED
      BY <1>4, <2>1, SameTable DEF ModifyTell
  <1>5. CASE ModifyWait(t)
    <2>1. \A k \in Keys : Users(k)' = Users(k)
      BY <1>5 DEF ModifyWait, Users
    <2> QED
      BY <1>5, <2>1, SameTable DEF ModifyWait
  <1>6. CASE ModifyFind(t)
    <2>1. \A k \in Keys : Users(k)' = Users(k)
      BY <1>6 DEF ModifyFind, Users
    <2> QED
      BY <1>6, <2>1, SameTable DEF ModifyFind
  <1>7. CASE ModifyNotReady(t)
    <2>1. \A k \in Keys : Users(k)' = Users(k)
      BY <1>7 DEF ModifyNotReady, Users
    <2> QED
      BY <1>7, <2>1, SameTable DEF ModifyNotReady
  <1>8. CASE DestroyQp(t)
    <2>1. \A k \in Keys : Users(k)' = Users(k)
      BY <1>8 DEF DestroyQp, Users
    <2> QED
      BY <1>8, <2>1, SameTable DEF DestroyQp
  <1>9. CASE DestroyFree(t)
    <2>1. \A k \in Keys : Users(k)' = Users(k)
      BY <1>9 DEF DestroyFree, Users
    <2> QED
      BY <1>9, <2>1, SameTable DEF DestroyFree
  <1>10. CASE UseFind(t)
    <2>1. \A k \in Keys : Users(k)' = Users(k)
      BY <1>10 DEF UseFind, Users
    <2> QED
      BY <1>10, <2>1, SameTable DEF UseFind
  <1>11. CASE UseConn(t)
    <2>1. \A k \in Keys : Users(k)' = Users(k)
      BY <1>11 DEF UseConn, Users
    <2> QED
      BY <1>11, <2>1, SameTable DEF UseConn
  <1> QED
    BY <1>1, <1>2, <1>3, <1>4, <1>5, <1>6, <1>7, <1>8, <1>9, <1>10, <1>11

\* Binding the QP turns a user that a request makes into one that a binding makes.
LEMMA ModifySrcTable ==
  ASSUME OrderlyInv, NEW t \in Threads, ModifySrc(t)
  PROVE  Orderly
  <1> USE HostMapAssumption
      DEF OrderlyInv, IInv, TypeOK, locals, fields, Goto, BindInv, ModifySrc
  <1>1. /\ hdl[t] \in Handles /\ key[t] \in Keys /\ src_qp_map[hdl[t]] = None
        /\ \A u \in Threads \ {t} : hdl[u] # hdl[t]
    BY DEF ThreadInv, Modifying, ModifyPc, Exclusive, UsePc
  <1>2. \A k \in Keys : Users(k)' = Users(k)
    BY <1>1 DEF Users
  <1>3. BindInv'
    BY <1>1
  <1> QED
    BY <1>2, <1>3, SameTable

\* Unbinding it does the reverse.
LEMMA DestroyUnbindTable ==
  ASSUME OrderlyInv, NEW t \in Threads, NEW h \in Handles, DestroyUnbind(t, h)
  PROVE  Orderly
  <1> USE HostMapAssumption
      DEF OrderlyInv, IInv, TypeOK, locals, fields, Begin, BindInv, DestroyUnbind, NoCallOn
  <1>1. \A k \in Keys : Users(k)' = Users(k)
    BY DEF Users
  <1>2. BindInv'
    OBVIOUS
  <1> QED
    BY <1>1, <1>2, SameTable

\* The first MODIFY_QP that brings the connection to RTS establishes it; a later
\* one changes nothing.
LEMMA ModifyReadyTable ==
  ASSUME OrderlyInv, NEW t \in Threads, ModifyReady(t)
  PROVE  Orderly
  <1> USE HostMapAssumption
      DEF OrderlyInv, IInv, TypeOK, locals, fields, Begin, Done, BindInv, ModifyReady
  <1> PICK k : k = key[t]
    OBVIOUS
  <1>1. /\ k \in Keys /\ cur[t] = host_map[k] /\ cur[t] \in Conns
    BY DEF ThreadInv, Modifying, ModifyPc
  <1>2. \A l \in Keys : Users(l)' = Users(l)
    BY DEF Users
  <1>3. BindInv'
    OBVIOUS
  <1>4. CASE status[cur[t]] = 4
    BY <1>1, <1>2, <1>3, <1>4, SameTable
  <1>5. CASE status[cur[t]] # 4
    <2>1. RefExact'
      BY <1>2 DEF RefExact
    <2>2. /\ host_map' = host_map /\ status'[cur[t]] = 4 /\ cur[t] # None
          /\ \A c \in Conns \ {cur[t]} : status'[c] = status[c]
      BY <1>1
    <2>3. ConnState(k) = "up" /\ ConnState(k)' = "ready"
      BY <1>1, <1>5, <2>2 DEF ConnState
    <2>4. \A l \in Keys \ {k} : ConnState(l)' = ConnState(l)
      BY <1>1, <2>2 DEF ConnState, MapInv
    <2> QED
      BY <1>1, <1>2, <1>3, <2>1, <2>3, <2>4, EstablishStep DEF Orderly
  <1> QED
    BY <1>4, <1>5

\* A QP that is free takes a connection that was down.
LEMMA ModifyNewTable ==
  ASSUME ~Reconnect, OrderlyInv, NEW t \in Threads, NEW h \in Handles,
         NEW k \in Keys, NEW c \in Conns, ModifyNew(t, h, k, c)
  PROVE  Orderly
  <1> USE HostMapAssumption
      DEF OrderlyInv, IInv, TypeOK, locals, fields, Begin, BindInv, ModifyNew,
          NoCallOn, NotFound, InitialRefs
  <1>1. Users(k) = {} /\ (\A l \in Keys : h \notin Users(l))
    BY Unmapped DEF Users
  <1>2. \A l \in Keys : Users(l)' = IF l = k THEN Users(l) \cup {h} ELSE Users(l)
    BY DEF Users
  <1>3. BindInv'
    OBVIOUS
  <1>4. host_map'[k] = c /\ (\A l \in Keys \ {k} : host_map'[l] = host_map[l])
    OBVIOUS
  <1>5. \A l \in Keys \ {k} : host_map[l] # None => host_map[l] # c /\ host_map[l] \in Conns
    BY DEF MapInv
  <1>6. RefExact'
    <2> SUFFICES ASSUME NEW l \in Keys
                 PROVE  IF host_map'[l] = None THEN Users(l)' = {}
                        ELSE /\ Users(l)' # {}
                             /\ ref_cnt'[host_map'[l]] = Cardinality(Users(l)')
      BY DEF RefExact
    <2>1. CASE l = k
      <3>1. Cardinality({h}) = 1
        BY FS_Singleton
      <3>2. Users(k)' = {h}
        BY <1>1, <1>2
      <3> QED
        BY <1>4, <2>1, <3>1, <3>2
    <2>2. CASE l # k
      BY <1>2, <1>4, <1>5, <2>2 DEF RefExact
    <2> QED
      BY <2>1, <2>2
  <1>7. ConnState(k) = "down" /\ ConnState(k)' = "up"
    BY <1>4 DEF ConnState
  <1>8. \A l \in Keys \ {k} : ConnState(l)' = ConnState(l)
    BY <1>4, <1>5 DEF ConnState
  <1> QED
    BY <1>1, <1>2, <1>3, <1>6, <1>7, <1>8, AcquireStep DEF Orderly

\* A QP that is free takes a connection that is there already.
LEMMA ModifyShareTable ==
  ASSUME ~Reconnect, OrderlyInv, NEW t \in Threads, NEW h \in Handles,
         NEW k \in Keys, ModifyShare(t, h, k)
  PROVE  Orderly
  <1> USE HostMapAssumption
      DEF OrderlyInv, IInv, TypeOK, locals, fields, Begin, BindInv, ModifyShare,
          NoCallOn, NotFound, RefTaken
  <1>1. \A l \in Keys : h \notin Users(l)
    BY DEF Users
  <1>2. \A l \in Keys : Users(l)' = IF l = k THEN Users(l) \cup {h} ELSE Users(l)
    BY DEF Users
  <1>3. BindInv'
    OBVIOUS
  <1>4. host_map[k] \in Conns
        /\ \A l \in Keys \ {k} : host_map[l] # host_map[k]
    BY DEF MapInv
  <1>5. RefExact'
    <2> SUFFICES ASSUME NEW l \in Keys
                 PROVE  IF host_map[l] = None THEN Users(l)' = {}
                        ELSE /\ Users(l)' # {}
                             /\ ref_cnt'[host_map[l]] = Cardinality(Users(l)')
      BY DEF RefExact
    <2>1. CASE l = k
      <3>1. Cardinality(Users(k) \cup {h}) = Cardinality(Users(k)) + 1
        BY <1>1, UsersFinite, FS_AddElement
      <3>2. ref_cnt[host_map[k]] = Cardinality(Users(k))
        BY DEF RefExact
      <3> QED
        BY <1>2, <1>4, <2>1, <3>1, <3>2
    <2>2. CASE l # k
      BY <1>2, <1>4, <2>2 DEF RefExact
    <2> QED
      BY <2>1, <2>2
  <1>6. \A l \in Keys : ConnState(l)' = ConnState(l)
    BY DEF ConnState
  <1>7. ConnState(k) # "down"
    BY DEF ConnState
  <1> QED
    BY <1>1, <1>2, <1>3, <1>5, <1>6, <1>7, AcquireStep DEF Orderly

\* One holder less; the last one takes the connection down.
LEMMA DestroyDropTable ==
  ASSUME OrderlyInv, NEW t \in Threads, DestroyDrop(t)
  PROVE  Orderly
  <1> USE HostMapAssumption DEF OrderlyInv
  <1> PICK h, k, c : h = hdl[t] /\ k = key[t] /\ c = host_map[key[t]]
    OBVIOUS
  <1>1. /\ h \in Handles /\ k \in Keys /\ c \in Conns /\ c # None /\ host_map[k] = c
        /\ src_qp_map[h] = None /\ pc[t] = "d_drop"
        /\ h \in Users(k)
    BY LastUser, UsersFinite DEF DestroyDrop, IInv, ThreadInv, Dropping
  <1>2. /\ ref_cnt' = [ref_cnt EXCEPT ![c] = @ - 1]
        /\ IF LastRef(c)
           THEN /\ host_map' = [host_map EXCEPT ![k] = None]
                /\ Begin(t, h, k, c, "d_qp")
           ELSE Done(t) /\ UNCHANGED host_map
        /\ UNCHANGED <<src_qp_map, status>>
    BY <1>1 DEF DestroyDrop, Erased
  <1>3. \A u \in Threads \ {t} : hdl[u] # h
    BY <1>1 DEF IInv, Exclusive, UsePc
  <1>4. \A u \in Threads \ {t} :
          pc'[u] = pc[u] /\ hdl'[u] = hdl[u] /\ key'[u] = key[u]
    BY <1>2 DEF Begin, Done, IInv, TypeOK
  <1>5. pc'[t] \in {"idle", "d_qp"}
    BY <1>2 DEF Begin, Done, IInv, TypeOK
  <1>6. \A l \in Keys : Users(l)' = IF l = k THEN Users(l) \ {h} ELSE Users(l)
    BY <1>1, <1>2, <1>3, <1>4, <1>5 DEF Users
  <1>7. BindInv'
    BY <1>2, <1>4, <1>5 DEF BindInv
  <1>8. /\ ref_cnt[c] = Cardinality(Users(k)) /\ Cardinality(Users(k)) \in Nat
        /\ Cardinality(Users(k)) >= 1
        /\ Cardinality(Users(k) \ {h}) = Cardinality(Users(k)) - 1
        /\ Cardinality(Users(k)) = 1 => Users(k) = {h}
    BY <1>1, UsersFinite, OneUserLess DEF RefExact
  <1>9. LastRef(c) <=> Users(k) = {h}
    <2>1. Cardinality({h}) = 1
      BY FS_Singleton
    <2>2. LastRef(c) <=> Cardinality(Users(k)) = 1
      BY <1>8 DEF LastRef
    <2> QED
      BY <1>8, <2>1, <2>2
  <1>10. \A l \in Keys \ {k} : host_map[l] # c /\ host_map'[l] = host_map[l]
    BY <1>1, <1>2 DEF IInv, MapInv, TypeOK
  <1>11. host_map'[k] = IF Users(k) = {h} THEN None ELSE c
    BY <1>1, <1>2, <1>9 DEF IInv, TypeOK
  <1>12. /\ ref_cnt'[c] = ref_cnt[c] - 1
         /\ \A l \in Keys \ {k} : host_map[l] # None => ref_cnt'[host_map[l]] = ref_cnt[host_map[l]]
    BY <1>1, <1>2, <1>10 DEF IInv, TypeOK
  <1>13. RefExact'
    <2> SUFFICES ASSUME NEW l \in Keys
                 PROVE  IF host_map'[l] = None THEN Users(l)' = {}
                        ELSE /\ Users(l)' # {}
                             /\ ref_cnt'[host_map'[l]] = Cardinality(Users(l)')
      BY DEF RefExact
    <2>1. CASE l = k
      BY <1>1, <1>6, <1>8, <1>11, <1>12, <2>1
    <2>2. CASE l # k
      BY <1>6, <1>10, <1>12, <2>2 DEF RefExact
    <2> QED
      BY <2>1, <2>2
  <1>14. \A l \in Keys : ConnState(l)' =
           IF l = k /\ Users(k) = {h} THEN "down" ELSE ConnState(l)
    BY <1>1, <1>2, <1>10, <1>11 DEF ConnState
  <1> QED
    BY <1>1, <1>6, <1>7, <1>13, <1>14, ReleaseStep DEF Orderly

\* Every step of orderly clients keeps the counts exact and is a step of the
\* table or a stutter.
LEMMA OrderlyStep ==
  ASSUME ~Reconnect
  PROVE  OrderlyInv /\ [Next]_vars => OrderlyInv' /\ [Shared!Next]_Table
  <1> SUFFICES ASSUME OrderlyInv, [Next]_vars PROVE Orderly
    BY StepInv DEF OrderlyInv, Orderly
  <1>1. ASSUME NEW t \in Threads, Continue(t) PROVE Orderly
    BY <1>1, QuietTable, ModifySrcTable, ModifyReadyTable, DestroyDropTable DEF Continue
  <1>2. ASSUME NEW t \in Threads, NEW h \in Handles, UseLookup(t, h) PROVE Orderly
    <2>1. UNCHANGED <<host_map, ref_cnt, status, src_qp_map>>
      BY <1>2 DEF UseLookup, fields
    <2>2. \A k \in Keys : Users(k)' = Users(k)
      BY <1>2, HostMapAssumption DEF UseLookup, Begin, Users, OrderlyInv, IInv, TypeOK
    <2>3. BindInv'
      BY <1>2 DEF UseLookup, Begin, BindInv, OrderlyInv, IInv, TypeOK
    <2> QED
      BY <2>1, <2>2, <2>3, SameTable
  <1>3. ASSUME NEW t \in Threads, NEW h \in Handles, Request(t, h) PROVE Orderly
    BY <1>2, <1>3, ModifyNewTable, ModifyShareTable, DestroyUnbindTable DEF Request
  <1>4. ASSUME UNCHANGED <<locals, host_map, src_qp_map, fields>> PROVE Orderly
    <2>1. \A k \in Keys : Users(k)' = Users(k)
      BY <1>4 DEF Users, locals
    <2>2. BindInv'
      BY <1>4 DEF BindInv, OrderlyInv, locals
    <2> QED
      BY <1>4, <2>1, <2>2, SameTable DEF fields
  <1>5. ASSUME NEW k \in Keys, Remote(k) PROVE Orderly
    BY <1>4, <1>5 DEF Remote, RemoteInsert, RemoteDelete
  <1> QED
    BY <1>1, <1>3, <1>4, <1>5 DEF Next, Dead, vars

\* With no thread under way and nothing bound the counts are exact, and the
\* table is empty.
LEMMA OrderlyInit == Init => OrderlyInv /\ Shared!Init
  <1> SUFFICES ASSUME Init PROVE OrderlyInv /\ Shared!Init
    OBVIOUS
  <1>1. \A k \in Keys : Users(k) = {}
    BY HostMapAssumption DEF Init, Users
  <1> QED
    BY <1>1, InitInv DEF Init, OrderlyInv, BindInv, RefExact, Shared!Init

\* With orderly clients the invariant holds in every reachable state.
THEOREM OrderlyInvariance ==
  ASSUME ~Reconnect
  PROVE  Spec => []OrderlyInv
  BY OrderlyInit, OrderlyStep, PTL DEF Spec

\* With orderly clients ref_cnt is the number of virtual QPs that hold the
\* connection, and a connection is in host_map exactly while there are any.
THEOREM CountExact ==
  ASSUME ~Reconnect
  PROVE  Spec => []RefExact
  <1>1. OrderlyInv => RefExact
    BY DEF OrderlyInv
  <1> QED
    BY <1>1, OrderlyInvariance, PTL

\* With orderly clients the locked, counted, multi-threaded connection table
\* implements the abstract one.
THEOREM Refinement ==
  ASSUME ~Reconnect
  PROVE  Spec => ImplementsSharedConn
  <1>1. OrderlyInv /\ [Next]_vars => [Shared!Next]_Table
    BY OrderlyStep
  <1> QED
    BY <1>1, OrderlyInit, OrderlyInvariance, PTL
       DEF Spec, ImplementsSharedConn, Shared!Spec, Table, ConnState
=============================================================================
