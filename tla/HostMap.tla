------------------------------- MODULE HostMap -------------------------------
(***************************************************************************)
(* The connection table of one scalerouter daemon, at the granularity of   *)
(* its mutexes (scalerouter.cpp, handle_process).                          *)
(*                                                                         *)
(* Virtual QPs (Handles) of many client processes share one physical RC QP *)
(* per remote host (Keys; the router's own gid is the other, constant,     *)
(* half of a HostKey).  The shared object is a heap-allocated conn_resources *)
(* (Conns are its addresses) that host_map finds and ref_cnt keeps alive.  *)
(*                                                                         *)
(* Every request is served by a thread of its own.  A critical section is  *)
(* one atomic step; so is a piece of code that touches no shared state,    *)
(* joined to the section after it.  A pointer that a thread carries from   *)
(* one section to the next is a variable (cur): it may be stale when used. *)
(***************************************************************************)
EXTENDS Integers, FiniteSets

CONSTANTS
  Threads,     \* threads of the router that run handle_process
  Handles,     \* virtual QPs: (pid << 16) | counter, verbs.c
  Keys,        \* remote hosts this router shares a connection with
  Conns,       \* addresses that calloc may return for a conn_resources
  None,        \* NULL, "not in the map", "no thread"
  MaxRefs,     \* bound on ref_cnt (a uint32_t in the code)
  Reconnect,   \* may a client bring a QP to RTR that is already bound?
  NicMayFail   \* may the verbs calls that create or modify a QP fail?

ASSUME HostMapAssumption ==
  /\ IsFiniteSet(Handles)
  /\ None \notin Threads \cup Handles \cup Keys \cup Conns
  /\ MaxRefs \in Nat \ {0}
  /\ Reconnect \in BOOLEAN
  /\ NicMayFail \in BOOLEAN

VARIABLES
  pc,          \* where each thread is in its request
  hdl,         \* the virtual QP the request names
  key,         \* the local hostkey
  cur,         \* the local conn pointer
  host_map,    \* hostmap_lock.host_map
  host_lock,   \* a thread that ended without releasing hostmap_lock.mutex
  src_qp_map,  \* src_qp_maplock.src_qp_map
  dst_qp_map,  \* domain of dst_qp_maplock.dst_qp_map
  live,        \* allocated conn_resources
  ref_cnt, qp, status, mutex,   \* fields of a conn_resources
  ready,       \* virtual QPs whose last MODIFY_QP was answered flag = 1
  crashed      \* the daemon died of an invalid memory access

locals == <<pc, hdl, key, cur>>
fields == <<live, ref_cnt, qp, status, mutex>>
vars == <<locals, host_map, host_lock, src_qp_map, dst_qp_map, fields, ready,
          crashed>>

ModifyPc  == {"m_create", "m_reuse", "m_src", "m_tell", "m_wait", "m_find",
              "m_ready"}
DestroyPc == {"d_drop", "d_qp", "d_free"}
UsePc     == {"u_find", "u_conn"}

TypeOK ==
  /\ pc \in [Threads -> {"idle"} \cup ModifyPc \cup DestroyPc \cup UsePc]
  /\ hdl \in [Threads -> Handles \cup {None}]
  /\ key \in [Threads -> Keys \cup {None}]
  /\ cur \in [Threads -> Conns \cup {None}]
  /\ host_map \in [Keys -> Conns \cup {None}]
  /\ host_lock \in Threads \cup {None}
  /\ src_qp_map \in [Handles -> Keys \cup {None}]
  /\ dst_qp_map \subseteq Keys
  /\ live \subseteq Conns
  /\ ref_cnt \in [Conns -> Nat]
  /\ qp \in [Conns -> {"null", "made", "gone"}]
  /\ status \in [Conns -> {0, 4}]
  /\ mutex \in [Conns -> Threads \cup {None}]
  /\ ready \subseteq Handles
  /\ crashed \in BOOLEAN

Init ==
  /\ pc = [t \in Threads |-> "idle"]
  /\ hdl = [t \in Threads |-> None]
  /\ key = [t \in Threads |-> None]
  /\ cur = [t \in Threads |-> None]
  /\ host_map = [k \in Keys |-> None]
  /\ host_lock = None
  /\ src_qp_map = [h \in Handles |-> None]
  /\ dst_qp_map = {}
  /\ live = {}
  /\ ref_cnt = [c \in Conns |-> 0]
  /\ qp = [c \in Conns |-> "null"]
  /\ status = [c \in Conns |-> 0]
  /\ mutex = [c \in Conns |-> None]
  /\ ready = {}
  /\ crashed = FALSE

-----------------------------------------------------------------------------
(* Threads: a request begins in an idle thread, goes on, and ends.          *)

Begin(t, h, k, c, p) ==
  /\ pc' = [pc EXCEPT ![t] = p]
  /\ hdl' = [hdl EXCEPT ![t] = h]
  /\ key' = [key EXCEPT ![t] = k]
  /\ cur' = [cur EXCEPT ![t] = c]

Goto(t, p) ==
  /\ pc' = [pc EXCEPT ![t] = p]
  /\ UNCHANGED <<hdl, key, cur>>

\* The answer is written and the thread ends, or it jumps to kill: the locals
\* go out of scope either way.
Done(t) == Begin(t, None, None, None, "idle")

\* An application brings a QP up and tears it down in one thread, with no
\* other call on that QP under way; posts and polls on a QP may overlap.
NoCallOn(h) == \A t \in Threads : hdl[t] # h
NoSetupOn(h) == \A t \in Threads : hdl[t] = h => pc[t] \in UsePc

Crash == crashed' = TRUE

StillLocked(c) == mutex
Unlocked(c) == [mutex EXCEPT ![c] = None]

-----------------------------------------------------------------------------
(* IBV_MODIFY_QP, sent by the client at the transition to RTR.              *)

\* A new conn_resources comes from calloc (0) and is given one reference.
NoReferences == 0
InitialRefs == 1

Unchecked(k) == TRUE
NotFound(k) == host_map[k] = None

\* No entry for the host: the pre-allocated conn_resources, its own mutex
\* held, goes into host_map before its QP exists.
ModifyNew(t, h, k, c) ==
  /\ pc[t] = "idle" /\ NoCallOn(h)
  /\ Reconnect \/ src_qp_map[h] = None
  /\ host_lock = None /\ NotFound(k)
  /\ c \notin live
  /\ live' = live \cup {c}
  /\ ref_cnt' = [ref_cnt EXCEPT ![c] = InitialRefs]
  /\ qp' = [qp EXCEPT ![c] = "null"]
  /\ status' = [status EXCEPT ![c] = 0]
  /\ mutex' = [mutex EXCEPT ![c] = t]
  /\ host_map' = [host_map EXCEPT ![k] = c]
  /\ Begin(t, h, k, c, "m_create")
  /\ ready' = ready \ {h}
  /\ UNCHANGED <<host_lock, src_qp_map, dst_qp_map, crashed>>

NoRefTaken(c) == ref_cnt
RefTaken(c) == [ref_cnt EXCEPT ![c] = @ + 1]

\* An entry exists: take a reference under the host_map lock.  The spare
\* conn_resources that was allocated for the other case is freed later without
\* another thread having seen it, and is left out.
ModifyShare(t, h, k) ==
  /\ pc[t] = "idle" /\ NoCallOn(h)
  /\ Reconnect \/ src_qp_map[h] = None
  /\ host_lock = None /\ ~NotFound(k)
  /\ ref_cnt[host_map[k]] < MaxRefs
  /\ ref_cnt' = RefTaken(host_map[k])
  /\ Begin(t, h, k, host_map[k], "m_reuse")
  /\ ready' = ready \ {h}
  /\ UNCHANGED <<host_map, host_lock, src_qp_map, dst_qp_map, live, qp,
                 status, mutex, crashed>>

\* resources_create fills conn->qp, the thread reads qp_num and unlocks.
ModifyCreate(t) ==
  /\ pc[t] = "m_create"
  /\ qp' = [qp EXCEPT ![cur[t]] = "made"]
  /\ mutex' = Unlocked(cur[t])
  /\ Goto(t, "m_src")
  /\ UNCHANGED <<host_map, host_lock, src_qp_map, dst_qp_map, live, ref_cnt,
                 status, ready, crashed>>

\* resources_create failed: that is logged, and conn->qp, still NULL, is read.
ModifyCreateFails(t) ==
  /\ pc[t] = "m_create" /\ NicMayFail
  /\ Crash
  /\ UNCHANGED <<locals, host_map, host_lock, src_qp_map, dst_qp_map, fields,
                 ready>>

\* old_conn->qp->qp_num is read without old_conn->mutex.
ModifyReuse(t) ==
  /\ pc[t] = "m_reuse"
  /\ IF cur[t] \in live /\ qp[cur[t]] = "made"
     THEN Goto(t, "m_src") /\ UNCHANGED crashed
     ELSE Crash /\ UNCHANGED locals
  /\ UNCHANGED <<host_map, host_lock, src_qp_map, dst_qp_map, fields, ready>>

\* src_qp_map[handle] = hostkey, whether or not the handle has an entry.
ModifySrc(t) ==
  /\ pc[t] = "m_src"
  /\ src_qp_map' = [src_qp_map EXCEPT ![hdl[t]] = key[t]]
  /\ Goto(t, "m_tell")
  /\ UNCHANGED <<host_map, host_lock, dst_qp_map, fields, ready, crashed>>

\* update_dst_router(INSERT): the peer is told, or the request is killed and
\* what it did so far stays.
ModifyTell(t) ==
  /\ pc[t] = "m_tell"
  /\ Goto(t, "m_wait") \/ Done(t)
  /\ UNCHANGED <<host_map, host_lock, src_qp_map, dst_qp_map, fields, ready,
                 crashed>>

\* The busy wait for the peer's entry.
ModifyWait(t) ==
  /\ pc[t] = "m_wait" /\ key[t] \in dst_qp_map
  /\ Goto(t, "m_find")
  /\ UNCHANGED <<host_map, host_lock, src_qp_map, dst_qp_map, fields, ready,
                 crashed>>

\* The second lookup in host_map; "goto kill" leaves the lock held.
ModifyFind(t) ==
  /\ pc[t] = "m_find" /\ host_lock = None
  /\ IF host_map[key[t]] # None
     THEN /\ Begin(t, hdl[t], key[t], host_map[key[t]], "m_ready")
          /\ UNCHANGED host_lock
     ELSE /\ Done(t)
          /\ host_lock' = t
  /\ UNCHANGED <<host_map, src_qp_map, dst_qp_map, fields, ready, crashed>>

\* Under conn->mutex: INIT, RTR, RTS unless another request has done so.
ModifyReady(t) ==
  /\ pc[t] = "m_ready" /\ mutex[cur[t]] = None
  /\ status' = [status EXCEPT ![cur[t]] = 4]
  /\ ready' = ready \cup {hdl[t]}
  /\ Done(t)
  /\ UNCHANGED <<host_map, host_lock, src_qp_map, dst_qp_map, live, ref_cnt,
                 qp, mutex, crashed>>

\* modify_qp_to_ready failed: status stays 0 and the answer is flag = 0.
ModifyNotReady(t) ==
  /\ pc[t] = "m_ready" /\ mutex[cur[t]] = None
  /\ NicMayFail /\ status[cur[t]] = 0
  /\ Done(t)
  /\ UNCHANGED <<host_map, host_lock, src_qp_map, dst_qp_map, fields, ready,
                 crashed>>

-----------------------------------------------------------------------------
(* IBV_DESTROY_QP.  On a QP that is not bound it changes nothing.           *)

DestroyUnbind(t, h) ==
  /\ pc[t] = "idle" /\ NoCallOn(h)
  /\ src_qp_map[h] # None
  /\ src_qp_map' = [src_qp_map EXCEPT ![h] = None]
  /\ ready' = ready \ {h}
  /\ Begin(t, h, src_qp_map[h], None, "d_drop")
  /\ UNCHANGED <<host_map, host_lock, dst_qp_map, fields, crashed>>

NotErased(k) == host_map
Erased(k) == [host_map EXCEPT ![k] = None]

AnyRef(c) == TRUE
BelowZero(c) == ref_cnt[c] - 1 < 0
LastRef(c) == ref_cnt[c] - 1 <= 0

\* Give the reference back; the last one takes the entry out of host_map.
DestroyDrop(t) ==
  LET c == host_map[key[t]] IN
  /\ pc[t] = "d_drop" /\ host_lock = None
  /\ IF c = None
     THEN Done(t) /\ UNCHANGED <<ref_cnt, host_map>>
     ELSE /\ ref_cnt' = [ref_cnt EXCEPT ![c] = @ - 1]
          /\ IF LastRef(c)
             THEN /\ host_map' = Erased(key[t])
                  /\ Begin(t, hdl[t], key[t], c, "d_qp")
             ELSE Done(t) /\ UNCHANGED host_map
  /\ UNCHANGED <<host_lock, src_qp_map, dst_qp_map, live, qp, status, mutex,
                 ready, crashed>>

DestroyQp(t) ==
  /\ pc[t] = "d_qp" /\ mutex[cur[t]] = None
  /\ mutex' = [mutex EXCEPT ![cur[t]] = t]
  /\ qp' = [qp EXCEPT ![cur[t]] = "gone"]
  /\ Goto(t, "d_free")
  /\ UNCHANGED <<host_map, host_lock, src_qp_map, dst_qp_map, live, ref_cnt,
                 status, ready, crashed>>

\* update_dst_router(DELETE), whose failure is only logged; unlock; free.
DestroyFree(t) ==
  /\ pc[t] = "d_free"
  /\ mutex' = Unlocked(cur[t])
  /\ live' = live \ {cur[t]}
  /\ Done(t)
  /\ UNCHANGED <<host_map, host_lock, src_qp_map, dst_qp_map, ref_cnt, qp,
                 status, ready, crashed>>

-----------------------------------------------------------------------------
(* IBV_POST_SEND, IBV_POST_RECV and IBV_POLL_CQ find the connection alike.  *)

UseLookup(t, h) ==
  /\ pc[t] = "idle" /\ NoSetupOn(h)
  /\ src_qp_map[h] # None
  /\ Begin(t, h, src_qp_map[h], None, "u_find")
  /\ UNCHANGED <<host_map, host_lock, src_qp_map, dst_qp_map, fields, ready,
                 crashed>>

UseFind(t) ==
  /\ pc[t] = "u_find" /\ host_lock = None
  /\ IF host_map[key[t]] # None
     THEN Begin(t, hdl[t], key[t], host_map[key[t]], "u_conn")
     ELSE Done(t)
  /\ UNCHANGED <<host_map, host_lock, src_qp_map, dst_qp_map, fields, ready,
                 crashed>>

\* Post or poll under conn->mutex; nothing here depends on the outcome.
UseConn(t) ==
  /\ pc[t] = "u_conn" /\ mutex[cur[t]] = None
  /\ Done(t)
  /\ UNCHANGED <<host_map, host_lock, src_qp_map, dst_qp_map, fields, ready,
                 crashed>>

-----------------------------------------------------------------------------
(* handle_remote_router: a peer adds or removes its entry.                  *)

RemoteInsert(k) ==
  /\ dst_qp_map' = dst_qp_map \cup {k}
  /\ UNCHANGED <<locals, host_map, host_lock, src_qp_map, fields, ready, crashed>>

RemoteDelete(k) ==
  /\ dst_qp_map' = dst_qp_map \ {k}
  /\ UNCHANGED <<locals, host_map, host_lock, src_qp_map, fields, ready, crashed>>

-----------------------------------------------------------------------------

\* The thread takes the next step of a request it has begun.
Continue(t) ==
  \/ ModifyCreate(t) \/ ModifyCreateFails(t) \/ ModifyReuse(t) \/ ModifySrc(t)
  \/ ModifyTell(t) \/ ModifyWait(t) \/ ModifyFind(t)
  \/ ModifyReady(t) \/ ModifyNotReady(t)
  \/ DestroyDrop(t) \/ DestroyQp(t) \/ DestroyFree(t)
  \/ UseFind(t) \/ UseConn(t)

Request(t, h) ==
  \/ \E k \in Keys : ModifyShare(t, h, k) \/ \E c \in Conns : ModifyNew(t, h, k, c)
  \/ DestroyUnbind(t, h)
  \/ UseLookup(t, h)

Remote(k) == RemoteInsert(k) \/ RemoteDelete(k)

\* A daemon that has died does nothing any more.
Dead == crashed /\ UNCHANGED vars

Next ==
  \/ /\ ~crashed
     /\ \/ \E t \in Threads : Continue(t)
        \/ \E t \in Threads, h \in Handles : Request(t, h)
        \/ \E k \in Keys : Remote(k)
  \/ Dead

Spec == Init /\ [][Next]_vars

-----------------------------------------------------------------------------
(* Properties                                                               *)

\* The virtual QPs that hold the connection of host k: those bound to it, those
\* that a request is binding to it, those that a request is about to release.
Users(k) ==
  {h \in Handles : src_qp_map[h] = k}
    \cup {h \in Handles : \E t \in Threads :
            /\ hdl[t] = h /\ key[t] = k
            /\ pc[t] \in {"m_create", "m_reuse", "m_src", "d_drop"}}

\* "reference counting of virtual conn_ids" (scalerouter.h:97): the count of a
\* shared connection is the number of virtual QPs that hold it, and it is in
\* host_map exactly while there are any.  Two threads update it in separate
\* sections from the map it counts.
RefExact ==
  \A k \in Keys :
    IF host_map[k] = None THEN Users(k) = {}
    ELSE /\ Users(k) # {}
         /\ ref_cnt[host_map[k]] = Cardinality(Users(k))

\* Whatever clients do, the count is never below the number of virtual QPs that
\* hold the connection: the last IBV_DESTROY_QP cannot come too early.
RefCovers ==
  \A k \in Keys :
    IF host_map[k] = None THEN Users(k) = {}
    ELSE Cardinality(Users(k)) <= ref_cnt[host_map[k]]

\* A pointer taken from host_map under its lock, and used after the lock was
\* released, still points to an allocated conn_resources whose QP has not been
\* destroyed; only the thread that destroys it sees it destroyed.
NoUseAfterFree ==
  \A t \in Threads :
    /\ cur[t] # None => cur[t] \in live
    /\ pc[t] \in {"m_ready", "u_conn", "d_qp"} => qp[cur[t]] = "made"

\* No two threads tear the same connection down, and none that is being torn
\* down can be found in host_map.
FreedOnce ==
  \A t \in Threads : pc[t] \in {"d_qp", "d_free"} =>
    /\ \A k \in Keys : host_map[k] # cur[t]
    /\ \A u \in Threads \ {t} : pc[u] \in {"d_qp", "d_free"} => cur[u] # cur[t]

\* The paths of IBV_MODIFY_QP that jump to kill with hostmap_lock.mutex held
\* (lines 1749 and 1755) are never taken.
LockReleased == host_lock = None

\* A client that was answered flag = 1, and has not torn its QP down since, has
\* a connection in RTS behind its QP.
ReadyConnected ==
  \A h \in ready :
    LET c == host_map[src_qp_map[h]] IN
    /\ src_qp_map[h] # None /\ c # None
    /\ c \in live /\ qp[c] = "made" /\ status[c] = 4

\* All memory is accounted for: an allocated conn_resources is in host_map or
\* in the hands of the thread that frees it.
NoLeak ==
  \A c \in live :
    \/ \E k \in Keys : host_map[k] = c
    \/ \E t \in Threads : pc[t] \in {"d_qp", "d_free"} /\ cur[t] = c

\* The connection under a virtual QP is not replaced while the QP stays ready,
\* however many others come and go.
ReadyStable ==
  [][\A h \in ready \cap ready' :
       host_map'[src_qp_map'[h]] = host_map[src_qp_map[h]]]_vars

\* conn->mutex is there "to handle QP operations" (scalerouter.h:100): a thread
\* that has found a connection in host_map does not touch its QP while the
\* creator, holding the mutex, has yet to make it.
QpThereWhenReused ==
  \A t \in Threads : pc[t] = "m_reuse" => qp[cur[t]] # "null"

\* What host_map promises, as a table of holders (see SharedConn).
Shared == INSTANCE SharedConn WITH
  users <- [k \in Keys |-> Users(k)],
  conn  <- [k \in Keys |-> IF host_map[k] = None THEN "down"
                           ELSE IF status[host_map[k]] = 4 THEN "ready"
                           ELSE "up"]

\* The locks and counts implement that table: a connection is up exactly while
\* some virtual QP holds it, and is taken down by its last holder.
ImplementsSharedConn == Shared!Spec
=============================================================================
