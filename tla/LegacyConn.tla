----------------------------- MODULE LegacyConn -----------------------------
(***************************************************************************)
(* The legacy requests (CREATE_RES, SETUP_CONN, POST_SEND, POST_RECV,      *)
(* POLL_CQ, DESTROY_RES) of handle_process, composed with the requests of  *)
(* HostMap: both kinds of clients share host_map, the conn_resources and   *)
(* their mutexes.                                                          *)
(*                                                                         *)
(* A legacy client names its virtual connection by a ConnId (process, host *)
(* and QP numbers), which conn_map leads to the conn_resources; posts and  *)
(* polls do not go through host_map.  INIT_RES changes nothing.  A request *)
(* that jumps to kill may keep the lock it holds, and then its thread ends *)
(* as the owner: connmap_lock and mutex name such a thread for good.       *)
(***************************************************************************)
EXTENDS HostMap

CONSTANTS
  VConns,      \* legacy clients, each with one virtual connection at a time
  Careless,    \* those that may set up twice, or post before they set up
  Unprepared,  \* those that may set up, post or tear down without CREATE_RES
  LegacyKeys,  \* the hosts they connect to
  PostMayFail  \* may ibv_post_send and ibv_post_recv fail?

ASSUME LegacyAssumption ==
  /\ IsFiniteSet(VConns)
  /\ VConns \cap Handles = {} /\ None \notin VConns
  /\ Careless \subseteq VConns /\ Unprepared \subseteq VConns
  /\ LegacyKeys \subseteq Keys
  \* conn_map is kept by client: one that was answered no host names only one
  /\ Unprepared = {} \/ \E k \in Keys : LegacyKeys = {k}
  /\ PostMayFail \in BOOLEAN

VARIABLES
  vhost,         \* the host a client was answered CREATE_RES for
  conn_map,      \* connmap_lock.conn_map
  connmap_lock,  \* a thread that ended without releasing connmap_lock.mutex
  wedged         \* connections whose mutex a failed post has kept

legacy == <<vhost, conn_map, connmap_lock, wedged>>
allvars == <<vars, legacy>>

CreatePc == {"c_create", "c_reuse"}
SetupPc  == {"s_conn", "s_map"}
PostPc   == {"p_find", "p_conn"}

LegacyTypeOK ==
  /\ pc \in [Threads -> {"idle"} \cup ModifyPc \cup DestroyPc \cup UsePc
                          \cup CreatePc \cup SetupPc \cup PostPc \cup {"x_erase"}]
  /\ hdl \in [Threads -> Handles \cup VConns \cup {None}]
  /\ ref_cnt \in [Conns -> Nat]
  /\ mutex \in [Conns -> Threads \cup {None}]
  /\ vhost \in [VConns -> Keys \cup {None}]
  /\ conn_map \in [VConns -> Conns \cup {None}]
  /\ connmap_lock \in Threads \cup {None}
  /\ wedged \subseteq live

LegacyInit ==
  /\ Init
  /\ vhost = [v \in VConns |-> None]
  /\ conn_map = [v \in VConns |-> None]
  /\ connmap_lock = None
  /\ wedged = {}

-----------------------------------------------------------------------------
(* CREATE_RES: as the first half of IBV_MODIFY_QP, with no src_qp_map.      *)

MayCreate(v, k) == vhost[v] = None \/ (Reconnect /\ vhost[v] = k)

CreateNew(t, v, k, c) ==
  /\ pc[t] = "idle" /\ NoCallOn(v) /\ MayCreate(v, k)
  /\ host_lock = None /\ NotFound(k)
  /\ c \notin live
  /\ live' = live \cup {c}
  /\ ref_cnt' = [ref_cnt EXCEPT ![c] = InitialRefs]
  /\ qp' = [qp EXCEPT ![c] = "null"]
  /\ status' = [status EXCEPT ![c] = 0]
  /\ mutex' = [mutex EXCEPT ![c] = t]
  /\ host_map' = [host_map EXCEPT ![k] = c]
  /\ Begin(t, v, k, c, "c_create")
  /\ UNCHANGED <<host_lock, src_qp_map, dst_qp_map, ready, crashed, legacy>>

CreateShare(t, v, k) ==
  /\ pc[t] = "idle" /\ NoCallOn(v) /\ MayCreate(v, k)
  /\ host_lock = None /\ ~NotFound(k)
  /\ ref_cnt[host_map[k]] < MaxRefs
  /\ ref_cnt' = RefTaken(host_map[k])
  /\ Begin(t, v, k, host_map[k], "c_reuse")
  /\ UNCHANGED <<host_map, host_lock, src_qp_map, dst_qp_map, live, qp,
                 status, mutex, ready, crashed, legacy>>

\* The client is answered the number of the physical QP.
Answered(t) ==
  /\ vhost' = [vhost EXCEPT ![hdl[t]] = key[t]]
  /\ Done(t)

CreateDone(t) ==
  /\ pc[t] = "c_create"
  /\ qp' = [qp EXCEPT ![cur[t]] = "made"]
  /\ mutex' = Unlocked(cur[t])
  /\ Answered(t)
  /\ UNCHANGED <<host_map, host_lock, src_qp_map, dst_qp_map, live, ref_cnt,
                 status, ready, crashed, conn_map, connmap_lock, wedged>>

CreateFails(t) ==
  /\ pc[t] = "c_create" /\ NicMayFail
  /\ Crash
  /\ UNCHANGED <<locals, host_map, host_lock, src_qp_map, dst_qp_map, fields,
                 ready, legacy>>

CreateReuse(t) ==
  /\ pc[t] = "c_reuse"
  /\ IF cur[t] \in live /\ qp[cur[t]] = "made"
     THEN Answered(t) /\ UNCHANGED crashed
     ELSE Crash /\ UNCHANGED <<locals, vhost>>
  /\ UNCHANGED <<host_map, host_lock, src_qp_map, dst_qp_map, fields, ready,
                 conn_map, connmap_lock, wedged>>

-----------------------------------------------------------------------------
(* SETUP_CONN                                                               *)

\* The host that a request of v names in its ConnId: the one v was answered
\* CREATE_RES for.  The router does not check that.
Names(v, k) == vhost[v] = k \/ (v \in Unprepared /\ vhost[v] = None)

\* Find the connection in host_map; "goto kill" leaves the lock held.
SetupFind(t, v, k) ==
  LET c == host_map[k] IN
  /\ pc[t] = "idle" /\ NoCallOn(v) /\ Names(v, k)
  /\ conn_map[v] = None \/ v \in Careless
  /\ host_lock = None
  /\ IF c # None THEN Begin(t, v, k, c, "s_conn") /\ UNCHANGED host_lock
                 ELSE host_lock' = t /\ UNCHANGED locals
  /\ UNCHANGED <<host_map, src_qp_map, dst_qp_map, fields, ready, crashed,
                 legacy>>

\* Connect it, unless it is connected; a failure is only told in the answer.
SetupConn(t) ==
  /\ pc[t] = "s_conn" /\ mutex[cur[t]] = None
  /\ \/ status' = [status EXCEPT ![cur[t]] = 4]
     \/ NicMayFail /\ UNCHANGED status
  /\ Goto(t, "s_map")
  /\ UNCHANGED <<host_map, host_lock, src_qp_map, dst_qp_map, live, ref_cnt, qp,
                 mutex, ready, crashed, legacy>>

\* The ConnId enters conn_map, connected or not.  One that is there already
\* ends the request with the lock held.
SetupMap(t) ==
  /\ pc[t] = "s_map" /\ connmap_lock = None
  /\ IF conn_map[hdl[t]] = None
     THEN /\ conn_map' = [conn_map EXCEPT ![hdl[t]] = cur[t]]
          /\ UNCHANGED connmap_lock
     ELSE connmap_lock' = t /\ UNCHANGED conn_map
  /\ Done(t)
  /\ UNCHANGED <<host_map, host_lock, src_qp_map, dst_qp_map, fields, ready,
                 crashed, vhost, wedged>>

-----------------------------------------------------------------------------
(* POST_SEND, POST_RECV and POLL_CQ                                         *)

\* Posts and polls of a client may overlap.
PostRequest(t, v, k) ==
  /\ pc[t] = "idle" /\ Names(v, k)
  /\ \A u \in Threads : hdl[u] = v => pc[u] \in PostPc
  /\ conn_map[v] # None \/ v \in Careless
  /\ Begin(t, v, k, None, "p_find")
  /\ UNCHANGED <<host_map, host_lock, src_qp_map, dst_qp_map, fields, ready,
                 crashed, legacy>>

\* An id that is not in conn_map ends the request with the lock held.
PostFind(t) ==
  /\ pc[t] = "p_find" /\ connmap_lock = None
  /\ IF conn_map[hdl[t]] # None
     THEN /\ Begin(t, hdl[t], key[t], conn_map[hdl[t]], "p_conn")
          /\ UNCHANGED connmap_lock
     ELSE Done(t) /\ connmap_lock' = t
  /\ UNCHANGED <<host_map, host_lock, src_qp_map, dst_qp_map, fields, ready,
                 crashed, vhost, conn_map, wedged>>

PostConn(t) ==
  /\ pc[t] = "p_conn" /\ mutex[cur[t]] = None
  /\ Done(t)
  /\ UNCHANGED <<host_map, host_lock, src_qp_map, dst_qp_map, fields, ready,
                 crashed, legacy>>

\* The queue is full or the QP not connected: killed with conn->mutex held
\* (IBV_POST_SEND releases it first).
PostFails(t) ==
  /\ pc[t] = "p_conn" /\ cur[t] \in live /\ mutex[cur[t]] = None
  /\ PostMayFail
  /\ mutex' = [mutex EXCEPT ![cur[t]] = t]
  /\ wedged' = wedged \cup {cur[t]}
  /\ Done(t)
  /\ UNCHANGED <<host_map, host_lock, src_qp_map, dst_qp_map, live, ref_cnt, qp,
                 status, ready, crashed, vhost, conn_map, connmap_lock>>

-----------------------------------------------------------------------------
(* DESTROY_RES: out of conn_map, then as IBV_DESTROY_QP; no peer is told.   *)

\* One that is not in conn_map, or was never counted, is torn down all the same.
EraseRequest(t, v, k) ==
  /\ pc[t] = "idle" /\ NoCallOn(v) /\ Names(v, k)
  /\ Begin(t, v, k, None, "x_erase")
  /\ vhost' = [vhost EXCEPT ![v] = None]
  /\ UNCHANGED <<host_map, host_lock, src_qp_map, dst_qp_map, fields, ready,
                 crashed, conn_map, connmap_lock, wedged>>

Remembered(v) == conn_map
Forgotten(v) == [conn_map EXCEPT ![v] = None]

EraseConn(t) ==
  /\ pc[t] = "x_erase" /\ connmap_lock = None
  /\ conn_map' = Forgotten(hdl[t])
  /\ Goto(t, "d_drop")
  /\ UNCHANGED <<host_map, host_lock, src_qp_map, dst_qp_map, fields, ready,
                 crashed, vhost, connmap_lock, wedged>>

-----------------------------------------------------------------------------

Dangles(t) ==
  pc[t] \in {"m_ready", "u_conn", "s_conn", "p_conn"} /\ cur[t] \notin live

\* A request of either kind that has kept a pointer to a connection that was
\* freed reads what is there now: it goes on, or the daemon dies.
DanglingUse(t) ==
  /\ Dangles(t)
  /\ Crash
  /\ UNCHANGED <<locals, host_map, host_lock, src_qp_map, dst_qp_map, fields,
                 ready, legacy>>

LegacyContinue(t) ==
  \/ CreateDone(t) \/ CreateFails(t) \/ CreateReuse(t)
  \/ SetupConn(t) \/ SetupMap(t)
  \/ PostFind(t) \/ PostConn(t) \/ PostFails(t)
  \/ EraseConn(t)
  \/ DanglingUse(t)

LegacyRequest(t, v) ==
  \E k \in LegacyKeys :
    \/ CreateShare(t, v, k) \/ \E c \in Conns : CreateNew(t, v, k, c)
    \/ SetupFind(t, v, k) \/ PostRequest(t, v, k) \/ EraseRequest(t, v, k)

\* A step of HostMap, or one of a legacy request.  DESTROY_RES ends in
\* HostMap's DestroyDrop, DestroyQp and DestroyFree.
LegacyNext ==
  \/ Next /\ UNCHANGED legacy
  \/ /\ ~crashed
     /\ \/ \E t \in Threads : LegacyContinue(t)
        \/ \E t \in Threads, v \in VConns : LegacyRequest(t, v)

LegacySpec == LegacyInit /\ [][LegacyNext]_allvars

AnyStep(t) == (Continue(t) /\ UNCHANGED legacy) \/ LegacyContinue(t)

\* The kernel runs every thread; nobody promises that a peer ever answers or
\* that a client ever sends a request.
LegacyFairSpec ==
  LegacySpec /\ \A t \in Threads : WF_allvars(~crashed /\ AnyStep(t))

-----------------------------------------------------------------------------
(* Properties                                                               *)

LegacyUsers(k) ==
  {v \in VConns :
     \/ vhost[v] = k
     \/ \E t \in Threads : /\ hdl[t] = v /\ key[t] = k
                           /\ pc[t] \in CreatePc \cup {"x_erase", "d_drop"}}

\* "reference counting of virtual conn_ids" (scalerouter.h:97), with both kinds
\* of clients on one host: the count covers the virtual QPs and the legacy
\* connections together, whoever joins or leaves in between.
CountsBoth ==
  \A k \in Keys :
    LET holders == Cardinality(Users(k)) + Cardinality(LegacyUsers(k)) IN
    IF host_map[k] = None THEN holders = 0
    ELSE holders <= ref_cnt[host_map[k]]

\* conn_map and host_map are changed under different locks, yet a connection
\* that conn_map leads to is the one host_map has for that host, so posts that
\* never look at host_map and setups that never look at conn_map meet on the same QP.
MapsAgree ==
  \A v \in VConns :
    vhost[v] # None /\ conn_map[v] # None => conn_map[v] = host_map[vhost[v]]

\* No pointer dangles: neither those of HostMap's requests, now that DESTROY_RES
\* frees connections too, nor the one that a legacy post or setup carries past
\* the unlock of connmap_lock or hostmap_lock.
PointersHold ==
  /\ NoUseAfterFree
  /\ \A t \in Threads : pc[t] \in {"s_conn", "s_map", "p_conn"} =>
       qp[cur[t]] = "made"

\* Waits for a lock whose owner is gone: the mutex of a connection on which a
\* legacy post failed, connmap_lock (in a legacy request), or hostmap_lock.
WaitsForGone(t) ==
  \/ /\ pc[t] \in {"m_ready", "u_conn", "d_qp", "s_conn", "p_conn"}
     /\ cur[t] \in wedged
  \/ pc[t] \in {"s_map", "p_find", "x_erase"} /\ connmap_lock # None
  \/ pc[t] \in {"m_find", "d_drop", "u_find"} /\ host_lock # None

\* What a killed request can block, and nothing more: one killed on a post, the
\* requests that need the very connection; one killed on conn_map, legacy
\* requests; one killed on host_map (a SETUP_CONN for a host without an entry,
\* scalerouter.cpp:993, or what a stray DESTROY_RES leads to, 1755), every
\* request that still has to look there, of either kind.  All others end,
\* unless the daemon dies, the connection is freed under the request, or it is
\* an IBV_MODIFY_QP whose peer has no entry in dst_qp_map.
Confined ==
  \A t \in Threads :
    pc[t] # "idle" ~>
      \/ pc[t] = "idle"
      \/ crashed
      \/ Dangles(t)
      \/ (pc[t] = "m_wait" /\ key[t] \notin dst_qp_map)
      \/ WaitsForGone(t)
=============================================================================
