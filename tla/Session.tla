------------------------------- MODULE Session -------------------------------
(***************************************************************************)
(* What a client's verbs refer to: the handles that libscale makes up, the *)
(* library's cq_qp_map from a CQ to its QP, and the router's tables that   *)
(* are indexed by those handles.  The client is that of verbs_api_test.c,  *)
(* in several threads and processes.                                       *)
(*                                                                         *)
(* A process number (PidOf) may be used again after its process has ended; *)
(* the daemon is not told of that end.  The daemon's start-up, which may   *)
(* fail half-way, is modelled with it, since the first requests of a       *)
(* client read what it has set up.  A request to a daemon that does not    *)
(* serve returns an error and changes nothing: it is no step here.         *)
(***************************************************************************)
EXTENDS Integers, FiniteSets

CONSTANTS
  Threads,   \* client threads; each has one CQ and one QP at a time
  Procs,     \* client processes
  ProcOf,    \* the process of a thread
  PidOf,     \* the number of a process
  Servers,   \* threads that post a receive before they exchange meta data
  Word,      \* 2^16: handles are pid << 16 | counter in 32 bits
  Slots,     \* size of the library's cq_qp_map
  MaxCount,  \* bound on the CQs, and on the QPs, that a process creates
  None

ASSUME SessionAssumption ==
  /\ ProcOf \in [Threads -> Procs] /\ PidOf \in [Procs -> Nat]
  /\ Servers \subseteq Threads
  /\ {Word, Slots, MaxCount} \subseteq Nat \ {0}
  /\ MaxCount < Slots /\ Slots <= Word
  /\ None \notin Threads /\ None \notin Nat

Resources == {"list", "ctx", "pd", "epoll"}
Numbers == 0 .. Word - 1

\* pid:refcnt, as cq->handle and qp->handle.
Handle(p, n) == (PidOf[p] % Word) * Word + n
Whole(h) == h
Low(h) == h % Word
Handles == {Handle(p, n) : p \in Procs, n \in Numbers}

VARIABLES
  daemon,      \* where the daemon is
  res,         \* the pointers of global_res
  cq_qp_map,   \* router: QP handle of a CQ handle
  src_qp_map,  \* router: the thread whose peer a QP handle is bound to
  proc,        \* "new", "alive" or "ended"
  opened,      \* processes that were answered IBV_GET_DEVICE_LIST
  cq_refcnt, qp_refcnt,
  slot,        \* the library's cq_qp_map
  pc,          \* where each thread is
  cq, qp,      \* handles of its CQ and QP
  used         \* threads whose CQ has had a QP before

router == <<daemon, res, cq_qp_map, src_qp_map>>
library == <<opened, cq_refcnt, qp_refcnt, slot>>
session == <<pc, cq, qp, used>>
vars == <<router, proc, library, session>>

Hung == {"create_hangs", "recv_hangs", "poll_hangs"}

SessionTypeOK ==
  /\ daemon \in {"starting", "inited", "serving", "exited", "crashed"}
  /\ res \in [Resources -> {"null", "held", "freed"}]
  /\ cq_qp_map \in [Handles -> Handles \cup {None}]
  /\ src_qp_map \in [Handles -> Threads \cup {None}]
  /\ proc \in [Procs -> {"new", "alive", "ended"}]
  /\ opened \subseteq Procs
  /\ cq_refcnt \in [Procs -> Numbers] /\ qp_refcnt \in [Procs -> Numbers]
  /\ slot \in [Procs -> [0 .. Slots - 1 -> Numbers]]
  /\ pc \in [Threads -> {"new", "open", "cq", "number", "map", "create", "made",
                         "posted", "bound", "polled", "gone", "ended"} \cup Hung]
  /\ cq \in [Threads -> Handles \cup {None}]
  /\ qp \in [Threads -> Handles \cup {None}]
  /\ used \subseteq Threads

Init ==
  /\ daemon = "starting"
  /\ res = [r \in Resources |-> "null"]
  /\ cq_qp_map = [h \in Handles |-> None]
  /\ src_qp_map = [h \in Handles |-> None]
  /\ proc = [p \in Procs |-> "new"]
  /\ opened = {}
  /\ cq_refcnt = [p \in Procs |-> 0]
  /\ qp_refcnt = [p \in Procs |-> 0]
  /\ slot = [p \in Procs |-> [i \in 0 .. Slots - 1 |-> 0]]
  /\ pc = [t \in Threads |-> "new"]
  /\ cq = [t \in Threads |-> None]
  /\ qp = [t \in Threads |-> None]
  /\ used = {}

-----------------------------------------------------------------------------
(* The daemon                                                               *)

\* Steps of init_global_res: with the device list goes ib_dev.
Acquired == {{}, {"list"}, {"list", "ctx"}, {"list", "ctx", "pd"}, Resources}

\* destroy_global_res: only the list's pointer is set to NULL.
Dangling(r) == "freed"
AfterFree(r) == IF r = "list" THEN "null" ELSE "freed"
Destroyed(s) == [r \in Resources |-> IF s[r] = "null" THEN "null" ELSE AfterFree(r)]

\* A failure at any step cleans up; start() goes on all the same.
InitGlobalRes(got) ==
  LET s == [r \in Resources |-> IF r \in got THEN "held" ELSE "null"] IN
  /\ daemon = "starting"
  /\ daemon' = "inited"
  /\ res' = IF got = Resources THEN s ELSE Destroyed(s)
  /\ UNCHANGED <<cq_qp_map, src_qp_map, proc, library, session>>

StartListeners ==
  /\ daemon = "inited"
  /\ daemon' = "serving"
  /\ UNCHANGED <<res, cq_qp_map, src_qp_map, proc, library, session>>

\* Neither listener could start: start() returns, and the destructor follows.
StopDaemon ==
  /\ daemon = "inited"
  /\ daemon' = "exited"
  /\ res' = Destroyed(res)
  /\ UNCHANGED <<cq_qp_map, src_qp_map, proc, library, session>>

-----------------------------------------------------------------------------
(* Processes                                                                *)

\* The kernel gives a process a number that no live one has.
Start(p) ==
  /\ proc[p] = "new"
  /\ \A q \in Procs : proc[q] = "alive" => PidOf[q] # PidOf[p]
  /\ proc' = [proc EXCEPT ![p] = "alive"]
  /\ pc' = [t \in Threads |-> IF ProcOf[t] = p THEN "open" ELSE pc[t]]
  /\ UNCHANGED <<router, library, cq, qp, used>>

\* It returns from main or dies, and the router keeps what it knows of it.
End(p) ==
  /\ proc[p] = "alive"
  /\ proc' = [proc EXCEPT ![p] = "ended"]
  /\ pc' = [t \in Threads |-> IF ProcOf[t] = p THEN "ended" ELSE pc[t]]
  /\ cq' = [t \in Threads |-> IF ProcOf[t] = p THEN None ELSE cq[t]]
  /\ qp' = [t \in Threads |-> IF ProcOf[t] = p THEN None ELSE qp[t]]
  /\ UNCHANGED <<router, library, used>>

At(t, here) == pc[t] = here
Goto(t, there) == pc' = [pc EXCEPT ![t] = there]

-----------------------------------------------------------------------------
(* Requests of a thread                                                     *)

\* ibv_get_device_list, by the first thread of the process: the daemon reads
\* ib_dev, and the library clears its cq_qp_map.
OpenDevices(t) ==
  LET p == ProcOf[t] IN
  /\ At(t, "open") /\ daemon = "serving" /\ p \notin opened
  /\ IF res["list"] = "null"
     THEN daemon' = "crashed" /\ UNCHANGED <<opened, slot>>
     ELSE /\ opened' = opened \cup {p}
          /\ slot' = [slot EXCEPT ![p] = [i \in 0 .. Slots - 1 |-> 0]]
          /\ UNCHANGED daemon
  /\ UNCHANGED <<res, cq_qp_map, src_qp_map, proc, cq_refcnt, qp_refcnt, session>>

\* ibv_alloc_pd reads pd->handle.
AllocPd(t) ==
  /\ At(t, "open") /\ daemon = "serving" /\ ProcOf[t] \in opened
  /\ IF res["pd"] = "null"
     THEN daemon' = "crashed" /\ UNCHANGED pc
     ELSE Goto(t, "cq") /\ UNCHANGED daemon
  /\ UNCHANGED <<res, cq_qp_map, src_qp_map, proc, library, cq, qp, used>>

SameAgain(n) == n
Increment(n) == (n + 1) % Word

\* The handle is made of the counter under its mutex.
CreateCq(t) ==
  LET p == ProcOf[t] IN
  /\ At(t, "cq") /\ cq_refcnt[p] < MaxCount
  /\ cq' = [cq EXCEPT ![t] = Handle(p, cq_refcnt[p])]
  /\ cq_refcnt' = [cq_refcnt EXCEPT ![p] = Increment(@)]
  /\ used' = used \ {t}
  /\ Goto(t, "number")
  /\ UNCHANGED <<router, proc, opened, qp_refcnt, slot, qp>>

\* ibv_create_qp, on a new CQ or on one whose QP has been destroyed.
NumberQp(t) ==
  LET p == ProcOf[t] IN
  /\ At(t, "number") \/ At(t, "gone")
  /\ qp_refcnt[p] < MaxCount
  /\ qp' = [qp EXCEPT ![t] = Handle(p, qp_refcnt[p])]
  /\ qp_refcnt' = [qp_refcnt EXCEPT ![p] = Increment(@)]
  /\ Goto(t, "map")
  /\ UNCHANGED <<router, proc, opened, cq_refcnt, slot, cq, used>>

\* The table is indexed by the low half of the CQ's handle, and not locked.
HighIndex(h) == (h \div Word) % Slots
Index(h) == h % Word

MapQp(t) ==
  /\ At(t, "map")
  /\ slot' = [slot EXCEPT ![ProcOf[t]][Index(cq[t])] = Low(qp[t])]
  /\ Goto(t, "create")
  /\ UNCHANGED <<router, proc, opened, cq_refcnt, qp_refcnt, cq, qp, used>>

\* IBV_CREATE_QP: a CQ that has an entry is refused, and the client not answered.
CreateQp(t) ==
  /\ At(t, "create") /\ daemon = "serving"
  /\ IF cq_qp_map[cq[t]] = None
     THEN /\ cq_qp_map' = [cq_qp_map EXCEPT ![cq[t]] = qp[t]]
          /\ used' = used \cup {t}
          /\ Goto(t, "made")
     ELSE Goto(t, "create_hangs") /\ UNCHANGED <<cq_qp_map, used>>
  /\ UNCHANGED <<daemon, res, src_qp_map, proc, library, cq, qp>>

\* IBV_POST_RECV of a QP in INIT: only a QP that has been brought to RTR has
\* an entry in src_qp_map.
PostRecv(t) ==
  /\ At(t, "made") /\ t \in Servers /\ daemon = "serving"
  /\ Goto(t, IF src_qp_map[qp[t]] = None THEN "recv_hangs" ELSE "posted")
  /\ UNCHANGED <<router, proc, library, cq, qp, used>>

\* IBV_MODIFY_QP at the transition to RTR (HostMap has the rest of it).
ModifyQp(t) ==
  /\ IF t \in Servers THEN At(t, "posted") ELSE At(t, "made")
  /\ daemon = "serving"
  /\ src_qp_map' = [src_qp_map EXCEPT ![qp[t]] = t]
  /\ Goto(t, "bound")
  /\ UNCHANGED <<daemon, res, cq_qp_map, proc, library, cq, qp, used>>

\* poll_cq sends the QP handle it makes up from pid and cq_qp_map.
PollHandle(t) == Handle(ProcOf[t], slot[ProcOf[t]][Index(cq[t])])

PollCq(t) ==
  /\ At(t, "bound") /\ daemon = "serving"
  /\ Goto(t, IF src_qp_map[PollHandle(t)] = None THEN "poll_hangs" ELSE "polled")
  /\ UNCHANGED <<router, proc, library, cq, qp, used>>

\* IBV_DESTROY_QP erases the binding of the handle.
DestroyQp(t) ==
  /\ At(t, "polled") /\ daemon = "serving"
  /\ src_qp_map' = [src_qp_map EXCEPT ![qp[t]] = None]
  /\ qp' = [qp EXCEPT ![t] = None]
  /\ Goto(t, "gone")
  /\ UNCHANGED <<daemon, res, cq_qp_map, proc, library, cq, used>>

\* ibv_destroy_cq: IBV_DESTROY_CQ is not sent.
DestroyCq(t) ==
  /\ At(t, "gone")
  /\ cq' = [cq EXCEPT ![t] = None]
  /\ Goto(t, "cq")
  /\ UNCHANGED <<router, proc, library, qp, used>>

-----------------------------------------------------------------------------

Call(t) ==
  \/ OpenDevices(t) \/ AllocPd(t)
  \/ CreateCq(t) \/ NumberQp(t) \/ MapQp(t) \/ CreateQp(t)
  \/ PostRecv(t) \/ ModifyQp(t) \/ PollCq(t)
  \/ DestroyQp(t) \/ DestroyCq(t)

Next ==
  \/ \E got \in Acquired : InitGlobalRes(got)
  \/ StartListeners \/ StopDaemon
  \/ \E p \in Procs : Start(p) \/ End(p)
  \/ \E t \in Threads : Call(t)

Spec == Init /\ [][Next]_vars

-----------------------------------------------------------------------------
(* Properties                                                               *)

\* A poll, and then ibv_destroy_qp, reaches the connection of its own QP: the library's table leads from
\* the CQ to the QP that was created on it, and the router's binding of that
\* handle is the one this QP made, although threads number, map and create
\* their CQs and QPs in any order, and earlier processes with the same number have
\* left entries behind.
PollHitsOwn ==
  \A t \in Threads : pc[t] \in {"bound", "polled"} =>
    PollHandle(t) = qp[t] /\ src_qp_map[qp[t]] = t

\* verbs.c:296 (translated): "use pid:cq_refcnt as cq_handle, which guarantees
\* that cq_handle is unique"; qp->handle is made alike.
HandlesUnique ==
  \A t, u \in Threads : t # u =>
    /\ cq[t] # None => cq[t] # cq[u]
    /\ qp[t] # None => qp[t] # qp[u]

\* A thread is refused a QP only on a CQ that has had one, or if an ended process
\* had its number: two live clients never get in each other's way.
RefusedForCause ==
  \A t \in Threads : pc[t] = "create_hangs" =>
    \/ t \in used
    \/ \E q \in Procs : proc[q] = "ended" /\ PidOf[q] = PidOf[ProcOf[t]]

\* A client that was given a device list talks to a daemon that holds all it
\* needs to serve it: one whose start-up failed does not get that far.
ServedMeansUp ==
  opened # {} /\ daemon = "serving" => \A r \in Resources : res[r] = "held"

\* verbs_api_test.c:294: the server posts its receive before it exchanges meta
\* data (320) and connects (351), and goes on when ibv_post_recv has returned.
ReceiveTaken == \A t \in Threads : pc[t] # "recv_hangs"
=============================================================================
