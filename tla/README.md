# scalerouter: models, checks and proofs

scalerouter lets the processes of a host share RDMA connections.  A process
links libscale instead of libibverbs.  Its verbs become requests to a daemon,
`scalerouter`, which owns the NIC's resources and keeps one reliable connection
(a physical QP) per remote host, however many virtual QPs its clients open to
that host.  This directory holds TLA+ models of that program, the TLC runs that
check them and TLAPS proofs of their safety.  Line numbers refer to
`src/scalerouter/scalerouter.cpp` unless another file is named.

## The system

| Component | State | Operations | What is hard |
|---|---|---|---|
| Connection table | `host_map` (remote host to `conn_resources`), `src_qp_map` (virtual QP to host), `ref_cnt`, `status`, `mutex` of each `conn_resources` | `IBV_MODIFY_QP` 1608-1802, `IBV_DESTROY_QP` 2160-2240, the lookups of posts and polls 1850-1892, 1957-1995, 2048-2084 | four locks, pointers carried from one critical section to the next, a thread per request, failures half-way |
| Agreement between routers | `dst_qp_map` (remote host to its QP number) | `update_dst_router` 609-659, `listen_remote_router` 502-565, `handle_remote_router` 566-607 | one TCP connection and one thread per message, no order, no acknowledgement, failures to send and to receive |
| Memory registration | `shm_map`, `lkey_offset_map`, mappings of router, NIC and client | `addShmPiece` 467-490, `IBV_REG_MR` 1481-1528, `IBV_DEREG_MR` 2242-2316, translation in posts 1822-1838, `verbs.c` 176-229 and 449-474 | lkeys are reused by the NIC while other requests run; translated addresses are used after the lock is released |
| Data path | send, receive and completion queue of the shared QP | `IBV_POST_SEND` 1803-1911, `IBV_POST_RECV` 1912-2013, `IBV_POLL_CQ` 2015-2127 | processes share all three queues; one error breaks the connection of everyone |
| Request transport | one Unix stream connection and one thread per call | `request_router` (`scale.c` 44-288), `listen_local_process` 661-724, `handle_process` 726-2357 | clients and router may die at any point; a refused request is not answered |
| Handles | `cq_refcnt`, `qp_refcnt` and `cq_qp_map` of the library; `cq_qp_map` of the router | `verbs.c` 88-110, 284-354, 405-447; 1563-1606 | 32-bit handles made of a process number and a 16-bit counter; a table that threads share without a lock; entries that outlive their process |
| Legacy requests | `conn_map` (process, host and QP numbers to `conn_resources`) | 790-1458 | a third map to the same connections under a lock of its own; jumps to `kill` that keep a lock |
| Global resources | device list, context, PD, epoll descriptor | `start` 9-48, 72-223, 1460-1479 | a start-up that fails half-way is ignored |

The library of this version sends none of the legacy requests (they are
commented out in `scale.c`), but the daemon serves them beside the others, on the same
connections.

A client's call goes through the transport to a thread of the daemon, which runs
one case of the switch in `handle_process`.  `IBV_MODIFY_QP` (sent at the
transition to RTR) takes or makes the connection to the remote host, tells the
peer its QP number, waits for the peer's number in `dst_qp_map`, and connects.
Posts and polls find the connection through `src_qp_map` and `host_map`.
`IBV_DESTROY_QP` gives the reference back, and the last one destroys the
connection and tells the peer to forget it.

What makes each component correct: the table counts exactly the holders of a
connection and nobody uses one that is gone; both ends of a pair agree on their
QPs; an lkey always leads to the memory it was given for; posted work is
neither lost nor handed to the wrong process; a CQ leads to its own QP; every call
returns, and says truly whether it was carried out.

## Modules

| Module | Models |
|---|---|
| `SharedConn` | abstract: for each remote host, the set of virtual QPs that hold the connection and its state |
| `HostMap` | the connection table at the granularity of the mutexes |
| `HostMapProofs`, `HostMapRefinement` | theorems about `HostMap`: its safety; what it promises its clients, and that it implements `SharedConn` |
| `LegacyConn` | the legacy requests composed with those of `HostMap` (which it EXTENDS) |
| `RouterSync` | several daemons that exchange INSERT and DELETE |
| `MemReg` | memory registration in daemon and library, legacy clients included |
| `DataPath` | two hosts' shared queues and the processes that post and poll |
| `ScaleCall` | calls from client to daemon |
| `OneCall` | abstract: what a client may believe about a call |
| `Session` | handles, the tables they index, start-up of the daemon, and the test program as client |
| `LegacyConnProofs`, `RouterSyncProofs`, `MemRegProofs`, `DataPathProofs`, `ScaleCallProofs`, `SessionProofs` | theorems about the module each is named for |
| `MCHostMap`, `MCRouterSync`, `MCMemReg`, `MCDataPath`, `MCSession` | instances for TLC |

**HostMap.**  `Threads` run `handle_process`; `pc` is where a thread is between
two critical sections, `hdl`, `key` and `cur` are the locals that survive from
one to the next.  One critical section is one action; code that touches no
shared state is joined to the section after it.  `Conns` are heap addresses, so a
freed one can be handed out again, and a stale pointer is a value of `cur` that
is no longer in `live`.  `host_lock` is only ever a thread that ended without
unlocking (1749, 1755): sections are atomic, so no other owner is visible.
`ModifyTell` fails as well as succeeds, and the failing request leaves behind
what it did.  `RemoteInsert` and `RemoteDelete` let the peer do what it likes
with `dst_qp_map`.  `crashed` is the daemon's death by an invalid access:
the NULL `qp` after a failed `resources_create`, or in a second request that
comes too early.  A client makes its calls on one QP one after the other,
except that posts and polls may overlap, as in `verbs_api_test.c`.

**LegacyConn.**  The composition of both interfaces: a step is one of `HostMap`'s or
one of a legacy request, on the same `host_map`, connections and mutexes.
`CREATE_RES` is the first half of `IBV_MODIFY_QP` and `DESTROY_RES` ends in
HostMap's `DestroyDrop`, `DestroyQp` and `DestroyFree`; in between, a legacy client finds its
connection through `conn_map` alone.  A jump to `kill` that keeps a lock is a
thread that has ended and still owns it: `connmap_lock` for a second
`SETUP_CONN` (1028) or a post without one (1106, 1112), `wedged` with `mutex` for a
failed post (1123).  Such requests are sent by the clients in `Careless`; failed posts
can happen to anyone (`PostMayFail`: a full queue, or a QP whose set-up failed).
`INIT_RES` (790-806) reads
constants and has no action.  A client in `Unprepared` names a host it has not been
answered for: its `SETUP_CONN` may find no entry and be killed with `host_lock` (993), and its
`DESTROY_RES` takes a reference away that is another's (1409-1420).  The pointers that such a
client pulls from under others are followed by `DanglingUse`: a request that uses a freed
connection goes on with what is there, or the daemon dies.

**Session.**  What a handle is: `Handle(p, n)` is the process number and the
counter packed into 32 bits, with `Word` for 2^16, so that numbers can
agree in their low half.  `NumberQp` and `MapQp` are two
steps because the lock is released between them (`verbs.c` 332-335).  `End` is
the death or the exit of a process, after which `Start` may give its number to
another; nothing in the daemon changes at either.  `InitGlobalRes` fails after any
of its acquisitions and the daemon goes on, as in 14; `res` says what a pointer of
`global_res` is: null, good, or freed and still there.  `create_hangs`,
`recv_hangs` and `poll_hangs` are requests that ended in `goto kill`; ScaleCall
shows why their callers stay there.  `ModifyQp` stands for the whole of
`IBV_MODIFY_QP` as far as `src_qp_map` goes; HostMap has its parts.

**RouterSync.**  A critical section of HostMap is one step; the subject is
messages.  `inflight` is a bag, since each message has a connection and a thread
of its own.  Each send may fail (`ModifyTellFails`, after which the request is killed with
its reference and binding kept, 1694-1697; `DestroyTellFails`, which is only logged), and
so may its receipt (`Lose`, 573-577).  QP numbers are reused by the NIC.  Nothing in the
code keeps the messages of a QP apart from those of the next one, and no guard of the
model does.  The history variable `disturbed` notes the ordered pairs of hosts to
which it happened: a message was lost or a DELETE not sent, a DELETE overtook an INSERT, or
a QP was started while its predecessor lingered at the peer (`Lingers`).  A pair
leaves it when a QP is started and the peer has nothing of the one before.  The safety
properties speak of the other pairs; what a disturbed one may come to is
`RouterSync_deletes` and the list under *Beyond the runs*.

**MemReg.**  An offset is a pair of addresses, since that is all that can be
told of a difference: applied to the buffer it was made for it leads to the
router's address, and to any other nowhere.  A shared-memory object is named by
process and index, as in 479 (the size in the name does not help two pieces of
one size).  The processes in `LegacyPids` use `REG_MR` and `DEREG_MR`: no entry in
`lkey_offset_map`, nothing mapped over their buffers, and the NIC first when they
deregister; they draw on the same addresses and lkeys as the others.  Clients may
register a buffer that is registered.  What fails may fail at every point: `mmap` and
`ibv_reg_mr` in the router, `mmap` in the library after the answer (the router then keeps
all it has made), `ibv_dereg_mr` after the offset is gone.

**DataPath.**  A work request carries its process, as `wr_id` does.  The NIC
(`Arrive`, `Ack`, `Fail`, `Flush`, `Complete`) is external: in-order delivery,
receive buffers taken oldest first, no retry after receiver-not-ready
(`rnr_retry = 0`, 458), errors that flush the queues, queue slots that are free
again when the completion is polled, and a completion queue that overflows and takes its QP
with it (`overran`).  A careful process polls only while it waits for a completion.  The lookups and the translation before a
post are left to HostMap and MemReg; a server posts its receive when it is
connected (before that it is refused, as `Session` has it).  `stuck` is a client whose request ended in
`goto kill`; ScaleCall shows why it stays there.

**ScaleCall.**  `client` and `thread` are program counters of the two ends of a
connection.  Death of a client closes its end; death of the router closes all of
its ends, and those with unread data are reset (Linux Unix sockets), which is
what tells `read` returning -1 from `read` returning 0.  A `read` that returns 0
and is tried again is no step.  A handler may wait without bound (`Wait`: for the peer in
`IBV_MODIFY_QP`, 1703-1720, or for a mutex that a killed request has kept) and nothing
promises that it resumes; only verbs with a body can wait or be refused, since 1460-1480
and 1528-1561 have neither a lock nor a `goto kill`.  Reads that a signal interrupts are left
out.  `OneCall` leaves all of that out: a call is asked,
carried out at most once, and returns 0 if it was and -1 if not, or its client dies; a
client that is never answered is one that never takes `Return`.

## Runs

| Run | Instance | Shows |
|---|---|---|
| `HostMap_orderly` | 3 threads, 3 QPs, 2 hosts, 3 addresses, NIC failures; symmetric | `RefExact`, `NoUseAfterFree`, `FreedOnce`, `ReadyConnected`, `NoLeak`, `ReadyStable`, and that HostMap implements `SharedConn` |
| `HostMap_null_qp` | 2 threads, 2 QPs, 1 host, orderly | violated: a second request reads the NULL `qp` of a connection that is being made |
| `LegacyConn` | 2 threads, 2 hosts, a QP that is connected again at will, a careless legacy client of the first host, failures of the NIC and of posts | `CountsBoth`, `MapsAgree`, `PointersHold` |
| `LegacyConn_stray` | 2 threads, 1 host, a QP, and a legacy client that also sets up, posts and tears down without `CREATE_RES` | `FreedOnce`, `NoLeak`; what a killed request can block (`Confined`) |
| `RouterSync` | 2 hosts, 2 QPs on one and 1 on the other, 2 QP numbers per NIC, 2 messages in flight, failures | `Paired`, `RemembersCurrent`, `KnownOnceTold`, `ForgottenWhenQuiet`, and that the wait for the peer ends (`WaitEnds`) |
| `RouterSync_deletes` | a QP on each host, no failures | violated: `ErasesOutdated`, by a late DELETE that erases the entry of the next QP |
| `MemReg` | 2 threads, a libscale process and a legacy one, 2 buffers, 3 addresses, 2 lkeys, 3 pieces per process, failures; symmetric | `LkeyFresh`, `HeldUsable`, `PostHitsPiece` |
| `DataPath` | 2 pairs of processes, one careless; queues of 1, a send and a receive per process, both at once | `Conserved`, `HandedOwn`, `PathHolds`, `QueueDrains` |
| `DataPath_wrong_poller` | 2 careful pairs, queues of 2 | violated: a careful process that waits for its own completion is killed by polling another's |
| `ScaleCall` | 2 clients, 3 connections, backlog 1, refusals and deaths | `AnswerMeansDone`, `ErrorMeansNotDone`, `ThreadEnds`, `OnlyEofHangs` |
| `ScaleCall_refused` | 2 clients, refusals | violated: `CallReturns` |
| `Session` | 4 threads in 3 processes, two of which have one number in turn; counters mod 4, 3 CQs and QPs per process; one server | `PollHitsOwn`, `HandlesUnique`, `RefusedForCause`, `ServedMeansUp` |

**Bounds.**  Three threads on two hosts let one request create, one share and one
destroy at the same time, with an address left to reuse; more hosts are
independent, and the proofs are for any number of each.  `MaxRefs` bounds the count under
`Reconnect` and in `LegacyConn` only.  In `LegacyConn` one client of each interface
with two threads is every pair of requests that can meet on a connection, and
the second host, where the libscale client may go and come back, lets connections
be destroyed and their addresses reused while the legacy client stays, comes or goes.  `LegacyConn_stray`
has one host: the client's `conn_map` entry may then be older than what it was last answered.
Two buffers and two lkeys force the NIC to reuse keys while a
deregistration is under way; with three pieces one
can go while a later one lives and a third comes.  Two messages are a DELETE and the
INSERT of the next connection, or those of both hosts; one that waits to be sent is in the request.
In `Session` a process makes up to 3 CQs and 3 QPs in
numbers of 4, so the counters do not come round within a run (`MaxCount` is below
`Slots`, as it must be for `cq_qp_map`), and the second process of a number meets
every entry of the first.  A send queue of 1 makes the full queue
an everyday event.  The three sizes are equal in every run of `DataPath`, as they are in the code (1024
each, `types.h` 22-24), so the completion queue of 1 overflows in `DataPath`; in
`DataPath_wrong_poller` it does not have to.

**Deadlock** is not checked where the system may really stop: hosts that wait for
a number that was lost (`RouterSync`), processes that have used up
their posts or are stuck (`DataPath`), clients that are dead or read for ever
(`ScaleCall`), clients that are refused, have ended or have used up their numbers
(`Session`).  In HostMap and LegacyConn the peer can always act (`RemoteInsert`,
`RemoteDelete`), so absence of deadlock says little there; `Confined` says which threads
may wait for ever.  MemReg has an explicit `Exhausted` step at its bound, and HostMap a
`Dead` one.

**Fairness** is weak fairness of each thread's next step (`LegacyConn_stray`, which has
HostMap's requests too), of each request that waits for its peer and of the delivery of
what one host sends another (`RouterSync`: the thread at 1703 polls and TCP delivers; a message
may be lost all the same, and nothing else is assumed to move), of each NIC and each
process while it waits for a completion (`DataPath`: `verbs_api_test.c` 395-411 polls in a loop; with
nothing outstanding nobody has to poll), of each client in a call and each handler thread that
does not wait (`ScaleCall`).  No client is assumed to call, no peer to answer, no wait of a
handler to end, no daemon to be restarted.

**Beyond the runs.**  Some properties that a reader may expect are violated by the code
and in no run; the modules define them, and TLC finds each counterexample in seconds:

| Property | Instance | Counterexample |
|---|---|---|
| `RefExact` (HostMap) | `Reconnect = TRUE` | the overwritten binding keeps its reference, and that connection is never freed |
| `RefCovers` (HostMap) | `LegacyConn_stray` | a `DESTROY_RES` that is sent twice, or without `CREATE_RES`, takes another client's reference, and the last of them destroys the connection under it (1409) |
| `LockReleased` (HostMap) | `LegacyConn_stray` | a `SETUP_CONN` for a host without an entry ends with `hostmap_lock` held (993) |
| `FoundCorresponds` (RouterSync) | `RouterSync_deletes` | the wait at 1703 takes the number of a QP that the peer has destroyed and replaced, and the local QP is connected to it for good |
| `SeesBuffer` (MemReg) | `MemReg` | a second registration is mapped over the buffer (`verbs.c` 203); posts with the first lkey are accepted and send what the client no longer sees |
| `RightBuffer` (DataPath) | `DataPath_wrong_poller` | a SEND takes the oldest receive buffer of the host, whosever it is |
| `RouterSurvives` (ScaleCall) | `ScaleCall` | a client dies before its answer is written: SIGPIPE ends the daemon at 2325 |
| `HandlesUnique` (Session) | `TwoProcs` with `PidsAlike` (MCSession) | two live processes with numbers equal mod 2^16 make the same CQ handle (`verbs.c` 300) |
| `ReceiveTaken` (Session) | `Session` | a server posts its receive before it connects, as `verbs_api_test.c` 294 does, and is left without an answer (1966) |

What a disturbed pair of hosts may come to, in `RouterSync`: a QP is answered `flag = 1` while its
peer has another QP; a late DELETE removes a new entry, and the wait at 1703 has no
end; a DELETE is applied before the INSERT that was sent first, and the entry of a QP
that is gone stays.

Reading for `Session` and `LegacyConn` turned up more that needs no model checker.  A
receive that a server posts early is not refused if an ended process with its
number left a binding for the handle: it then goes to that one's host.  After a
failed start-up `destroy_global_res` releases PD and context again at exit, since
only the list's pointer is reset, and a device list without the wanted device
is not freed.  Two legacy connections of one process to one host have
one ConnId, so the second `SETUP_CONN` keeps `connmap_lock`.

## Proofs

All safety properties that the passing runs check are proved, for every value of the
constants that the assumptions allow: any sets of threads, hosts, addresses and
keys, any queue sizes, with and without failures.  The assumptions say that
`None` is none of the values it is told from, that sizes are positive, that
flags are Booleans, and that a set is finite where the proof counts it
(virtual QPs in `HostMap` and `RouterSync`, legacy connections in
`LegacyConn`, processes and hosts in `DataPath`).  Where a property holds under a
discipline of the clients only, the theorem has that as its hypothesis:

| Hypothesis | Says | Why it is needed |
|---|---|---|
| `~Reconnect` (HostMap, LegacyConn) | a bound QP is destroyed before it is connected again | the overwritten binding keeps its reference (1684, 1689), so the count is too high; a `CREATE_RES` for the host a client has already does the same |
| `Unprepared = {}` (LegacyConn) | a legacy client is answered `CREATE_RES` before it sets up, posts or tears down | a stray `DESTROY_RES` takes another's reference (1409), and 993 keeps `hostmap_lock` |
| `PidsFit` (Session) | the low halves of the process numbers tell them apart | handles have 16 bits for the process; `HandlesUnique` fails with `PidsAlike` |
| `Roomy` (DataPath) | `CqSize >= 2 * MaxWr`, or the processes of a host keep no more than `CqSize` requests outstanding | only for `NeverOverruns` and what rests on it: a full completion queue overflows |
| `Dedicated` (DataPath) | one process per host and connection, careful, with no more than `MaxWr` requests outstanding | `DataPath_wrong_poller`; with several processes one may also fill the queue of another or take its buffers |

The runs of these modules are instances that satisfy them, so each of the theorems
speaks of states that exist.  Three hypotheses are not those of a run: `~Reconnect` in
`LegacyConn`, whose run lets clients reconnect; `Roomy`, since the runs have the overflow; and `Dedicated`, since one process
at each end is the case without the interesting interleavings.  All are satisfied by the
run's configuration with one constant changed (`Reconnect = FALSE`; `CqSize = 2`; a single pair of careful
processes), on which TLC agrees with the theorems.  RouterSync and MemReg have no
hypothesis: what their properties except is part of their statements.

**HostMapProofs**: `TypeCorrect`, `CountCoversUsers`, `PointersValid`, `TornDownOnce`,
`NoLockLeak`.  None of these is inductive alone.  That the last `IBV_DESTROY_QP` frees a
connection nobody uses depends on `RefCovers`; that a pointer in a thread equals
the entry of `host_map` depends on the entry not being replaced while the thread's QP
holds the connection, which is `RefCovers` again; and that a holder is counted
depends on no second request working on the same QP.  The
invariant `IInv` adds to the properties `ThreadInv` (what a thread knows at each
point of its request, in particular that `cur` is still the entry of its host),
`Exclusive` (a request that sets up or tears down a QP is alone on it) and `MapInv`
(entries are allocated, distinct, and have a QP once one is bound).  `Holders`,
`Unmapped`, `QuietRefs` and `LastUser` are the counting arguments (`LastUser`: who
drops a count of 1 is the only user); each action has a lemma of its own.
`RefCovers` is in no run of its own: `RefExact` implies it.  `LockReleased`, which is part
of `IInv`, and `PiecesDistinct` of MemReg are likewise proved and in no run.

**HostMapRefinement**: for all clients `ReadyIsConnected`, `NothingLeaks` and the
action property `ReadyStays`, from `ServiceInv`, which is `IInv` with `NoLeak` and
`ReadyInv` (a ready QP is bound, its connection is in RTS and no request is setting it
up or tearing it down; without the last, a step could take the connection away).  For
orderly clients `CountExact`, from `OrderlyInv`: the new part is `BindInv`, that a
QP is unbound while a request is about to bind it, so that no binding is
overwritten.  From that, `Refinement`: the initial state maps to that of `SharedConn`,
and each action maps to one of its steps (a critical section that counts or drops
a holder, or changes `status`) or to a stutter.

**LegacyConnProofs**: `TypeCorrect`, `CountsCover`, `MapsAgreement`, `PointersSafe`,
`HostLockReleased`, `FreeOnce`, for requests of both kinds at once, if no client is `Unprepared`.
`NamesOwn` and `NoneDangles` say what that gives: a request names the host its client
was answered for, and no pointer is used after the connection was freed.  The proof does
not build on that of `HostMap`, whose counting is over virtual QPs alone: here the
holders of a connection are `Clients`, virtual QPs and legacy connections alike, and
each of HostMap's actions is taken again with this wider count.  `LegacyInv` is what
`conn_map` needs: its entry is the connection the client is bound to, except while a
`DESTROY_RES` is about to erase it, and the mutex of a connection that is being
made or destroyed is not one that a killed request has kept.

The promises of `HostMapRefinement` are then proved again for the composition, which is
stronger: legacy clients connect, use and destroy what virtual QPs rely on.  For all clients
`ReadyIsConnected`, `NothingLeaks` and `ReadyStays`, from `ServiceInv`; a step is
quiet (`QuietThread`) when it begins no set-up or tear-down of a ready QP and forgets
no connection that is to be freed, and all but five actions are quiet.  For orderly clients of both kinds
`CountsExact` (`BothExact`, the exact count over `Clients`) and `BothRefine`: the
two interfaces together implement `SharedConn` with `Clients` for its handles
(`Both`).  The argument has one lemma for each way in which a step can matter: a holder
more on a new or an existing entry (`NewTable`, `ShareTable`), one less
(`DropTable`), a binding that takes the place of a request as the reason to hold, or
the reverse (`BoundAlike`), RTS (`ConnectTable`).

**RouterSyncProofs**: `TypeCorrect`, `NothingStale`,
`PairsConnected`, `KnownAfterDelivery` and `ForgottenAfterDelivery`, for all hosts and with every
failure.  `BaseInv` (counts, and what each request
knows) comes first.  For agreement `RemembersCurrent` is not inductive, because a
message on its way can spoil it: of pairs that are not disturbed `CurrentInv` says that while a
connection exists only its own INSERTs are in flight, `ToldInv` that a host which has told
has an entry at the peer or will get one, `LeaveInv` that a DELETE still to be sent is of a
connection that is gone, and `GoneInv` that the peer of a host without a connection has
nothing of it or a DELETE on its way.
That a host which starts a QP with nothing of the last one in sight leaves the
pair undisturbed is the step where `Lingers` matters: it covers what is at the peer, in the
messages and in requests that have not sent theirs.

**MemRegProofs**: `TypeCorrect`, `LkeysFresh`, `HoldingsUsable`, `PostsHit`,
`NoSharedPiece`, for clients that register buffers again and whatever fails.  `LkeyFresh` depends on the
order in `IBV_DEREG_MR` (the offset is erased before the NIC gives the lkey up),
which is `OffsetInv`; that no other request touches what a client holds is `Apart`: an
address, and with it an lkey, belongs to one registration, whether a client has it or a
thread is making or undoing it.

**DataPathProofs**: `TypeCorrect` (no queue exceeds its capacity) and `HandsOwn` for all
queue sizes; so `NothingLost` and `PathStays`, of hosts whose completion queue has not
overflowed; `NeverOverruns` with `Roomy`.  The proofs count entries of
sequences: `OwnInv`, that the queues of a host hold of each process at most what it has
outstanding, and `RoomInv`, that requests and their completions fit a work queue
together, until they are polled.  `PathHolds` needs `CreditInv`: as long as no process has sent
what was not called for, SENDs on their way and buffers they have taken are
no more than the credits, which are sends that had a receive of the partner's posted
before them; so an arriving message finds a buffer, whosever it is.

With `Roomy` and `Dedicated`, which the test program's use of a connection is,
`DedicatedServed` (`Served`: no careful process is ever stuck) and `DedicatedBuffers`
(`RightBuffer`), both of which are false for two processes.  `DedicatedInv` says that all
completions of a host are good ones of its process.  That a post finds room
(`RoomForOwn`) is `Conserved` read backwards: what the queues hold is what the one
process has outstanding.  `MaxOut <= CqSize` satisfies `Roomy` here, so the theorems cover the
code's sizes (1024 each, `types.h` 22-24) for a client that keeps no more than 1024
requests outstanding.

**ScaleCallProofs**: `TypeCorrect`, `AnswersTrue`, `ErrorsTrue`.  `StageInv` relates, for each
call, how far the router is, what has been written and not read in either
direction, and whether the call was carried out.  From it follows `CallsRefine`: the
transport implements `OneCall`.  `Work` is the step that carries a call out, or a
stutter if the client has died; it is never the second for a call, because `StageInv`
has `done` at 0 for a thread that has not worked yet, and a socket, while anyone holds it,
belongs to one client.

**SessionProofs**: `TypeCorrect` and `ServedByWhole` from `CoreInv`; with `PidsFit`
`UniqueHandles`, `PollsHitOwn` and `RefusalsHaveCause` from `OwnInv`.  `TableInv` follows a
CQ through the library's table to its QP, and the router's table from the
QP to what it is bound to; `EntryInv` says that a CQ is in the router's table
only if it was made, so that a new handle meets no entry but an ended process's.

Each of the inductive invariants was first checked by TLC on the instance of its
module's run, or the one named above; so was the refinement of `OneCall`, which is in no
run of its own.

**Model-checked only.**  `FreedOnce` and `NoLeak` with `Unprepared` clients, and the liveness
properties `Confined`, `WaitEnds`, `QueueDrains`,
`ThreadEnds` and `OnlyEofHangs`: they rest on fairness and ENABLED, which the
prover does not handle.  The properties that the code violates have
counterexamples in place of proofs.

## Not modelled

- `IBV_DESTROY_CQ` in the router (2129-2158), which no client sends, and
  `IBV_QUERY_GID`, `IBV_QUERY_PORT`, `INIT_RES`, which copy values that never change.
- Attribute values of QPs, the exchange of meta data between test programs, option
  parsing, logging, and the vendored `verbs.h`.
- Byte layouts: answers of 648 bytes in buffers of 255 (739, 1460), hashes over gids
  that have no zero byte (`common.h` 39), the library's `cq_qp_map` past its 1024th
  entry (`verbs.c` 335).
- Signals that interrupt a `read` or `write` of a call, and a peer daemon that dies between
  `connect` and `send` (642, 652), whose message is then read uninitialised: `recv` is only
  compared with -1 (573).
- Recovery from clients that die: there is none in the code.  `RefExact` and `NoLeak`
  speak of clients that destroy what they create; what the leftovers do to later
  clients is in `Session`.
- A second `ibv_get_device_list` in one process, which clears the table under
  its other threads (`verbs.c` 136-138); `Session`'s processes open the list once.

## Plan

What remains, in order of what it would add:

1. A composition of `MemReg`'s posts with the reference that `HostMap` holds for
   them, so that a post after `IBV_DEREG_MR` or `IBV_DESTROY_QP` is covered end to end.
   The theorems of `MemRegProofs` and `HostMapProofs` are the halves of the argument.
2. The agreement between routers at the granularity of `HostMap`'s critical
   sections.  `RouterSync` takes each of them for one step with the messages around it,
   and `HostMap` lets the peer do what it likes.
3. A variant of `RouterSync` in which DELETE names the QP it is about and the receiver
   looks at it, to see which disturbed pairs would be left.
