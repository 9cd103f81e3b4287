------------------------------ MODULE RouterSync ------------------------------
(***************************************************************************)
(* Several scalerouter daemons that agree on the physical QPs between them. *)
(* The router that brings a virtual QP to RTR tells the peer the number of  *)
(* its physical QP (INSERT), waits for the peer's number to show up in its  *)
(* own dst_qp_map, and connects its QP to that number unless it is already  *)
(* connected.  The router that destroys the last virtual QP tells the peer  *)
(* to forget the number (DELETE).  Each message is a TCP connection of its  *)
(* own, served by a thread of its own and never acknowledged, so messages   *)
(* are applied in any order; sending one may fail, and so may receiving it. *)
(*                                                                          *)
(* Nothing in the code keeps the messages of one physical QP apart from     *)
(* those of the next.  The model does not either: a history variable notes  *)
(* the pairs of hosts to which that happened, and the properties say what   *)
(* holds of the others.                                                     *)
(*                                                                          *)
(* What one router does under its own mutexes is HostMap's subject: here    *)
(* each critical section of a request is one step.                          *)
(***************************************************************************)
EXTENDS Integers, FiniteSets, BagsExt

Bag == INSTANCE Bags

CONSTANTS
  Routers,      \* the daemons, one per host
  Handles,      \* virtual QPs
  Home,         \* [Handles -> Routers]: the host of the process that owns one
  Peers,        \* [Routers -> SUBSET Routers]: the hosts whose QPs it connects to
  QpNums,       \* physical QP numbers that a NIC hands out
  MaxInFlight,  \* bound on the messages sent and not yet applied
  None,         \* no router, no number, no entry
  MayFail       \* calls of the NIC and of TCP may fail

ASSUME RouterSyncAssumption ==
  /\ IsFiniteSet(Handles) /\ Home \in [Handles -> Routers]
  /\ Peers \in [Routers -> SUBSET Routers]
  /\ MaxInFlight \in Nat \ {0}
  /\ None \notin Routers \cup QpNums
  /\ MayFail \in BOOLEAN

VARIABLES
  pc,          \* where the request on each virtual QP is
  bound,       \* src_qp_map: the peer a virtual QP is bound to
  phy,         \* the local phy_qp_num of a request
  seen,        \* the local dst_phy_qp_num of a request
  up,          \* virtual QPs whose MODIFY_QP was answered flag = 1
  conn,        \* conn[r][s]: what host_map of r has for s
  dst_qp_map,  \* dst_qp_map[r][s]: the number r has for the QP of s
  inflight,    \* bag of messages sent and not yet applied
  disturbed    \* history: <<r, s>> if s may have missed or mixed up news of r

vars == <<pc, bound, phy, seen, up, conn, dst_qp_map, inflight, disturbed>>

\* qp_num of the physical QP, the number it was connected to (status 4) or None
\* (status 0), and ref_cnt; qpn = None stands for "no conn_resources".
Conn == [qpn : QpNums \cup {None}, dest : QpNums \cup {None}, refs : Nat]
NoConn == [qpn |-> None, dest |-> None, refs |-> 0]

Message == [op : {"INSERT", "DELETE"}, from : Routers, to : Routers,
            qpn : QpNums \cup {None}]

TypeOK ==
  /\ pc \in [Handles -> {"idle", "tell", "wait", "ready", "delete"}]
  /\ bound \in [Handles -> Routers \cup {None}]
  /\ phy \in [Handles -> QpNums \cup {None}]
  /\ seen \in [Handles -> QpNums \cup {None}]
  /\ up \subseteq Handles
  /\ conn \in [Routers -> [Routers -> Conn]]
  /\ dst_qp_map \in [Routers -> [Routers -> QpNums \cup {None}]]
  /\ Bag!IsABag(inflight) /\ Bag!BagToSet(inflight) \subseteq Message
  /\ disturbed \subseteq Routers \X Routers

Init ==
  /\ pc = [h \in Handles |-> "idle"]
  /\ bound = [h \in Handles |-> None]
  /\ phy = [h \in Handles |-> None]
  /\ seen = [h \in Handles |-> None]
  /\ up = {}
  /\ conn = [r \in Routers |-> [s \in Routers |-> NoConn]]
  /\ dst_qp_map = [r \in Routers |-> [s \in Routers |-> None]]
  /\ inflight = Bag!EmptyBag
  /\ disturbed = {}

-----------------------------------------------------------------------------

InUse(r) == {conn[r][s].qpn : s \in Routers} \ {None}

InFlight(r, s) == {m \in Bag!BagToSet(inflight) : m.from = r /\ m.to = s}

\* An earlier physical QP of r is still in use at s, or news of it on its way:
\* a message, a request about to send one, a connection or one about to be made.
Lingers(r, s) ==
  \/ InFlight(r, s) # {}
  \/ \E h \in Handles : Home[h] = r /\ bound[h] = s /\ pc[h] = "delete"
  \/ conn[s][r].dest # None
  \/ \E g \in Handles : Home[g] = s /\ bound[g] = r /\ pc[g] = "ready"

\* A new physical QP disturbs the pair if the earlier one lingers, and is a
\* fresh start if s has nothing of it.
AfterRestart(r, s) ==
  IF Lingers(r, s) THEN disturbed \cup {<<r, s>>}
  ELSE IF dst_qp_map[s][r] = None THEN disturbed \ {<<r, s>>} ELSE disturbed

Connection(q, n) == [qpn |-> q, dest |-> None, refs |-> n]

\* IBV_MODIFY_QP up to src_qp_map, for a peer without an entry in host_map.
ModifyNew(h, s) ==
  LET r == Home[h] IN
  /\ pc[h] = "idle" /\ bound[h] = None
  /\ conn[r][s] = NoConn
  /\ \E q \in QpNums \ InUse(r) :
       /\ conn' = [conn EXCEPT ![r][s] = Connection(q, 1)]
       /\ phy' = [phy EXCEPT ![h] = q]
  /\ bound' = [bound EXCEPT ![h] = s]
  /\ pc' = [pc EXCEPT ![h] = "tell"]
  /\ disturbed' = AfterRestart(r, s)
  /\ UNCHANGED <<seen, up, dst_qp_map, inflight>>

\* The same for a peer that has one: take a reference and its number.
ModifyShare(h, s) ==
  LET r == Home[h] IN
  /\ pc[h] = "idle" /\ bound[h] = None
  /\ conn[r][s] # NoConn
  /\ conn' = [conn EXCEPT ![r][s].refs = @ + 1]
  /\ phy' = [phy EXCEPT ![h] = conn[r][s].qpn]
  /\ bound' = [bound EXCEPT ![h] = s]
  /\ pc' = [pc EXCEPT ![h] = "tell"]
  /\ UNCHANGED <<seen, up, dst_qp_map, inflight, disturbed>>

Insert(h) == [op |-> "INSERT", from |-> Home[h], to |-> bound[h], qpn |-> phy[h]]

\* update_dst_router(INSERT): the connection is made, sent on and closed.
ModifyTell(h) ==
  /\ pc[h] = "tell"
  /\ Bag!BagCardinality(inflight) < MaxInFlight
  /\ inflight' = BagAdd(inflight, Insert(h))
  /\ pc' = [pc EXCEPT ![h] = "wait"]
  /\ UNCHANGED <<bound, phy, seen, up, conn, dst_qp_map, disturbed>>

\* It fails and the request is killed: the peer is not told, the reference,
\* the binding and the physical QP stay.
ModifyTellFails(h) ==
  /\ MayFail /\ pc[h] = "tell"
  /\ phy' = [phy EXCEPT ![h] = None]
  /\ pc' = [pc EXCEPT ![h] = "idle"]
  /\ UNCHANGED <<bound, seen, up, conn, dst_qp_map, inflight, disturbed>>

\* The busy wait ends with whatever number is in the map.
ModifyWait(h) ==
  LET n == dst_qp_map[Home[h]][bound[h]] IN
  /\ pc[h] = "wait" /\ n # None
  /\ seen' = [seen EXCEPT ![h] = n]
  /\ pc' = [pc EXCEPT ![h] = "ready"]
  /\ UNCHANGED <<bound, phy, up, conn, dst_qp_map, inflight, disturbed>>

Connected(h) ==
  IF conn[Home[h]][bound[h]].dest = None
  THEN seen[h] ELSE conn[Home[h]][bound[h]].dest

\* Only a connection in status 0 is connected; flag = 1 either way.
ModifyReady(h) ==
  /\ pc[h] = "ready"
  /\ conn' = [conn EXCEPT ![Home[h]][bound[h]].dest = Connected(h)]
  /\ up' = up \cup {h}
  /\ phy' = [phy EXCEPT ![h] = None]
  /\ seen' = [seen EXCEPT ![h] = None]
  /\ pc' = [pc EXCEPT ![h] = "idle"]
  /\ UNCHANGED <<bound, dst_qp_map, inflight, disturbed>>

\* Connecting it fails: status stays 0, flag = 0.
ModifyNotReady(h) ==
  /\ MayFail /\ pc[h] = "ready" /\ conn[Home[h]][bound[h]].dest = None
  /\ phy' = [phy EXCEPT ![h] = None]
  /\ seen' = [seen EXCEPT ![h] = None]
  /\ pc' = [pc EXCEPT ![h] = "idle"]
  /\ UNCHANGED <<bound, up, conn, dst_qp_map, inflight, disturbed>>

AnyRef(c) == TRUE
LastRef(c) == c.refs - 1 <= 0

\* IBV_DESTROY_QP with other virtual QPs left.
DestroyOne(h) ==
  LET r == Home[h] s == bound[h] IN
  /\ pc[h] = "idle" /\ s # None /\ ~LastRef(conn[r][s])
  /\ conn' = [conn EXCEPT ![r][s].refs = @ - 1]
  /\ bound' = [bound EXCEPT ![h] = None]
  /\ up' = up \ {h}
  /\ UNCHANGED <<pc, phy, seen, dst_qp_map, inflight, disturbed>>

\* The last one: the entry leaves host_map and the physical QP is destroyed,
\* and only then is the peer told.
DestroyLast(h) ==
  LET r == Home[h] s == bound[h] IN
  /\ pc[h] = "idle" /\ s # None /\ LastRef(conn[r][s])
  /\ conn' = [conn EXCEPT ![r][s] = NoConn]
  /\ pc' = [pc EXCEPT ![h] = "delete"]
  /\ up' = up \ {h}
  /\ UNCHANGED <<bound, phy, seen, dst_qp_map, inflight, disturbed>>

DeleteNowhere(h) == [op |-> "DELETE", from |-> Home[h], to |-> None, qpn |-> None]
Delete(h) == [op |-> "DELETE", from |-> Home[h], to |-> bound[h], qpn |-> None]

DestroyTell(h) ==
  /\ pc[h] = "delete"
  /\ Bag!BagCardinality(inflight) < MaxInFlight
  /\ inflight' = BagAdd(inflight, Delete(h))
  /\ bound' = [bound EXCEPT ![h] = None]
  /\ pc' = [pc EXCEPT ![h] = "idle"]
  /\ UNCHANGED <<phy, seen, up, conn, dst_qp_map, disturbed>>

\* It fails, which is only logged.
DestroyTellFails(h) ==
  /\ MayFail /\ pc[h] = "delete"
  /\ bound' = [bound EXCEPT ![h] = None]
  /\ pc' = [pc EXCEPT ![h] = "idle"]
  /\ disturbed' = disturbed \cup {<<Home[h], bound[h]>>}
  /\ UNCHANGED <<phy, seen, up, conn, dst_qp_map, inflight>>

Erases(m) == None
Keeps(m) == IF m.op = "INSERT" THEN m.qpn ELSE dst_qp_map[m.to][m.from]
EntryAfter(m) == IF m.op = "INSERT" THEN m.qpn ELSE None

\* A DELETE overtakes an INSERT of its host.
Overtakes(m) ==
  m.op = "DELETE" /\ \E n \in InFlight(m.from, m.to) : n.op = "INSERT"

\* handle_remote_router: one message, in whatever order the threads run.  A
\* DELETE carries a number and the receiver does not look at it.
Deliver(m) ==
  /\ Bag!BagIn(m, inflight)
  /\ inflight' = BagRemove(inflight, m)
  /\ dst_qp_map' = [dst_qp_map EXCEPT ![m.to][m.from] = EntryAfter(m)]
  /\ disturbed' = disturbed \cup IF Overtakes(m) THEN {<<m.from, m.to>>} ELSE {}
  /\ UNCHANGED <<pc, bound, phy, seen, up, conn>>

\* recv fails: the thread ends and the sender never learns.
Lose(m) ==
  /\ MayFail /\ Bag!BagIn(m, inflight)
  /\ inflight' = BagRemove(inflight, m)
  /\ disturbed' = disturbed \cup {<<m.from, m.to>>}
  /\ UNCHANGED <<pc, bound, phy, seen, up, conn, dst_qp_map>>

-----------------------------------------------------------------------------

Continue(h) ==
  \/ ModifyTell(h) \/ ModifyTellFails(h)
  \/ ModifyWait(h)
  \/ ModifyReady(h) \/ ModifyNotReady(h)
  \/ DestroyTell(h) \/ DestroyTellFails(h)

Request(h) ==
  \/ \E s \in Peers[Home[h]] : ModifyNew(h, s) \/ ModifyShare(h, s)
  \/ DestroyOne(h) \/ DestroyLast(h)

Next ==
  \/ \E h \in Handles : Continue(h) \/ Request(h)
  \/ \E m \in Bag!BagToSet(inflight) : Deliver(m) \/ Lose(m)

Spec == Init /\ [][Next]_vars

\* A request that waits is run, and TCP goes on delivering what one host sends
\* another; clients need not call, and other requests may stand still.
FairSpec ==
  /\ Spec
  /\ \A h \in Handles : WF_vars(ModifyWait(h))
  /\ \A r \in Routers : \A s \in Peers[r] :
       WF_vars(\E m \in InFlight(r, s) : Deliver(m))

-----------------------------------------------------------------------------
(* Properties.  All but the last two speak of pairs of hosts that are not   *)
(* disturbed: no message was lost or overtaken, no DELETE failed to go out, *)
(* and no physical QP was started while its predecessor lingered at the     *)
(* peer.  The last two are what the code takes for granted of every pair.   *)

\* Two hosts that each have a virtual QP answered flag = 1 for the other have
\* physical QPs that are connected to one another: the client that goes on to
\* exchange data (verbs_api_test.c:395-411 expects its completions to succeed)
\* finds a path.
Paired ==
  \A h, g \in up :
    /\ Home[h] = bound[g] /\ Home[g] = bound[h]
    /\ <<Home[g], Home[h]>> \notin disturbed
    => /\ conn[Home[h]][bound[h]].qpn # None
       /\ conn[Home[h]][bound[h]].dest = conn[Home[g]][bound[g]].qpn

\* What a router remembers of a peer that has a physical QP, in its map, in a
\* request that has read the map and in a connection it made, is that QP: a
\* host that comes back finds nothing of its last QP, through failing requests
\* and shared connections.
RemembersCurrent ==
  \A r, s \in Routers :
    conn[s][r] # NoConn /\ <<s, r>> \notin disturbed =>
      /\ dst_qp_map[r][s] \in {None, conn[s][r].qpn}
      /\ conn[r][s].dest \in {None, conn[s][r].qpn}
      /\ \A h \in Handles :
           Home[h] = r /\ bound[h] = s => seen[h] \in {None, conn[s][r].qpn}

\* The request on g has told the peer and was not refused since.
HasTold(g) == pc[g] \in {"wait", "ready"} \/ g \in up

\* A host that has told its peer is known there as soon as nothing is in
\* flight: nobody's destroy, and no failing request, takes the entry away.
KnownOnceTold ==
  \A g \in Handles :
    /\ HasTold(g) /\ InFlight(Home[g], bound[g]) = {}
    /\ <<Home[g], bound[g]>> \notin disturbed
    => dst_qp_map[bound[g]][Home[g]] = conn[Home[g]][bound[g]].qpn

\* Nothing of the pair is on its way: no message, no request about to send one.
Quiet(r, s) ==
  /\ InFlight(r, s) = {}
  /\ \A h \in Handles : Home[h] = r /\ bound[h] = s => pc[h] \notin {"tell", "delete"}

\* The peer has no entry for a QP that is gone once the messages were applied:
\* DELETE is there to "delete outdate dst_qp_map" (scalerouter.cpp:595).
ForgottenWhenQuiet ==
  \A r, s \in Routers :
    conn[r][s] = NoConn /\ Quiet(r, s) /\ <<r, s>> \notin disturbed
      => dst_qp_map[s][r] = None

PeerTold(h) ==
  \E g \in Handles : HasTold(g) /\ Home[g] = bound[h] /\ bound[g] = Home[h]

\* The unbounded wait for the peer's number (scalerouter.cpp:1703) ends if some
\* request of the peer has sent it and the peer keeps its QP: the INSERT comes
\* and its effect stays, whoever else the peer serves or refuses.
WaitEnds ==
  \A h \in Handles :
    pc[h] = "wait" /\ PeerTold(h)
      ~> pc[h] # "wait" \/ ~PeerTold(h) \/ <<bound[h], Home[h]>> \in disturbed

\* "Successfully delete outdate dst_qp_map" (scalerouter.cpp:595): a DELETE
\* never erases the number of the QP that the peer has now.
ErasesOutdated ==
  [][\A m \in Bag!BagToSet(inflight) :
       Deliver(m) /\ m.op = "DELETE" /\ conn[m.from][m.to] # NoConn =>
         dst_qp_map[m.to][m.from] # conn[m.from][m.to].qpn]_vars

\* "Successfully find dst_phy_qp_num which correspond to dst_gid"
\* (scalerouter.cpp:1717): the number a request connects to is the peer's.
FoundCorresponds ==
  \A h \in Handles :
    pc[h] = "ready" /\ conn[bound[h]][Home[h]] # NoConn =>
      seen[h] = conn[bound[h]][Home[h]].qpn
=============================================================================
