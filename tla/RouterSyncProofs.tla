--------------------------- MODULE RouterSyncProofs ---------------------------
(***************************************************************************)
(* Agreement between any number of routers, with any number of virtual QPs *)
(* and messages in flight, whatever fails: types and counts of every state, *)
(* and of the pairs of hosts that are not disturbed, that nobody remembers  *)
(* a physical QP that has been replaced, so that both ends of a ready pair  *)
(* are connected to each other.                                             *)
(***************************************************************************)
EXTENDS RouterSync, FiniteSetTheorems, TLAPS

\* The virtual QPs of r whose reference to the connection to s is counted.
Holders(r, s) == {h \in Handles : Home[h] = r /\ bound[h] = s /\ pc[h] # "delete"}

\* What a request knows, and what a client that was answered flag = 1 may rely on.
RequestInv ==
  \A h \in Handles :
    /\ pc[h] # "idle" => bound[h] # None
    /\ pc[h] \in {"tell", "wait", "ready"} => phy[h] = conn[Home[h]][bound[h]].qpn
    /\ pc[h] = "ready" <=> seen[h] # None
    /\ h \in up =>
         pc[h] = "idle" /\ bound[h] # None /\ conn[Home[h]][bound[h]].dest # None

\* A connection counts its holders, has one, and has a physical QP.
CountInv ==
  \A r, s \in Routers :
    /\ conn[r][s].refs = Cardinality(Holders(r, s))
    /\ conn[r][s] # NoConn => conn[r][s].qpn # None /\ conn[r][s].refs # 0

\* An INSERT carries a number.
MessageInv == \A m \in Bag!BagToSet(inflight) : m.op = "INSERT" => m.qpn # None

BaseInv == TypeOK /\ RequestInv /\ CountInv /\ MessageInv

\* The peer s has, or will get, a number for the QP of r.
Told(r, s) == dst_qp_map[s][r] # None \/ \E m \in InFlight(r, s) : m.op = "INSERT"

\* While a connection exists, only its own INSERTs are on their way.
CurrentInv ==
  \A r, s \in Routers :
    conn[r][s] # NoConn /\ <<r, s>> \notin disturbed =>
      \A m \in InFlight(r, s) : m.op = "INSERT" /\ m.qpn = conn[r][s].qpn

\* From its INSERT to its destroy the peer has a number, or will get one.
ToldInv ==
  \A h \in Handles :
    HasTold(h) /\ <<Home[h], bound[h]>> \notin disturbed => Told(Home[h], bound[h])

\* A DELETE that is still to be sent is of a connection that is gone.
LeaveInv ==
  \A h \in Handles :
    pc[h] = "delete" /\ <<Home[h], bound[h]>> \notin disturbed =>
      conn[Home[h]][bound[h]] = NoConn

\* s has nothing of a connection of r that is gone, or a DELETE will tell it.
Erased(r, s) ==
  \/ \E m \in InFlight(r, s) : m.op = "DELETE"
  \/ \E h \in Handles : Home[h] = r /\ bound[h] = s /\ pc[h] = "delete"
  \/ dst_qp_map[s][r] = None /\ InFlight(r, s) = {}

GoneInv ==
  \A r, s \in Routers :
    conn[r][s] = NoConn /\ <<r, s>> \notin disturbed => Erased(r, s)

Agreement == RemembersCurrent /\ CurrentInv /\ ToldInv /\ LeaveInv /\ GoneInv

IInv == BaseInv /\ Agreement

-----------------------------------------------------------------------------
(* Bags of messages, and sets of holders.                                   *)

\* A message that is sent is one more in the bag.
LEMMA BagAdded ==
  ASSUME NEW B, Bag!IsABag(B), NEW m
  PROVE  Bag!IsABag(BagAdd(B, m)) /\ Bag!BagToSet(BagAdd(B, m)) = Bag!BagToSet(B) \cup {m}
  <1>1. CASE m \in DOMAIN B
    <2>1. BagAdd(B, m) = [e \in DOMAIN B |-> IF e = m THEN B[e] + 1 ELSE B[e]]
      BY <1>1 DEF BagAdd
    <2>2. \A e \in DOMAIN B : B[e] \in Nat /\ B[e] > 0 /\ B[e] + 1 \in Nat /\ B[e] + 1 > 0
      BY DEF Bag!IsABag
    <2> QED
      BY <1>1, <2>1, <2>2 DEF Bag!IsABag, Bag!BagToSet
  <1>2. CASE m \notin DOMAIN B
    BY <1>2 DEF Bag!IsABag, BagAdd, Bag!BagToSet
  <1> QED
    BY <1>1, <1>2

\* A message that is applied leaves the others in the bag, and perhaps its like.
LEMMA BagRemoved ==
  ASSUME NEW B, Bag!IsABag(B), NEW m, Bag!BagIn(m, B)
  PROVE  /\ Bag!IsABag(BagRemove(B, m))
         /\ Bag!BagToSet(BagRemove(B, m)) \subseteq Bag!BagToSet(B)
         /\ Bag!BagToSet(B) \ {m} \subseteq Bag!BagToSet(BagRemove(B, m))
  <1>1. CASE B[m] = 1
    BY <1>1 DEF Bag!IsABag, BagRemove, Bag!BagToSet, Bag!BagIn
  <1>2. CASE B[m] # 1
    BY <1>2 DEF Bag!IsABag, BagRemove, Bag!BagToSet, Bag!BagIn
  <1> QED
    BY <1>1, <1>2

\* There are finitely many virtual QPs, so the holders can be counted.
LEMMA HoldersCounted ==
  \A r, s : /\ IsFiniteSet(Holders(r, s)) /\ Cardinality(Holders(r, s)) \in Nat
            /\ Cardinality(Holders(r, s)) = 0 <=> Holders(r, s) = {}
  <1>1. \A r, s : Holders(r, s) \subseteq Handles
    BY DEF Holders
  <1> QED
    BY <1>1, FS_Subset, FS_CardinalityType, FS_EmptySet, RouterSyncAssumption

\* One more.
LEMMA HolderAdded ==
  ASSUME NEW r, NEW s, NEW h \in Handles, h \notin Holders(r, s)
  PROVE  Cardinality(Holders(r, s) \cup {h}) = Cardinality(Holders(r, s)) + 1
  BY HoldersCounted, FS_AddElement

\* One less; the last one is the only one.
LEMMA HolderRemoved ==
  ASSUME NEW r, NEW s, NEW h \in Holders(r, s)
  PROVE  /\ Cardinality(Holders(r, s) \ {h}) = Cardinality(Holders(r, s)) - 1
         /\ Cardinality(Holders(r, s)) - 1 <= 0 => Holders(r, s) = {h}
  <1>1. /\ Cardinality(Holders(r, s) \ {h}) = Cardinality(Holders(r, s)) - 1
        /\ IsFiniteSet(Holders(r, s) \ {h})
    BY HoldersCounted, FS_RemoveElement
  <1>2. ASSUME Cardinality(Holders(r, s)) - 1 <= 0
        PROVE  Holders(r, s) = {h}
    <2>1. Cardinality(Holders(r, s)) = 1
      BY <1>1, <1>2, HoldersCounted, FS_CardinalityType
    <2> QED
      BY <2>1, HoldersCounted, FS_Singleton
  <1> QED
    BY <1>1, <1>2

\* A connection that somebody holds is there.
LEMMA HeldIsThere ==
  ASSUME BaseInv, NEW h \in Handles, bound[h] # None, pc[h] # "delete"
  PROVE  /\ Home[h] \in Routers /\ bound[h] \in Routers
         /\ h \in Holders(Home[h], bound[h])
         /\ conn[Home[h]][bound[h]] # NoConn
         /\ conn[Home[h]][bound[h]].qpn \in QpNums
         /\ conn[Home[h]][bound[h]].refs = Cardinality(Holders(Home[h], bound[h]))
  <1>1. Home[h] \in Routers /\ bound[h] \in Routers /\ h \in Holders(Home[h], bound[h])
    BY RouterSyncAssumption DEF BaseInv, TypeOK, Holders
  <1>2. /\ conn[Home[h]][bound[h]].refs = Cardinality(Holders(Home[h], bound[h]))
        /\ conn[Home[h]][bound[h]].refs # 0
    BY <1>1, HoldersCounted DEF BaseInv, CountInv
  <1>3. conn[Home[h]][bound[h]] # NoConn
    BY <1>2 DEF NoConn
  <1>4. conn[Home[h]][bound[h]] \in Conn /\ conn[Home[h]][bound[h]].qpn # None
    BY <1>1, <1>3 DEF BaseInv, TypeOK, CountInv
  <1> QED
    BY <1>1, <1>2, <1>3, <1>4 DEF Conn

-----------------------------------------------------------------------------
(* Types, requests and counts, whatever the hosts do: one lemma per action. *)

\* With no connection and no request the invariant holds.
LEMMA InitBase == Init => BaseInv
  <1> SUFFICES ASSUME Init PROVE BaseInv
    OBVIOUS
  <1>1. Bag!IsABag(Bag!EmptyBag) /\ Bag!BagToSet(Bag!EmptyBag) = {}
    BY DEF Bag!IsABag, Bag!BagToSet, Bag!EmptyBag, Bag!SetToBag
  <1>2. TypeOK
    BY <1>1, RouterSyncAssumption DEF Init, TypeOK, NoConn, Conn
  <1>3. \A r, s \in Routers : Holders(r, s) = {}
    BY RouterSyncAssumption DEF Init, Holders
  <1>4. CountInv
    BY <1>3, FS_EmptySet DEF Init, CountInv, NoConn
  <1>5. RequestInv /\ MessageInv
    BY <1>1 DEF Init, RequestInv, MessageInv
  <1> QED
    BY <1>2, <1>4, <1>5 DEF BaseInv

\* A new connection has one holder.
LEMMA ModifyNewBase ==
  ASSUME BaseInv, NEW h \in Handles, NEW s \in Routers, ModifyNew(h, s)
  PROVE  BaseInv'
  <1> DEFINE r == Home[h]
  <1>1. r \in Routers /\ pc[h] = "idle" /\ bound[h] = None /\ conn[r][s] = NoConn
    BY RouterSyncAssumption DEF ModifyNew
  <1>2. PICK q \in QpNums : conn' = [conn EXCEPT ![r][s] = Connection(q, 1)] /\ phy' = [phy EXCEPT ![h] = q]
    BY DEF ModifyNew
  <1>3. Connection(q, 1) \in Conn /\ Connection(q, 1).qpn = q /\ Connection(q, 1).refs = 1
    BY DEF Connection, Conn
  <1>4. \A x, y \in Routers : conn'[x][y] = IF x = r /\ y = s THEN Connection(q, 1) ELSE conn[x][y]
    BY <1>1, <1>2 DEF BaseInv, TypeOK
  <1>5. q # None /\ s # None
    BY RouterSyncAssumption
  <1>6. TypeOK'
    <2>1. disturbed' \subseteq Routers \X Routers
      BY <1>1 DEF BaseInv, TypeOK, ModifyNew, AfterRestart
    <2> QED
      BY <1>1, <1>2, <1>3, <2>1 DEF BaseInv, TypeOK, ModifyNew
  <1>7. /\ Holders(r, s) = {} /\ Holders(r, s)' = {h}
        /\ \A x, y \in Routers : x # r \/ y # s => Holders(x, y)' = Holders(x, y)
    <2>1. conn[r][s].refs = 0
      BY <1>1 DEF NoConn
    <2>2. Holders(r, s) = {}
      BY <1>1, <2>1, HoldersCounted DEF BaseInv, CountInv
    <2>3. pc' = [pc EXCEPT ![h] = "tell"] /\ bound' = [bound EXCEPT ![h] = s]
      BY DEF ModifyNew
    <2>4. \A g \in Handles : /\ g # h => bound'[g] = bound[g] /\ pc'[g] = pc[g]
                             /\ g = h => bound'[g] = s /\ pc'[g] = "tell"
      BY <2>3 DEF BaseInv, TypeOK
    <2>5. \A x, y \in Routers : x # r \/ y # s => Holders(x, y)' = Holders(x, y)
      BY <1>1, <1>5, <2>4, RouterSyncAssumption DEF Holders
    <2>6. Holders(r, s)' = {h}
      BY <1>1, <1>5, <2>2, <2>4 DEF Holders
    <2> QED
      BY <2>2, <2>5, <2>6
  <1>8. CountInv'
    <2>1. Cardinality({h}) = 1
      BY FS_Singleton
    <2> SUFFICES ASSUME NEW x \in Routers, NEW y \in Routers PROVE CountInv!(x, y)'
      BY DEF CountInv
    <2>2. CASE x = r /\ y = s
      <3>1. conn'[x][y].refs = 1 /\ conn'[x][y].qpn # None /\ conn'[x][y].refs # 0
        BY <1>3, <1>4, <1>5, <2>2
      <3>2. Cardinality(Holders(x, y)') = 1
        BY <1>7, <2>1, <2>2
      <3> QED
        BY <3>1, <3>2
    <2>3. CASE ~(x = r /\ y = s)
      BY <1>4, <1>7, <2>3 DEF BaseInv, CountInv
    <2> QED
      BY <2>2, <2>3
  <1>9. RequestInv'
    <2> SUFFICES ASSUME NEW g \in Handles PROVE RequestInv!(g)'
      BY DEF RequestInv
    <2>1. CASE g = h
      BY <1>1, <1>2, <1>3, <1>4, <1>5, <2>1 DEF BaseInv, TypeOK, RequestInv, ModifyNew
    <2>2. CASE g # h
      <3>1. bound[g] # None /\ pc[g] # "delete" => ~(Home[g] = r /\ bound[g] = s)
        BY <1>7 DEF Holders
      <3>2. bound[g] # None => Home[g] \in Routers /\ bound[g] \in Routers
        BY RouterSyncAssumption DEF BaseInv, TypeOK
      <3> QED
        BY <1>2, <1>4, <2>2, <3>1, <3>2 DEF BaseInv, TypeOK, RequestInv, ModifyNew
    <2> QED
      BY <2>1, <2>2
  <1>10. MessageInv'
    BY DEF BaseInv, MessageInv, ModifyNew
  <1> QED
    BY <1>6, <1>8, <1>9, <1>10 DEF BaseInv

\* One holder more.
LEMMA ModifyShareBase ==
  ASSUME BaseInv, NEW h \in Handles, NEW s \in Routers, ModifyShare(h, s)
  PROVE  BaseInv'
  <1> DEFINE r == Home[h]
  <1>1. /\ r \in Routers /\ s # None /\ pc[h] = "idle" /\ bound[h] = None
        /\ conn[r][s] # NoConn /\ conn[r][s] \in Conn
        /\ phy' = [phy EXCEPT ![h] = conn[r][s].qpn]
        /\ bound' = [bound EXCEPT ![h] = s] /\ pc' = [pc EXCEPT ![h] = "tell"]
    <2>1. r \in Routers /\ s # None
      BY RouterSyncAssumption
    <2>2. conn[r][s] \in Conn
      BY <2>1 DEF BaseInv, TypeOK
    <2> QED
      BY <2>1, <2>2 DEF ModifyShare
  <1>2. /\ conn' = [conn EXCEPT ![r][s] = [conn[r][s] EXCEPT !.refs = @ + 1]]
        /\ [conn[r][s] EXCEPT !.refs = @ + 1] \in Conn
    BY <1>1 DEF ModifyShare, Conn
  <1>3. \A x, y \in Routers :
          /\ conn'[x][y].refs = IF x = r /\ y = s THEN conn[r][s].refs + 1 ELSE conn[x][y].refs
          /\ conn'[x][y].qpn = conn[x][y].qpn /\ conn'[x][y].dest = conn[x][y].dest
          /\ x # r \/ y # s => conn'[x][y] = conn[x][y]
    BY <1>1, <1>2 DEF BaseInv, TypeOK, Conn
  <1>4. TypeOK'
    BY <1>1, <1>2 DEF BaseInv, TypeOK, ModifyShare, Conn
  <1>5. /\ h \notin Holders(r, s) /\ Holders(r, s)' = Holders(r, s) \cup {h}
        /\ \A x, y \in Routers : x # r \/ y # s => Holders(x, y)' = Holders(x, y)
    <2>1. \A g \in Handles : /\ g # h => bound'[g] = bound[g] /\ pc'[g] = pc[g]
                             /\ g = h => bound'[g] = s /\ pc'[g] = "tell"
      BY <1>1 DEF BaseInv, TypeOK
    <2>2. \A x, y \in Routers : x # r \/ y # s => Holders(x, y)' = Holders(x, y)
      BY <1>1, <2>1, RouterSyncAssumption DEF Holders
    <2>3. h \notin Holders(r, s) /\ Holders(r, s)' = Holders(r, s) \cup {h}
      BY <1>1, <2>1 DEF Holders
    <2> QED
      BY <2>2, <2>3
  <1>6. CountInv'
    <2> SUFFICES ASSUME NEW x \in Routers, NEW y \in Routers PROVE CountInv!(x, y)'
      BY DEF CountInv
    <2>1. Cardinality(Holders(r, s) \cup {h}) = Cardinality(Holders(r, s)) + 1
      BY <1>5, HolderAdded
    <2>2. CASE x = r /\ y = s
      <3>1. conn[r][s].refs = Cardinality(Holders(r, s)) /\ conn[r][s].qpn # None
        BY <1>1 DEF BaseInv, CountInv
      <3> QED
        <4>1. Cardinality(Holders(x, y)') = Cardinality(Holders(r, s)) + 1
          BY <1>5, <2>1, <2>2
        <4>2. /\ conn'[x][y].refs = Cardinality(Holders(r, s)) + 1
              /\ conn'[x][y].qpn # None
          BY <1>3, <2>2, <3>1
        <4>3. Cardinality(Holders(r, s)) \in Nat
          BY HoldersCounted
        <4> QED
          BY <4>1, <4>2, <4>3
    <2>3. CASE ~(x = r /\ y = s)
      BY <1>3, <1>5, <2>3 DEF BaseInv, CountInv
    <2> QED
      BY <2>2, <2>3
  <1>7. RequestInv'
    <2> SUFFICES ASSUME NEW g \in Handles PROVE RequestInv!(g)'
      BY DEF RequestInv
    <2>1. CASE g = h
      BY <1>1, <1>3, <2>1 DEF BaseInv, TypeOK, RequestInv, ModifyShare
    <2>2. CASE g # h
      <3>1. bound[g] # None => Home[g] \in Routers /\ bound[g] \in Routers
        BY RouterSyncAssumption DEF BaseInv, TypeOK
      <3> QED
        BY <1>1, <1>3, <2>2, <3>1 DEF BaseInv, TypeOK, RequestInv, ModifyShare
    <2> QED
      BY <2>1, <2>2
  <1>8. MessageInv'
    BY DEF BaseInv, MessageInv, ModifyShare
  <1> QED
    BY <1>4, <1>6, <1>7, <1>8 DEF BaseInv

\* If no connection, binding or departure changes, the counts stay right.
LEMMA SameCounts ==
  ASSUME BaseInv, UNCHANGED bound,
         \A x, y \in Routers :
           conn'[x][y].refs = conn[x][y].refs /\ conn'[x][y].qpn = conn[x][y].qpn
           /\ (conn[x][y] = NoConn => conn'[x][y] = NoConn),
         \A g \in Handles : pc[g] = "delete" <=> pc'[g] = "delete"
  PROVE  CountInv'
  <1>1. \A x, y \in Routers : Holders(x, y)' = Holders(x, y)
    BY DEF Holders
  <1> QED
    BY <1>1 DEF BaseInv, CountInv

\* The INSERT carries the number of the connection.
LEMMA ModifyTellBase ==
  ASSUME BaseInv, NEW h \in Handles, ModifyTell(h)
  PROVE  BaseInv'
  <1>1. /\ pc[h] = "tell" /\ pc' = [pc EXCEPT ![h] = "wait"]
        /\ Home[h] \in Routers /\ bound[h] \in Routers
        /\ phy[h] = conn[Home[h]][bound[h]].qpn /\ phy[h] \in QpNums
    BY HeldIsThere DEF ModifyTell, BaseInv, RequestInv
  <1>2. Insert(h) \in Message /\ Insert(h).op = "INSERT" /\ Insert(h).qpn # None
    BY <1>1, RouterSyncAssumption DEF Insert, Message
  <1>3. /\ Bag!IsABag(inflight')
        /\ Bag!BagToSet(inflight') = Bag!BagToSet(inflight) \cup {Insert(h)}
    BY BagAdded DEF BaseInv, TypeOK, ModifyTell
  <1>4. TypeOK'
    BY <1>1, <1>2, <1>3 DEF BaseInv, TypeOK, ModifyTell
  <1>5. RequestInv'
    BY <1>1 DEF BaseInv, TypeOK, RequestInv, ModifyTell
  <1>6. CountInv'
    BY <1>1, SameCounts DEF BaseInv, TypeOK, ModifyTell
  <1>7. MessageInv'
    BY <1>2, <1>3 DEF BaseInv, MessageInv
  <1> QED
    BY <1>4, <1>5, <1>6, <1>7 DEF BaseInv

\* A request that could not tell is over, and its virtual QP is still counted.
LEMMA ModifyTellFailsBase ==
  ASSUME BaseInv, NEW h \in Handles, ModifyTellFails(h)
  PROVE  BaseInv'
  <1>1. /\ pc[h] = "tell" /\ pc' = [pc EXCEPT ![h] = "idle"]
        /\ phy' = [phy EXCEPT ![h] = None] /\ h \notin up
    BY DEF ModifyTellFails, BaseInv, RequestInv
  <1>2. TypeOK'
    BY <1>1 DEF BaseInv, TypeOK, ModifyTellFails
  <1>3. RequestInv'
    BY <1>1 DEF BaseInv, TypeOK, RequestInv, ModifyTellFails
  <1>4. CountInv'
    BY <1>1, SameCounts DEF BaseInv, TypeOK, ModifyTellFails
  <1>5. MessageInv'
    BY DEF BaseInv, MessageInv, ModifyTellFails
  <1> QED
    BY <1>2, <1>3, <1>4, <1>5 DEF BaseInv

\* The number that was read is one.
LEMMA ModifyWaitBase ==
  ASSUME BaseInv, NEW h \in Handles, ModifyWait(h)
  PROVE  BaseInv'
  <1>1. /\ pc[h] = "wait" /\ pc' = [pc EXCEPT ![h] = "ready"]
        /\ Home[h] \in Routers /\ bound[h] \in Routers
        /\ dst_qp_map[Home[h]][bound[h]] # None
        /\ seen' = [seen EXCEPT ![h] = dst_qp_map[Home[h]][bound[h]]]
    BY HeldIsThere DEF ModifyWait, BaseInv, RequestInv
  <1>2. TypeOK'
    BY <1>1 DEF BaseInv, TypeOK, ModifyWait
  <1>3. RequestInv'
    BY <1>1 DEF BaseInv, TypeOK, RequestInv, ModifyWait
  <1>4. CountInv'
    BY <1>1, SameCounts DEF BaseInv, TypeOK, ModifyWait
  <1>5. MessageInv'
    BY DEF BaseInv, MessageInv, ModifyWait
  <1> QED
    BY <1>2, <1>3, <1>4, <1>5 DEF BaseInv

\* The connection that the client is told of is connected.
LEMMA ModifyReadyBase ==
  ASSUME BaseInv, NEW h \in Handles, ModifyReady(h)
  PROVE  BaseInv'
  <1> DEFINE r == Home[h]
             s == bound[h]
  <1>1. /\ pc[h] = "ready" /\ pc' = [pc EXCEPT ![h] = "idle"]
        /\ r \in Routers /\ s \in Routers /\ s # None
        /\ conn[r][s] \in Conn /\ conn[r][s] # NoConn /\ seen[h] \in QpNums
    BY HeldIsThere, RouterSyncAssumption DEF ModifyReady, BaseInv, RequestInv, TypeOK
  <1>2. Connected(h) \in QpNums /\ Connected(h) # None
    BY <1>1, RouterSyncAssumption DEF Connected, Conn
  <1>3. /\ conn' = [conn EXCEPT ![r][s] = [conn[r][s] EXCEPT !.dest = Connected(h)]]
        /\ [conn[r][s] EXCEPT !.dest = Connected(h)] \in Conn
    BY <1>1, <1>2 DEF ModifyReady, Conn
  <1>4. \A x, y \in Routers :
          /\ conn'[x][y].refs = conn[x][y].refs /\ conn'[x][y].qpn = conn[x][y].qpn
          /\ x = r /\ y = s => conn'[x][y].dest = Connected(h)
          /\ x # r \/ y # s => conn'[x][y] = conn[x][y]
    BY <1>1, <1>3 DEF BaseInv, TypeOK, Conn
  <1>5. TypeOK'
    BY <1>1, <1>3 DEF BaseInv, TypeOK, ModifyReady
  <1>6. RequestInv'
    <2> SUFFICES ASSUME NEW g \in Handles PROVE RequestInv!(g)'
      BY DEF RequestInv
    <2>1. CASE g = h
      BY <1>1, <1>2, <1>4, <2>1 DEF BaseInv, TypeOK, RequestInv, ModifyReady
    <2>2. CASE g # h
      <3>1. bound[g] # None => Home[g] \in Routers /\ bound[g] \in Routers
        BY RouterSyncAssumption DEF BaseInv, TypeOK
      <3>2. bound'[g] = bound[g] /\ pc'[g] = pc[g] /\ phy'[g] = phy[g]
            /\ seen'[g] = seen[g] /\ (g \in up' <=> g \in up)
        BY <1>1, <2>2 DEF BaseInv, TypeOK, ModifyReady
      <3> QED
        BY <1>2, <1>4, <3>1, <3>2 DEF BaseInv, RequestInv
    <2> QED
      BY <2>1, <2>2
  <1>7. CountInv'
    BY <1>1, <1>4, SameCounts DEF BaseInv, TypeOK, ModifyReady
  <1>8. MessageInv'
    BY DEF BaseInv, MessageInv, ModifyReady
  <1> QED
    BY <1>5, <1>6, <1>7, <1>8 DEF BaseInv

\* So is one whose QP could not be connected.
LEMMA ModifyNotReadyBase ==
  ASSUME BaseInv, NEW h \in Handles, ModifyNotReady(h)
  PROVE  BaseInv'
  <1>1. /\ pc[h] = "ready" /\ pc' = [pc EXCEPT ![h] = "idle"]
        /\ phy' = [phy EXCEPT ![h] = None] /\ seen' = [seen EXCEPT ![h] = None]
        /\ h \notin up
    BY DEF ModifyNotReady, BaseInv, RequestInv
  <1>2. TypeOK'
    BY <1>1 DEF BaseInv, TypeOK, ModifyNotReady
  <1>3. RequestInv'
    BY <1>1 DEF BaseInv, TypeOK, RequestInv, ModifyNotReady
  <1>4. CountInv'
    BY <1>1, SameCounts DEF BaseInv, TypeOK, ModifyNotReady
  <1>5. MessageInv'
    BY DEF BaseInv, MessageInv, ModifyNotReady
  <1> QED
    BY <1>2, <1>3, <1>4, <1>5 DEF BaseInv

\* One holder less, and some are left.
LEMMA DestroyOneBase ==
  ASSUME BaseInv, NEW h \in Handles, DestroyOne(h)
  PROVE  BaseInv'
  <1> DEFINE r == Home[h]
  <1>0. PICK s \in Routers : s = bound[h]
    BY HeldIsThere DEF DestroyOne
  <1>1. /\ r \in Routers /\ s = bound[h] /\ s # None /\ pc[h] = "idle" /\ pc' = pc
        /\ conn[r][s] # NoConn /\ h \in Holders(r, s)
        /\ conn[r][s].refs = Cardinality(Holders(r, s))
        /\ bound' = [bound EXCEPT ![h] = None] /\ up' = up \ {h}
    BY <1>0, HeldIsThere, RouterSyncAssumption DEF DestroyOne
  <1>2. conn[r][s] \in Conn /\ conn[r][s].refs - 1 \in Nat \ {0}
    <2>1. conn[r][s] \in Conn
      BY <1>1 DEF BaseInv, TypeOK
    <2>2. ~(conn[r][s].refs - 1 <= 0)
      BY <1>1 DEF DestroyOne, LastRef
    <2> QED
      BY <2>1, <2>2 DEF Conn
  <1>3. /\ conn' = [conn EXCEPT ![r][s] = [conn[r][s] EXCEPT !.refs = @ - 1]]
        /\ [conn[r][s] EXCEPT !.refs = @ - 1] \in Conn
    BY <1>1, <1>2 DEF DestroyOne, Conn
  <1>4. \A x, y \in Routers :
          /\ conn'[x][y].refs = IF x = r /\ y = s THEN conn[r][s].refs - 1 ELSE conn[x][y].refs
          /\ conn'[x][y].qpn = conn[x][y].qpn /\ conn'[x][y].dest = conn[x][y].dest
          /\ x # r \/ y # s => conn'[x][y] = conn[x][y]
    BY <1>1, <1>2, <1>3 DEF BaseInv, TypeOK, Conn
  <1>5. TypeOK'
    BY <1>1, <1>3 DEF BaseInv, TypeOK, DestroyOne
  <1>6. /\ Holders(r, s)' = Holders(r, s) \ {h}
        /\ \A x, y \in Routers : x # r \/ y # s => Holders(x, y)' = Holders(x, y)
    <2>1. \A g \in Handles : IF g = h THEN bound'[g] = None ELSE bound'[g] = bound[g]
      BY <1>1 DEF BaseInv, TypeOK
    <2>2. \A x, y \in Routers : x # r \/ y # s => Holders(x, y)' = Holders(x, y)
      BY <1>1, <2>1, RouterSyncAssumption DEF Holders
    <2>3. Holders(r, s)' = Holders(r, s) \ {h}
      BY <1>1, <2>1 DEF Holders
    <2> QED
      BY <2>2, <2>3
  <1>7. CountInv'
    <2> SUFFICES ASSUME NEW x \in Routers, NEW y \in Routers PROVE CountInv!(x, y)'
      BY DEF CountInv
    <2>1. CASE x = r /\ y = s
      <3>1. Cardinality(Holders(r, s) \ {h}) = Cardinality(Holders(r, s)) - 1
        BY <1>1, HolderRemoved
      <3>2. conn[r][s].qpn # None
        BY <1>1 DEF BaseInv, CountInv
      <3> QED
        <4>1. Cardinality(Holders(x, y)') = Cardinality(Holders(r, s)) - 1
          BY <1>6, <2>1, <3>1
        <4>2. /\ conn'[x][y].refs = Cardinality(Holders(r, s)) - 1
              /\ conn'[x][y].refs \in Nat \ {0} /\ conn'[x][y].qpn # None
          <5>1. /\ conn'[x][y].refs = conn[r][s].refs - 1
                /\ conn'[x][y].qpn = conn[r][s].qpn
            BY <1>1, <1>4, <2>1
          <5> QED
            BY <1>1, <1>2, <3>2, <5>1
        <4> QED
          BY <4>1, <4>2
    <2>2. CASE ~(x = r /\ y = s)
      BY <1>4, <1>6, <2>2 DEF BaseInv, CountInv
    <2> QED
      BY <2>1, <2>2
  <1>8. RequestInv'
    <2> SUFFICES ASSUME NEW g \in Handles PROVE RequestInv!(g)'
      BY DEF RequestInv
    <2>1. CASE g = h
      BY <1>1, <2>1 DEF BaseInv, TypeOK, RequestInv, DestroyOne
    <2>2. CASE g # h
      <3>1. bound[g] # None => Home[g] \in Routers /\ bound[g] \in Routers
        BY RouterSyncAssumption DEF BaseInv, TypeOK
      <3>2. /\ bound'[g] = bound[g] /\ pc'[g] = pc[g] /\ phy'[g] = phy[g]
            /\ seen'[g] = seen[g] /\ (g \in up' <=> g \in up)
        BY <1>1, <2>2 DEF BaseInv, TypeOK, DestroyOne
      <3> QED
        BY <1>4, <3>1, <3>2 DEF BaseInv, RequestInv
    <2> QED
      BY <2>1, <2>2
  <1>9. MessageInv'
    BY DEF BaseInv, MessageInv, DestroyOne
  <1> QED
    BY <1>5, <1>7, <1>8, <1>9 DEF BaseInv

\* The holder that drops the last reference is the only one.
LEMMA LastHolder ==
  ASSUME BaseInv, NEW h \in Handles, DestroyLast(h)
  PROVE  /\ Home[h] \in Routers /\ bound[h] \in Routers /\ bound[h] # None
         /\ conn[Home[h]][bound[h]] # NoConn
         /\ Holders(Home[h], bound[h]) = {h}
  <1>1. /\ h \in Holders(Home[h], bound[h]) /\ bound[h] # None
        /\ conn[Home[h]][bound[h]] # NoConn
        /\ Home[h] \in Routers /\ bound[h] \in Routers
        /\ conn[Home[h]][bound[h]].refs = Cardinality(Holders(Home[h], bound[h]))
    BY HeldIsThere DEF DestroyLast
  <1>2. Cardinality(Holders(Home[h], bound[h])) - 1 <= 0
    BY <1>1 DEF DestroyLast, LastRef
  <1> QED
    BY <1>1, <1>2, HolderRemoved

\* The connection goes with its last holder.
LEMMA DestroyLastBase ==
  ASSUME BaseInv, NEW h \in Handles, DestroyLast(h)
  PROVE  BaseInv'
  <1> DEFINE r == Home[h]
             s == bound[h]
  <1>1. /\ r \in Routers /\ s \in Routers /\ s # None /\ Holders(r, s) = {h}
        /\ pc[h] = "idle" /\ pc' = [pc EXCEPT ![h] = "delete"]
        /\ conn' = [conn EXCEPT ![r][s] = NoConn] /\ up' = up \ {h} /\ bound' = bound
    BY LastHolder DEF DestroyLast
  <1>2. \A x, y \in Routers : conn'[x][y] = IF x = r /\ y = s THEN NoConn ELSE conn[x][y]
    BY <1>1 DEF BaseInv, TypeOK
  <1>3. NoConn \in Conn /\ NoConn.refs = 0
    BY DEF Conn, NoConn
  <1>4. TypeOK'
    BY <1>1, <1>3 DEF BaseInv, TypeOK, DestroyLast
  <1>5. /\ Holders(r, s)' = {}
        /\ \A x, y \in Routers : x # r \/ y # s => Holders(x, y)' = Holders(x, y)
    <2>1. \A g \in Handles : /\ bound'[g] = bound[g]
                             /\ pc'[g] = IF g = h THEN "delete" ELSE pc[g]
      BY <1>1 DEF BaseInv, TypeOK, DestroyLast
    <2> QED
      BY <1>1, <2>1, RouterSyncAssumption DEF Holders
  <1>6. CountInv'
    <2> SUFFICES ASSUME NEW x \in Routers, NEW y \in Routers PROVE CountInv!(x, y)'
      BY DEF CountInv
    <2>1. CASE x = r /\ y = s
      <3>1. conn'[x][y] = NoConn /\ Cardinality({}) = 0
        BY <1>2, <2>1, FS_EmptySet
      <3>2. Holders(x, y)' = {}
        BY <1>1, <1>5, <2>1
      <3> QED
        BY <1>3, <3>1, <3>2
    <2>2. CASE ~(x = r /\ y = s)
      BY <1>2, <1>5, <2>2 DEF BaseInv, CountInv
    <2> QED
      BY <2>1, <2>2
  <1>7. RequestInv'
    <2> SUFFICES ASSUME NEW g \in Handles PROVE RequestInv!(g)'
      BY DEF RequestInv
    <2>1. CASE g = h
      BY <1>1, <2>1 DEF BaseInv, TypeOK, RequestInv, DestroyLast
    <2>2. CASE g # h
      <3>1. bound[g] # None => Home[g] \in Routers /\ bound[g] \in Routers
        BY RouterSyncAssumption DEF BaseInv, TypeOK
      <3>2. /\ bound'[g] = bound[g] /\ pc'[g] = pc[g] /\ phy'[g] = phy[g]
            /\ seen'[g] = seen[g] /\ (g \in up' <=> g \in up)
        BY <1>1, <2>2 DEF BaseInv, TypeOK, DestroyLast
      <3>3. pc[g] # "delete" => ~(Home[g] = r /\ bound[g] = s)
        BY <1>1, <2>2 DEF Holders
      <3> QED
        BY <1>2, <3>1, <3>2, <3>3 DEF BaseInv, RequestInv
    <2> QED
      BY <2>1, <2>2
  <1>8. MessageInv'
    BY DEF BaseInv, MessageInv, DestroyLast
  <1> QED
    BY <1>4, <1>6, <1>7, <1>8 DEF BaseInv

\* The virtual QP that leaves was not counted any more.
LEMMA DestroyTellBase ==
  ASSUME BaseInv, NEW h \in Handles, DestroyTell(h)
  PROVE  BaseInv'
  <1>1. /\ pc[h] = "delete" /\ pc' = [pc EXCEPT ![h] = "idle"]
        /\ bound' = [bound EXCEPT ![h] = None]
        /\ Home[h] \in Routers /\ bound[h] \in Routers /\ h \notin up
    BY RouterSyncAssumption DEF DestroyTell, BaseInv, RequestInv, TypeOK
  <1>2. Delete(h) \in Message /\ Delete(h).op = "DELETE"
    BY <1>1 DEF Delete, Message
  <1>3. /\ Bag!IsABag(inflight')
        /\ Bag!BagToSet(inflight') = Bag!BagToSet(inflight) \cup {Delete(h)}
    BY BagAdded DEF BaseInv, TypeOK, DestroyTell
  <1>4. TypeOK'
    BY <1>1, <1>2, <1>3 DEF BaseInv, TypeOK, DestroyTell
  <1>5. RequestInv'
    BY <1>1 DEF BaseInv, TypeOK, RequestInv, DestroyTell
  <1>6. \A x, y \in Routers : Holders(x, y)' = Holders(x, y)
    <2>1. \A g \in Handles : IF g = h THEN bound'[g] = None
                             ELSE bound'[g] = bound[g] /\ pc'[g] = pc[g]
      BY <1>1 DEF BaseInv, TypeOK
    <2> QED
      BY <1>1, <2>1, RouterSyncAssumption DEF Holders
  <1>7. CountInv'
    BY <1>6 DEF BaseInv, CountInv, DestroyTell
  <1>8. MessageInv'
    BY <1>2, <1>3 DEF BaseInv, MessageInv
  <1> QED
    BY <1>4, <1>5, <1>7, <1>8 DEF BaseInv

\* Nor is it if the peer cannot be told.
LEMMA DestroyTellFailsBase ==
  ASSUME BaseInv, NEW h \in Handles, DestroyTellFails(h)
  PROVE  BaseInv'
  <1>1. /\ pc[h] = "delete" /\ pc' = [pc EXCEPT ![h] = "idle"]
        /\ bound' = [bound EXCEPT ![h] = None]
        /\ Home[h] \in Routers /\ bound[h] \in Routers /\ h \notin up
    BY RouterSyncAssumption DEF DestroyTellFails, BaseInv, RequestInv, TypeOK
  <1>2. TypeOK'
    BY <1>1 DEF BaseInv, TypeOK, DestroyTellFails
  <1>3. RequestInv'
    BY <1>1 DEF BaseInv, TypeOK, RequestInv, DestroyTellFails
  <1>4. \A x, y \in Routers : Holders(x, y)' = Holders(x, y)
    <2>1. \A g \in Handles : IF g = h THEN bound'[g] = None
                             ELSE bound'[g] = bound[g] /\ pc'[g] = pc[g]
      BY <1>1 DEF BaseInv, TypeOK
    <2> QED
      BY <1>1, <2>1, RouterSyncAssumption DEF Holders
  <1>5. CountInv'
    BY <1>4 DEF BaseInv, CountInv, DestroyTellFails
  <1>6. MessageInv'
    BY DEF BaseInv, MessageInv, DestroyTellFails
  <1> QED
    BY <1>2, <1>3, <1>5, <1>6 DEF BaseInv

\* An entry becomes a number or none.
LEMMA DeliverBase ==
  ASSUME BaseInv, NEW m \in Bag!BagToSet(inflight), Deliver(m)
  PROVE  BaseInv'
  <1>1. m \in Message /\ EntryAfter(m) \in QpNums \cup {None}
    BY DEF BaseInv, TypeOK, Message, EntryAfter
  <1>2. Bag!IsABag(inflight') /\ Bag!BagToSet(inflight') \subseteq Bag!BagToSet(inflight)
    BY BagRemoved DEF BaseInv, TypeOK, Deliver
  <1>3. TypeOK'
    <2>1. disturbed' \subseteq Routers \X Routers
      BY <1>1 DEF BaseInv, TypeOK, Deliver, Message
    <2> QED
      BY <1>1, <1>2, <2>1 DEF BaseInv, TypeOK, Deliver, Message
  <1>4. RequestInv'
    BY DEF BaseInv, RequestInv, Deliver
  <1>5. CountInv'
    BY SameCounts DEF BaseInv, Deliver
  <1>6. MessageInv'
    BY <1>2 DEF BaseInv, MessageInv
  <1> QED
    BY <1>3, <1>4, <1>5, <1>6 DEF BaseInv

\* A message that is lost leaves the others.
LEMMA LoseBase ==
  ASSUME BaseInv, NEW m \in Bag!BagToSet(inflight), Lose(m)
  PROVE  BaseInv'
  <1>1. m \in Message
    BY DEF BaseInv, TypeOK
  <1>2. Bag!IsABag(inflight') /\ Bag!BagToSet(inflight') \subseteq Bag!BagToSet(inflight)
    BY BagRemoved DEF BaseInv, TypeOK, Lose
  <1>3. TypeOK'
    <2>1. disturbed' \subseteq Routers \X Routers
      BY <1>1 DEF BaseInv, TypeOK, Lose, Message
    <2> QED
      BY <1>2, <2>1 DEF BaseInv, TypeOK, Lose
  <1>4. RequestInv'
    BY DEF BaseInv, RequestInv, Lose
  <1>5. CountInv'
    BY SameCounts DEF BaseInv, Lose
  <1>6. MessageInv'
    BY <1>2 DEF BaseInv, MessageInv
  <1> QED
    BY <1>3, <1>4, <1>5, <1>6 DEF BaseInv

\* A step that changes nothing.
LEMMA StutterBase == BaseInv /\ UNCHANGED vars => BaseInv'
  <1> SUFFICES ASSUME BaseInv, UNCHANGED vars PROVE BaseInv'
    OBVIOUS
  <1>1. CountInv'
    BY SameCounts DEF vars
  <1> QED
    BY <1>1 DEF vars, BaseInv, TypeOK, RequestInv, MessageInv

\* Every step preserves it: one lemma per action.
LEMMA StepBase == BaseInv /\ [Next]_vars => BaseInv'
  <1> SUFFICES ASSUME BaseInv, [Next]_vars PROVE BaseInv'
    OBVIOUS
  <1>1. ASSUME NEW h \in Handles, Continue(h) PROVE BaseInv'
    BY <1>1, ModifyTellBase, ModifyTellFailsBase, ModifyWaitBase, ModifyReadyBase,
       ModifyNotReadyBase, DestroyTellBase, DestroyTellFailsBase DEF Continue
  <1>2. ASSUME NEW h \in Handles, Request(h) PROVE BaseInv'
    <2>1. Peers[Home[h]] \subseteq Routers
      BY RouterSyncAssumption
    <2> QED
      BY <1>2, <2>1, ModifyNewBase, ModifyShareBase, DestroyOneBase, DestroyLastBase
         DEF Request
  <1>3. ASSUME NEW m \in Bag!BagToSet(inflight), Deliver(m) \/ Lose(m) PROVE BaseInv'
    BY <1>3, DeliverBase, LoseBase
  <1> QED
    BY <1>1, <1>2, <1>3, StutterBase DEF Next

\* Types and counts are right in every reachable state, whatever the hosts do.
THEOREM BaseInvariance == Spec => []BaseInv
  BY InitBase, StepBase, PTL DEF Spec

\* The variables keep their types; in particular every message has an address.
THEOREM TypeCorrect == Spec => []TypeOK
  <1>1. BaseInv => TypeOK
    BY DEF BaseInv
  <1> QED
    BY <1>1, BaseInvariance, PTL

-----------------------------------------------------------------------------
(* Agreement of the pairs that are not disturbed.                           *)

\* A connection is there if it has a physical QP.
LEMMA Present ==
  BaseInv => \A r, s \in Routers : conn[r][s] # NoConn <=> conn[r][s].qpn # None
  BY DEF BaseInv, CountInv, NoConn

\* The same of the next state.
LEMMA PresentNext ==
  BaseInv' => \A r, s \in Routers : conn'[r][s] # NoConn <=> conn'[r][s].qpn # None
  <1>1. (BaseInv => \A r, s \in Routers : conn[r][s] # NoConn <=> conn[r][s].qpn # None)'
    BY Present, PTL
  <1> QED
    BY <1>1

\* A virtual QP with a peer is of two routers.
LEMMA Endpoints ==
  ASSUME BaseInv, NEW h \in Handles, HasTold(h) \/ pc[h] = "delete"
  PROVE  Home[h] \in Routers /\ bound[h] \in Routers /\ bound[h] # None
  BY RouterSyncAssumption DEF HasTold, BaseInv, RequestInv, TypeOK

\* A step that sends and applies nothing, makes and destroys no connection, and
\* gives nobody a number that was not in the map or in its hands.
LEMMA QuietAgreement ==
  ASSUME IInv, BaseInv', UNCHANGED <<dst_qp_map, inflight, disturbed>>,
         \A x, y \in Routers :
           /\ conn'[x][y].qpn = conn[x][y].qpn
           /\ conn'[y][x].qpn # None /\ <<y, x>> \notin disturbed =>
                conn'[x][y].dest \in {None, conn[x][y].dest, conn[y][x].qpn},
         \A g \in Handles :
           /\ bound'[g] # None /\ seen'[g] # None =>
                /\ bound'[g] = bound[g]
                /\ seen'[g] \in {seen[g], dst_qp_map[Home[g]][bound[g]]}
           /\ HasTold(g)' => bound'[g] = bound[g] /\ HasTold(g)
           /\ pc'[g] = "delete" <=> pc[g] = "delete"
           /\ pc[g] = "delete" => bound'[g] = bound[g]
  PROVE  Agreement'
  <1>0. /\ \A x, y \in Routers : conn[x][y] # NoConn <=> conn[x][y].qpn # None
        /\ \A x, y \in Routers : conn'[x][y] # NoConn <=> conn'[x][y].qpn # None
        /\ \A x, y \in Routers : conn'[x][y].qpn = conn[x][y].qpn
    BY Present, PresentNext DEF IInv
  <1>1. \A x, y \in Routers : conn'[x][y] # NoConn <=> conn[x][y] # NoConn
    BY <1>0
  <1>2. /\ \A x, y : InFlight(x, y)' = InFlight(x, y)
        /\ \A x, y : Told(x, y)' = Told(x, y)
    BY DEF InFlight, Told
  <1>3. RemembersCurrent'
    <2> SUFFICES ASSUME NEW x \in Routers, NEW y \in Routers,
                        conn'[y][x] # NoConn, <<y, x>> \notin disturbed
                 PROVE  /\ dst_qp_map'[x][y] \in {None, conn'[y][x].qpn}
                        /\ conn'[x][y].dest \in {None, conn'[y][x].qpn}
                        /\ \A h \in Handles : Home[h] = x /\ bound'[h] = y =>
                             seen'[h] \in {None, conn'[y][x].qpn}
      BY DEF RemembersCurrent
    <2>1. /\ conn[y][x] # NoConn /\ conn'[y][x].qpn # None
          /\ dst_qp_map[x][y] \in {None, conn[y][x].qpn}
          /\ conn[x][y].dest \in {None, conn[y][x].qpn}
          /\ \A h \in Handles : Home[h] = x /\ bound[h] = y =>
               seen[h] \in {None, conn[y][x].qpn}
      BY <1>0, <1>1 DEF IInv, Agreement, RemembersCurrent
    <2>2. conn'[y][x].qpn = conn[y][x].qpn /\ y # None
      BY <1>0, RouterSyncAssumption
    <2>3. dst_qp_map'[x][y] \in {None, conn'[y][x].qpn}
      BY <2>1, <2>2
    <2>4. conn'[x][y].dest \in {None, conn'[y][x].qpn}
      <3>1. conn'[x][y].dest \in {None, conn[x][y].dest, conn[y][x].qpn}
        BY <2>1
      <3> QED
        BY <2>1, <2>2, <3>1
    <2>5. ASSUME NEW g \in Handles, Home[g] = x, bound'[g] = y
          PROVE  seen'[g] \in {None, conn'[y][x].qpn}
      BY <2>1, <2>2, <2>5
    <2> QED
      BY <2>3, <2>4, <2>5
  <1>4. CurrentInv'
    BY <1>0, <1>1, <1>2 DEF IInv, Agreement, CurrentInv
  <1>5. ToldInv'
    <2> SUFFICES ASSUME NEW h \in Handles, HasTold(h)', <<Home[h], bound'[h]>> \notin disturbed
                 PROVE  Told(Home[h], bound[h])
      BY <1>2 DEF ToldInv
    <2> QED
      BY DEF IInv, Agreement, ToldInv
  <1>6. LeaveInv'
    <2>1. \A g \in Handles : pc[g] = "delete" => Home[g] \in Routers /\ bound[g] \in Routers
      BY Endpoints DEF IInv
    <2> QED
      BY <1>1, <2>1 DEF IInv, Agreement, LeaveInv
  <1>7. GoneInv'
    <2>1. \A x, y : Erased(x, y) => Erased(x, y)'
      BY <1>2 DEF Erased
    <2> QED
      BY <1>1, <2>1 DEF IInv, Agreement, GoneInv
  <1> QED
    BY <1>3, <1>4, <1>5, <1>6, <1>7 DEF Agreement

\* Taking a reference.
LEMMA ModifyShareAgreement ==
  ASSUME IInv, BaseInv', NEW h \in Handles, NEW s \in Routers, ModifyShare(h, s)
  PROVE  Agreement'
  <1>1. \A x, y \in Routers : conn'[x][y].qpn = conn[x][y].qpn /\ conn'[x][y].dest = conn[x][y].dest
    <2>1. /\ Home[h] \in Routers /\ conn[Home[h]][s] \in Conn
          /\ conn \in [Routers -> [Routers -> Conn]]
      BY RouterSyncAssumption DEF IInv, BaseInv, TypeOK
    <2>2. conn' = [conn EXCEPT ![Home[h]][s].refs = conn[Home[h]][s].refs + 1]
      BY DEF ModifyShare
    <2> QED
      BY <2>1, <2>2 DEF Conn
  <1>2. \A g \in Handles :
          IF g = h THEN pc'[g] = "tell" /\ pc[g] = "idle" /\ seen[g] = None /\ g \notin up
          ELSE bound'[g] = bound[g] /\ pc'[g] = pc[g]
    <2>1. /\ pc' = [pc EXCEPT ![h] = "tell"] /\ bound' = [bound EXCEPT ![h] = s]
          /\ pc[h] = "idle" /\ bound[h] = None
      BY DEF ModifyShare
    <2>2. DOMAIN pc = Handles /\ DOMAIN bound = Handles
      BY DEF IInv, BaseInv, TypeOK
    <2>3. seen[h] = None /\ h \notin up
      BY <2>1 DEF IInv, BaseInv, RequestInv
    <2> QED
      BY <2>1, <2>2, <2>3
  <1>3. \A g \in Handles : HasTold(g)' => g # h /\ HasTold(g)
    BY <1>2 DEF HasTold, ModifyShare
  <1> QED
    BY <1>1, <1>2, <1>3, QuietAgreement DEF ModifyShare

\* A request that could not tell, or that reads the map.
LEMMA ModifyWaitAgreement ==
  ASSUME IInv, BaseInv', NEW h \in Handles, ModifyTellFails(h) \/ ModifyWait(h)
  PROVE  Agreement'
  <1>1. CASE ModifyTellFails(h)
    <2>1. \A g \in Handles : IF g = h THEN pc'[g] = "idle" /\ pc[g] = "tell" /\ g \notin up
                             ELSE pc'[g] = pc[g]
      BY <1>1 DEF IInv, BaseInv, TypeOK, RequestInv, ModifyTellFails
    <2>2. \A g \in Handles : HasTold(g)' => HasTold(g)
      BY <1>1, <2>1 DEF HasTold, ModifyTellFails
    <2> QED
      BY <1>1, <2>1, <2>2, QuietAgreement DEF ModifyTellFails
  <1>2. CASE ModifyWait(h)
    <2>1. \A g \in Handles : IF g = h THEN pc'[g] = "ready" /\ pc[g] = "wait"
                                           /\ seen'[g] = dst_qp_map[Home[g]][bound[g]]
                             ELSE seen'[g] = seen[g] /\ pc'[g] = pc[g]
      BY <1>2 DEF IInv, BaseInv, TypeOK, ModifyWait
    <2>2. \A g \in Handles : HasTold(g)' => HasTold(g)
      BY <1>2, <2>1 DEF HasTold, ModifyWait
    <2> QED
      BY <1>2, <2>1, <2>2, QuietAgreement DEF ModifyWait
  <1> QED
    BY <1>1, <1>2

\* Connecting, or failing to.
LEMMA ModifyReadyAgreement ==
  ASSUME IInv, BaseInv', NEW h \in Handles, ModifyReady(h) \/ ModifyNotReady(h)
  PROVE  Agreement'
  <1>1. \A g \in Handles : IF g = h THEN seen'[g] = None /\ pc'[g] = "idle" /\ pc[g] = "ready"
                           ELSE seen'[g] = seen[g] /\ pc'[g] = pc[g]
    BY DEF IInv, BaseInv, TypeOK, ModifyReady, ModifyNotReady
  <1>2. \A g \in Handles : HasTold(g)' => HasTold(g)
    BY <1>1 DEF HasTold, ModifyReady, ModifyNotReady
  <1>3. CASE ModifyNotReady(h)
    BY <1>1, <1>2, <1>3, QuietAgreement DEF ModifyNotReady
  <1>4. CASE ModifyReady(h)
    <2>1. PICK s \in Routers : s = bound[h]
      BY <1>4, HeldIsThere DEF ModifyReady, IInv, BaseInv, RequestInv
    <2>2. /\ Home[h] \in Routers /\ conn[Home[h]][s] \in Conn
          /\ conn' = [conn EXCEPT ![Home[h]][s] = [conn[Home[h]][s] EXCEPT !.dest = Connected(h)]]
      <3>1. Home[h] \in Routers /\ conn[Home[h]][s] \in Conn
        BY <2>1, RouterSyncAssumption DEF IInv, BaseInv, TypeOK
      <3> QED
        BY <1>4, <2>1, <3>1, HeldIsThere DEF ModifyReady, IInv, BaseInv, RequestInv
    <2>3. \A x, y \in Routers :
            /\ conn'[x][y].qpn = conn[x][y].qpn
            /\ conn'[x][y].dest = IF x = Home[h] /\ y = s THEN Connected(h) ELSE conn[x][y].dest
      BY <2>2 DEF IInv, BaseInv, TypeOK, Conn
    <2>4. conn[s][Home[h]].qpn # None /\ <<s, Home[h]>> \notin disturbed =>
            Connected(h) \in {None, conn[Home[h]][s].dest, conn[s][Home[h]].qpn}
      BY <2>1, <2>2, Present DEF Connected, IInv, Agreement, RemembersCurrent
    <2> QED
      BY <1>1, <1>2, <1>4, <2>3, <2>4, QuietAgreement DEF ModifyReady
  <1> QED
    BY <1>3, <1>4

\* Giving a reference back.
LEMMA DestroyOneAgreement ==
  ASSUME IInv, BaseInv', NEW h \in Handles, DestroyOne(h)
  PROVE  Agreement'
  <1>1. \A x, y \in Routers : conn'[x][y].qpn = conn[x][y].qpn /\ conn'[x][y].dest = conn[x][y].dest
    BY RouterSyncAssumption DEF IInv, BaseInv, TypeOK, Conn, DestroyOne
  <1>2. \A g \in Handles : bound'[g] = IF g = h THEN None ELSE bound[g]
    BY DEF IInv, BaseInv, TypeOK, DestroyOne
  <1>3. \A g \in Handles : HasTold(g)' => g # h /\ HasTold(g)
    BY DEF HasTold, DestroyOne
  <1> QED
    BY <1>1, <1>2, <1>3, QuietAgreement DEF DestroyOne

\* A new physical QP of a pair that is not disturbed by it finds nothing of the
\* last one at the peer, whose last DELETE has been applied.
LEMMA FreshStart ==
  ASSUME IInv, NEW h \in Handles, NEW s \in Routers, ModifyNew(h, s),
         <<Home[h], s>> \notin disturbed'
  PROVE  /\ ~Lingers(Home[h], s)
         /\ dst_qp_map[s][Home[h]] = None
  <1> DEFINE r == Home[h]
  <1>1. r \in Routers /\ conn[r][s] = NoConn /\ disturbed' = AfterRestart(r, s)
    BY RouterSyncAssumption DEF ModifyNew
  <1>2. ~Lingers(r, s)
    BY <1>1 DEF AfterRestart
  <1>3. ASSUME dst_qp_map[s][r] # None PROVE FALSE
    <2>1. <<r, s>> \notin disturbed
      BY <1>1, <1>2, <1>3 DEF AfterRestart
    <2>2. Erased(r, s)
      BY <1>1, <2>1 DEF IInv, Agreement, GoneInv
    <2> QED
      BY <1>2, <1>3, <2>2 DEF Erased, Lingers
  <1> QED
    BY <1>2, <1>3

\* So nothing names an earlier connection, and the new one has not been told.
LEMMA ModifyNewAgreement ==
  ASSUME IInv, BaseInv', NEW h \in Handles, NEW s \in Routers, ModifyNew(h, s)
  PROVE  Agreement'
  <1> DEFINE r == Home[h]
  <1>1. /\ r \in Routers /\ s # None /\ pc[h] = "idle" /\ bound[h] = None /\ seen[h] = None
        /\ h \notin up /\ conn[r][s] = NoConn /\ UNCHANGED <<seen, up, dst_qp_map, inflight>>
        /\ bound' = [bound EXCEPT ![h] = s] /\ pc' = [pc EXCEPT ![h] = "tell"]
    BY RouterSyncAssumption DEF ModifyNew, IInv, BaseInv, RequestInv
  <1>2. PICK q \in QpNums : conn' = [conn EXCEPT ![r][s] = Connection(q, 1)]
    BY DEF ModifyNew
  <1>3. \A x, y \in Routers : conn'[x][y] = IF x = r /\ y = s THEN Connection(q, 1) ELSE conn[x][y]
    BY <1>1, <1>2 DEF IInv, BaseInv, TypeOK
  <1>4. \A g \in Handles : /\ pc'[g] = IF g = h THEN "tell" ELSE pc[g]
                           /\ bound'[g] = IF g = h THEN s ELSE bound[g]
    BY <1>1 DEF IInv, BaseInv, TypeOK
  <1>5. /\ \A x, y : InFlight(x, y)' = InFlight(x, y)
        /\ \A x, y : Told(x, y)' = Told(x, y)
    BY <1>1 DEF InFlight, Told
  <1>6. \A x, y : ~(x = r /\ y = s) => (<<x, y>> \in disturbed' <=> <<x, y>> \in disturbed)
    BY DEF ModifyNew, AfterRestart
  <1>7. \A g \in Handles : HasTold(g)' => g # h /\ HasTold(g)
    BY <1>1, <1>4 DEF HasTold
  <1>8. RemembersCurrent'
    <2> SUFFICES ASSUME NEW x \in Routers, NEW y \in Routers,
                        conn'[y][x] # NoConn, <<y, x>> \notin disturbed'
                 PROVE  /\ dst_qp_map[x][y] \in {None, conn'[y][x].qpn}
                        /\ conn'[x][y].dest \in {None, conn'[y][x].qpn}
                        /\ \A g \in Handles : Home[g] = x /\ bound'[g] = y =>
                             seen[g] \in {None, conn'[y][x].qpn}
      BY <1>1 DEF RemembersCurrent
    <2>1. conn'[x][y].dest \in {None, conn[x][y].dest}
      BY <1>3 DEF Connection
    <2>2. CASE y = r /\ x = s
      <3>1. dst_qp_map[x][y] = None /\ ~Lingers(y, x)
        BY <2>2, FreshStart
      <3>2. conn[x][y].dest = None
        BY <3>1 DEF Lingers
      <3>3. \A g \in Handles : Home[g] = x /\ bound'[g] = y => seen[g] = None
        <4> SUFFICES ASSUME NEW g \in Handles, Home[g] = x, bound'[g] = y, g # h
                     PROVE  seen[g] = None
          BY <1>1
        <4>1. pc[g] # "ready"
          BY <1>4, <3>1 DEF Lingers
        <4> QED
          BY <4>1 DEF IInv, BaseInv, RequestInv
      <3> QED
        BY <2>1, <3>1, <3>2, <3>3
    <2>3. CASE ~(y = r /\ x = s)
      <3>1. /\ conn'[y][x] = conn[y][x]
            /\ dst_qp_map[x][y] \in {None, conn[y][x].qpn}
            /\ conn[x][y].dest \in {None, conn[y][x].qpn}
            /\ \A g \in Handles : Home[g] = x /\ bound[g] = y =>
                 seen[g] \in {None, conn[y][x].qpn}
        BY <1>3, <1>6, <2>3 DEF IInv, Agreement, RemembersCurrent
      <3> QED
        BY <1>1, <1>4, <2>1, <3>1
    <2> QED
      BY <2>2, <2>3
  <1>9. CurrentInv'
    <2> SUFFICES ASSUME NEW x \in Routers, NEW y \in Routers,
                        conn'[x][y] # NoConn, <<x, y>> \notin disturbed'
                 PROVE  \A m \in InFlight(x, y) : m.op = "INSERT" /\ m.qpn = conn'[x][y].qpn
      BY <1>5 DEF CurrentInv
    <2>1. CASE x = r /\ y = s
      BY <2>1, FreshStart DEF Lingers
    <2>2. CASE ~(x = r /\ y = s)
      BY <1>3, <1>6, <2>2 DEF IInv, Agreement, CurrentInv
    <2> QED
      BY <2>1, <2>2
  <1>10. ToldInv'
    <2> SUFFICES ASSUME NEW g \in Handles, HasTold(g)', <<Home[g], bound'[g]>> \notin disturbed'
                 PROVE  Told(Home[g], bound'[g])
      BY <1>5 DEF ToldInv
    <2>1. HasTold(g) /\ bound'[g] = bound[g]
      BY <1>4, <1>7
    <2>2. CASE Home[g] = r /\ bound[g] = s
      <3>1. conn[r][s] # NoConn
        BY <2>1, <2>2, HeldIsThere DEF HasTold, IInv, BaseInv, RequestInv
      <3> QED
        BY <1>1, <3>1
    <2>3. CASE ~(Home[g] = r /\ bound[g] = s)
      BY <1>6, <2>1, <2>3 DEF IInv, Agreement, ToldInv
    <2> QED
      BY <2>2, <2>3
  <1>11. LeaveInv'
    <2> SUFFICES ASSUME NEW g \in Handles, pc'[g] = "delete", <<Home[g], bound'[g]>> \notin disturbed'
                 PROVE  conn'[Home[g]][bound'[g]] = NoConn
      BY DEF LeaveInv
    <2>1. /\ pc[g] = "delete" /\ bound'[g] = bound[g]
          /\ Home[g] \in Routers /\ bound[g] \in Routers
      BY <1>4, Endpoints DEF IInv
    <2>2. ~(Home[g] = r /\ bound[g] = s)
      BY <2>1, FreshStart DEF Lingers
    <2> QED
      BY <1>3, <1>6, <2>1, <2>2 DEF IInv, Agreement, LeaveInv
  <1>12. GoneInv'
    <2> SUFFICES ASSUME NEW x \in Routers, NEW y \in Routers,
                        conn'[x][y] = NoConn, <<x, y>> \notin disturbed'
                 PROVE  Erased(x, y)'
      BY DEF GoneInv
    <2>1. ~(x = r /\ y = s)
      <3>1. Connection(q, 1).refs # NoConn.refs
        BY DEF Connection, NoConn
      <3> QED
        BY <1>3, <3>1
    <2>2. Erased(x, y)
      BY <1>3, <1>6, <2>1 DEF IInv, Agreement, GoneInv
    <2>3. \A g \in Handles : pc[g] = "delete" => pc'[g] = "delete" /\ bound'[g] = bound[g]
      BY <1>1, <1>4
    <2> QED
      BY <1>1, <1>5, <2>2, <2>3 DEF Erased
  <1> QED
    BY <1>8, <1>9, <1>10, <1>11, <1>12 DEF Agreement

\* The INSERT names the connection that is there.
LEMMA ModifyTellAgreement ==
  ASSUME IInv, BaseInv', NEW h \in Handles, ModifyTell(h)
  PROVE  Agreement'
  <1> DEFINE r == Home[h]
  <1>1. PICK s \in Routers : s = bound[h]
    BY HeldIsThere DEF ModifyTell, IInv, BaseInv, RequestInv
  <1>2. /\ r \in Routers /\ pc[h] = "tell" /\ conn[r][s] # NoConn
        /\ Insert(h) = [op |-> "INSERT", from |-> r, to |-> s, qpn |-> conn[r][s].qpn]
        /\ pc' = [pc EXCEPT ![h] = "wait"]
        /\ UNCHANGED <<bound, seen, up, conn, dst_qp_map, disturbed>>
    BY <1>1, HeldIsThere DEF ModifyTell, Insert, IInv, BaseInv, RequestInv
  <1>3. Bag!BagToSet(inflight') = Bag!BagToSet(inflight) \cup {Insert(h)}
    BY BagAdded DEF IInv, BaseInv, TypeOK, ModifyTell
  <1>4. /\ \A x, y : x # r \/ y # s => InFlight(x, y)' = InFlight(x, y)
        /\ InFlight(r, s)' = InFlight(r, s) \cup {Insert(h)}
    BY <1>2, <1>3 DEF InFlight
  <1>5. \A g \in Handles : pc'[g] = IF g = h THEN "wait" ELSE pc[g]
    BY <1>2 DEF IInv, BaseInv, TypeOK
  <1>6. RemembersCurrent'
    BY <1>2 DEF IInv, Agreement, RemembersCurrent
  <1>7. CurrentInv'
    BY <1>2, <1>4 DEF IInv, Agreement, CurrentInv
  <1>8. ToldInv'
    <2>1. \A x, y : Told(x, y) => Told(x, y)'
      BY <1>2, <1>3 DEF Told, InFlight
    <2>2. Told(r, s)'
      BY <1>2, <1>4 DEF Told
    <2>3. \A g \in Handles : g # h /\ HasTold(g)' => HasTold(g)
      BY <1>2, <1>5 DEF HasTold
    <2> QED
      BY <1>1, <1>2, <2>1, <2>2, <2>3 DEF IInv, Agreement, ToldInv
  <1>9. LeaveInv'
    BY <1>2, <1>5 DEF IInv, Agreement, LeaveInv
  <1>10. GoneInv'
    <2>1. \A x, y : ~(x = r /\ y = s) /\ Erased(x, y) => Erased(x, y)'
      BY <1>2, <1>4, <1>5 DEF Erased
    <2> QED
      BY <1>2, <2>1 DEF IInv, Agreement, GoneInv
  <1> QED
    BY <1>6, <1>7, <1>8, <1>9, <1>10 DEF Agreement

\* The connection goes, and its DELETE is to be sent.
LEMMA DestroyLastAgreement ==
  ASSUME IInv, BaseInv', NEW h \in Handles, DestroyLast(h)
  PROVE  Agreement'
  <1> DEFINE r == Home[h]
             s == bound[h]
  <1>1. /\ r \in Routers /\ s \in Routers /\ conn[r][s] # NoConn /\ pc[h] = "idle"
        /\ pc' = [pc EXCEPT ![h] = "delete"] /\ conn' = [conn EXCEPT ![r][s] = NoConn]
        /\ bound' = bound /\ up' = up \ {h}
        /\ UNCHANGED <<seen, dst_qp_map, inflight, disturbed>>
    BY LastHolder DEF DestroyLast, IInv
  <1>2. \A x, y \in Routers : conn'[x][y] = IF x = r /\ y = s THEN NoConn ELSE conn[x][y]
    BY <1>1 DEF IInv, BaseInv, TypeOK
  <1>3. \A g \in Handles : pc'[g] = IF g = h THEN "delete" ELSE pc[g]
    BY <1>1 DEF IInv, BaseInv, TypeOK
  <1>4. /\ \A x, y : InFlight(x, y)' = InFlight(x, y)
        /\ \A x, y : Told(x, y)' = Told(x, y)
    BY <1>1 DEF InFlight, Told
  <1>5. \A x, y \in Routers : conn'[x][y] # NoConn => conn'[x][y] = conn[x][y]
    BY <1>2
  <1>6. \A x, y \in Routers : conn'[x][y].dest \in {None, conn[x][y].dest}
    BY <1>2 DEF NoConn
  <1>7. RemembersCurrent'
    <2> SUFFICES ASSUME NEW x \in Routers, NEW y \in Routers,
                        conn'[y][x] # NoConn, <<y, x>> \notin disturbed
                 PROVE  /\ dst_qp_map[x][y] \in {None, conn'[y][x].qpn}
                        /\ conn'[x][y].dest \in {None, conn'[y][x].qpn}
                        /\ \A g \in Handles : Home[g] = x /\ bound[g] = y =>
                             seen[g] \in {None, conn'[y][x].qpn}
      BY <1>1 DEF RemembersCurrent
    <2> QED
      BY <1>5, <1>6 DEF IInv, Agreement, RemembersCurrent
  <1>8. CurrentInv'
    BY <1>1, <1>4, <1>5 DEF IInv, Agreement, CurrentInv
  <1>9. ToldInv'
    <2>1. \A g \in Handles : HasTold(g)' => HasTold(g)
      BY <1>1, <1>3 DEF HasTold
    <2> QED
      BY <1>1, <1>4, <2>1 DEF IInv, Agreement, ToldInv
  <1>10. LeaveInv'
    <2> SUFFICES ASSUME NEW g \in Handles, pc'[g] = "delete", <<Home[g], bound[g]>> \notin disturbed
                 PROVE  conn'[Home[g]][bound[g]] = NoConn
      BY <1>1 DEF LeaveInv
    <2>1. CASE g = h
      BY <1>1, <1>2, <2>1
    <2>2. CASE g # h
      BY <1>2, <1>3, <2>2, Endpoints DEF IInv, Agreement, LeaveInv
    <2> QED
      BY <2>1, <2>2
  <1>11. GoneInv'
    <2>1. Erased(r, s)'
      BY <1>1, <1>3 DEF Erased
    <2>2. \A x, y : Erased(x, y) => Erased(x, y)'
      BY <1>1, <1>3, <1>4 DEF Erased
    <2> QED
      BY <1>1, <1>2, <2>1, <2>2 DEF IInv, Agreement, GoneInv
  <1> QED
    BY <1>7, <1>8, <1>9, <1>10, <1>11 DEF Agreement

\* The DELETE is of a connection that nobody holds, or the pair is disturbed.
LEMMA DestroyTellAgreement ==
  ASSUME IInv, BaseInv', NEW h \in Handles, DestroyTell(h)
  PROVE  Agreement'
  <1> DEFINE r == Home[h]
  <1>1. PICK s \in Routers : s = bound[h]
    BY Endpoints DEF DestroyTell, IInv
  <1>2. /\ r \in Routers /\ pc[h] = "delete"
        /\ Delete(h) = [op |-> "DELETE", from |-> r, to |-> s, qpn |-> None]
        /\ pc' = [pc EXCEPT ![h] = "idle"] /\ bound' = [bound EXCEPT ![h] = None]
        /\ UNCHANGED <<seen, up, conn, dst_qp_map, disturbed>>
    BY <1>1, RouterSyncAssumption DEF DestroyTell, Delete
  <1>3. Bag!BagToSet(inflight') = Bag!BagToSet(inflight) \cup {Delete(h)}
    BY BagAdded DEF IInv, BaseInv, TypeOK, DestroyTell
  <1>4. /\ \A x, y : x # r \/ y # s => InFlight(x, y)' = InFlight(x, y)
        /\ Delete(h) \in InFlight(r, s)'
    BY <1>2, <1>3 DEF InFlight
  <1>5. \A g \in Handles : IF g = h THEN bound'[g] = None /\ pc'[g] = "idle"
                           ELSE bound'[g] = bound[g] /\ pc'[g] = pc[g]
    BY <1>2 DEF IInv, BaseInv, TypeOK
  <1>6. \A g \in Handles : HasTold(g)' => g # h /\ HasTold(g)
    <2>1. h \notin up
      BY <1>2 DEF IInv, BaseInv, RequestInv
    <2> QED
      BY <1>2, <1>5, <2>1 DEF HasTold
  <1>7. RemembersCurrent'
    <2>1. \A x, y \in Routers, g \in Handles : Home[g] = x /\ bound'[g] = y => bound[g] = y
      BY <1>5, RouterSyncAssumption
    <2> QED
      BY <1>2, <2>1 DEF IInv, Agreement, RemembersCurrent
  <1>8. CurrentInv'
    <2>1. <<r, s>> \notin disturbed => conn[r][s] = NoConn
      BY <1>1, <1>2 DEF IInv, Agreement, LeaveInv
    <2> QED
      BY <1>2, <1>4, <2>1 DEF IInv, Agreement, CurrentInv
  <1>9. ToldInv'
    <2>1. \A x, y : Told(x, y) => Told(x, y)'
      BY <1>2, <1>3 DEF Told, InFlight
    <2> QED
      BY <1>2, <1>5, <1>6, <2>1 DEF IInv, Agreement, ToldInv
  <1>10. LeaveInv'
    BY <1>2, <1>5 DEF IInv, Agreement, LeaveInv
  <1>11. GoneInv'
    <2>1. Erased(r, s)'
      BY <1>2, <1>4 DEF Erased
    <2>2. \A x, y : ~(x = r /\ y = s) /\ Erased(x, y) => Erased(x, y)'
      BY <1>1, <1>2, <1>4, <1>5 DEF Erased
    <2> QED
      BY <1>2, <2>1, <2>2 DEF IInv, Agreement, GoneInv
  <1> QED
    BY <1>7, <1>8, <1>9, <1>10, <1>11 DEF Agreement

\* One pair becomes disturbed, and nothing else of what the others know changes.
LEMMA DisturbedAgreement ==
  ASSUME IInv, NEW r, NEW s,
         UNCHANGED <<seen, up, conn, dst_qp_map>>,
         disturbed' = disturbed \cup {<<r, s>>},
         \A x, y : ~(x = r /\ y = s) => InFlight(x, y)' = InFlight(x, y),
         \A g \in Handles :
           \/ bound'[g] = bound[g] /\ pc'[g] = pc[g]
           \/ Home[g] = r /\ bound[g] = s /\ bound'[g] = None /\ pc'[g] = "idle" /\ g \notin up
  PROVE  Agreement'
  <1>1. \A x, y : /\ <<x, y>> \notin disturbed' => <<x, y>> \notin disturbed /\ ~(x = r /\ y = s)
                  /\ ~(x = r /\ y = s) => Told(x, y)' = Told(x, y)
    BY DEF Told
  <1>2. RemembersCurrent'
    <2>1. \A y \in Routers, g \in Handles : bound'[g] = y => bound[g] = y
      BY RouterSyncAssumption
    <2> QED
      BY <1>1, <2>1 DEF IInv, Agreement, RemembersCurrent
  <1>3. CurrentInv'
    BY <1>1 DEF IInv, Agreement, CurrentInv
  <1>4. ToldInv'
    <2>1. \A g \in Handles : HasTold(g)' => HasTold(g) /\ bound'[g] = bound[g]
      BY DEF HasTold
    <2> QED
      BY <1>1, <2>1 DEF IInv, Agreement, ToldInv
  <1>5. LeaveInv'
    BY <1>1 DEF IInv, Agreement, LeaveInv
  <1>6. GoneInv'
    <2>1. \A x, y : ~(x = r /\ y = s) /\ Erased(x, y) => Erased(x, y)'
      BY DEF Erased
    <2> QED
      BY <1>1, <2>1 DEF IInv, Agreement, GoneInv
  <1> QED
    BY <1>2, <1>3, <1>4, <1>5, <1>6 DEF Agreement

\* A DELETE that is not sent.
LEMMA DestroyTellFailsAgreement ==
  ASSUME IInv, NEW h \in Handles, DestroyTellFails(h)
  PROVE  Agreement'
  <1>1. \A x, y : InFlight(x, y)' = InFlight(x, y)
    BY DEF InFlight, DestroyTellFails
  <1>2. h \notin up
    BY DEF DestroyTellFails, IInv, BaseInv, RequestInv
  <1>3. \A g \in Handles : IF g = h THEN bound'[g] = None /\ pc'[g] = "idle"
                           ELSE bound'[g] = bound[g] /\ pc'[g] = pc[g]
    BY DEF IInv, BaseInv, TypeOK, DestroyTellFails
  <1> QED
    BY <1>1, <1>2, <1>3, DisturbedAgreement DEF DestroyTellFails

\* Where a message goes, and what is left.
LEMMA Removed ==
  ASSUME IInv, NEW m \in Bag!BagToSet(inflight), inflight' = BagRemove(inflight, m),
         Bag!BagIn(m, inflight)
  PROVE  /\ m \in Message /\ m.from \in Routers /\ m.to \in Routers
         /\ m \in InFlight(m.from, m.to)
         /\ \A x, y : InFlight(x, y)' \subseteq InFlight(x, y)
         /\ \A x, y : InFlight(x, y) \ {m} \subseteq InFlight(x, y)'
         /\ \A x, y : ~(x = m.from /\ y = m.to) => InFlight(x, y)' = InFlight(x, y)
  <1>1. /\ Bag!BagToSet(inflight') \subseteq Bag!BagToSet(inflight)
        /\ Bag!BagToSet(inflight) \ {m} \subseteq Bag!BagToSet(inflight')
    BY BagRemoved DEF IInv, BaseInv, TypeOK
  <1>2. m \in Message
    BY DEF IInv, BaseInv, TypeOK
  <1> QED
    BY <1>1, <1>2 DEF InFlight, Message

\* A message that is lost.
LEMMA LoseAgreement ==
  ASSUME IInv, NEW m \in Bag!BagToSet(inflight), Lose(m)
  PROVE  Agreement'
  <1>1. \A x, y : ~(x = m.from /\ y = m.to) => InFlight(x, y)' = InFlight(x, y)
    BY Removed DEF Lose
  <1> QED
    BY <1>1, DisturbedAgreement DEF Lose

\* An INSERT that arrives is of the connection that is there, or of one whose
\* DELETE comes later; a DELETE that arrives is of one that nobody holds, and
\* the last message of it.
LEMMA DeliverAgreement ==
  ASSUME IInv, BaseInv', NEW m \in Bag!BagToSet(inflight), Deliver(m)
  PROVE  Agreement'
  <1>1. UNCHANGED <<pc, bound, seen, up, conn>> /\ disturbed \subseteq disturbed'
    BY DEF Deliver
  <1>2. PICK r \in Routers, s \in Routers :
          r = m.from /\ s = m.to /\ m \in InFlight(r, s) /\ m \in Message
    BY Removed DEF Deliver
  <1>3. \A x, y \in Routers : dst_qp_map'[x][y] =
          IF x = s /\ y = r THEN EntryAfter(m) ELSE dst_qp_map[x][y]
    BY <1>2 DEF Deliver, IInv, BaseInv, TypeOK
  <1>4. /\ \A x, y : InFlight(x, y)' \subseteq InFlight(x, y)
        /\ \A x, y : InFlight(x, y) \ {m} \subseteq InFlight(x, y)'
        /\ \A x, y : ~(x = r /\ y = s) => InFlight(x, y)' = InFlight(x, y)
    BY <1>2, Removed DEF Deliver
  <1>5. RemembersCurrent'
    <2>1. conn[r][s] # NoConn /\ <<r, s>> \notin disturbed =>
            EntryAfter(m) \in {None, conn[r][s].qpn}
      BY <1>2 DEF IInv, Agreement, CurrentInv, EntryAfter
    <2> SUFFICES ASSUME NEW x \in Routers, NEW y \in Routers,
                        conn[y][x] # NoConn, <<y, x>> \notin disturbed
                 PROVE  /\ dst_qp_map'[x][y] \in {None, conn[y][x].qpn}
                        /\ conn[x][y].dest \in {None, conn[y][x].qpn}
                        /\ \A g \in Handles : Home[g] = x /\ bound[g] = y =>
                             seen[g] \in {None, conn[y][x].qpn}
      BY <1>1 DEF RemembersCurrent
    <2> QED
      BY <1>3, <2>1 DEF IInv, Agreement, RemembersCurrent
  <1>6. CurrentInv'
    BY <1>1, <1>4 DEF IInv, Agreement, CurrentInv
  <1>7. ToldInv'
    <2> SUFFICES ASSUME NEW h \in Handles, HasTold(h), <<Home[h], bound[h]>> \notin disturbed
                 PROVE  Told(Home[h], bound[h])'
      BY <1>1 DEF ToldInv, HasTold
    <2>1. Home[h] \in Routers /\ bound[h] \in Routers /\ Told(Home[h], bound[h])
      BY Endpoints DEF IInv, Agreement, ToldInv
    <2>2. CASE Home[h] = r /\ bound[h] = s
      <3>1. conn[r][s] # NoConn
        BY <2>2, HeldIsThere DEF HasTold, IInv, BaseInv, RequestInv
      <3>2. m.op = "INSERT"
        BY <1>2, <2>2, <3>1 DEF IInv, Agreement, CurrentInv
      <3>3. EntryAfter(m) # None
        BY <3>2 DEF EntryAfter, IInv, BaseInv, MessageInv
      <3>4. dst_qp_map'[bound[h]][Home[h]] # None
        BY <1>3, <2>2, <3>3
      <3> QED
        BY <1>1, <3>4 DEF Told
    <2>3. CASE ~(Home[h] = r /\ bound[h] = s)
      <3>1. /\ dst_qp_map'[bound[h]][Home[h]] = dst_qp_map[bound[h]][Home[h]]
            /\ InFlight(Home[h], bound[h])' = InFlight(Home[h], bound[h])
            /\ bound' = bound
        <4>1. InFlight(Home[h], bound[h])' = InFlight(Home[h], bound[h])
          BY <1>1, <1>4, <2>3 DEF InFlight
        <4> QED
          BY <1>1, <1>3, <2>1, <2>3, <4>1
      <3> QED
        BY <2>1, <3>1 DEF Told
    <2> QED
      BY <2>2, <2>3
  <1>8. LeaveInv'
    BY <1>1 DEF IInv, Agreement, LeaveInv
  <1>9. GoneInv'
    <2> SUFFICES ASSUME NEW x \in Routers, NEW y \in Routers,
                        conn[x][y] = NoConn, <<x, y>> \notin disturbed'
                 PROVE  Erased(x, y)'
      BY <1>1 DEF GoneInv
    <2>1. Erased(x, y)
      BY <1>1 DEF IInv, Agreement, GoneInv
    <2>2. CASE ~(x = r /\ y = s)
      BY <1>1, <1>3, <1>4, <2>1, <2>2 DEF Erased
    <2>3. CASE x = r /\ y = s
      <3>1. CASE \E g \in Handles : Home[g] = x /\ bound[g] = y /\ pc[g] = "delete"
        BY <1>1, <3>1 DEF Erased
      <3>2. CASE \E d \in InFlight(x, y) : d.op = "DELETE" /\ d # m
        BY <1>4, <3>2 DEF Erased
      <3>3. CASE /\ ~ \E g \in Handles : Home[g] = x /\ bound[g] = y /\ pc[g] = "delete"
                 /\ ~ \E d \in InFlight(x, y) : d.op = "DELETE" /\ d # m
        <4>1. m.op = "DELETE"
          BY <1>2, <2>1, <2>3, <3>3 DEF Erased
        <4>2. ~Overtakes(m)
          BY <1>2, <2>3 DEF Deliver
        <4>3. \A d \in InFlight(x, y) : d.op # "INSERT"
          BY <1>2, <2>3, <4>1, <4>2 DEF Overtakes
        <4>4. \A d \in InFlight(x, y) : d.op = "DELETE"
          <5>1. \A d \in InFlight(x, y) : d \in Message
            BY DEF InFlight, IInv, BaseInv, TypeOK
          <5> QED
            BY <4>3, <5>1 DEF Message
        <4>5. InFlight(x, y)' \subseteq {m}
          BY <1>4, <3>3, <4>4
        <4>6. dst_qp_map'[y][x] = None
          BY <1>3, <2>3, <4>1 DEF EntryAfter
        <4>7. CASE m \in InFlight(x, y)'
          BY <4>1, <4>7 DEF Erased
        <4>8. CASE m \notin InFlight(x, y)'
          BY <4>5, <4>6, <4>8 DEF Erased
        <4> QED
          BY <4>7, <4>8
      <3> QED
        BY <3>1, <3>2, <3>3
    <2> QED
      BY <2>2, <2>3
  <1> QED
    BY <1>5, <1>6, <1>7, <1>8, <1>9 DEF Agreement

\* Every step preserves the invariant.
LEMMA StepInv == IInv /\ [Next]_vars => IInv'
  <1> SUFFICES ASSUME IInv, [Next]_vars PROVE Agreement'
    BY StepBase DEF IInv
  <1>1. BaseInv'
    BY StepBase DEF IInv
  <1>2. CASE UNCHANGED vars
    <2>1. \A g \in Handles : HasTold(g)' => HasTold(g)
      BY <1>2 DEF vars, HasTold
    <2> QED
      BY <1>1, <1>2, <2>1, QuietAgreement DEF vars
  <1>3. ASSUME NEW h \in Handles, Continue(h) PROVE Agreement'
    BY <1>1, <1>3, ModifyTellAgreement, ModifyWaitAgreement, ModifyReadyAgreement,
       DestroyTellAgreement, DestroyTellFailsAgreement DEF Continue
  <1>4. ASSUME NEW h \in Handles, Request(h) PROVE Agreement'
    <2>1. Peers[Home[h]] \subseteq Routers
      BY RouterSyncAssumption
    <2> QED
      BY <1>1, <1>4, <2>1, ModifyNewAgreement, ModifyShareAgreement,
         DestroyOneAgreement, DestroyLastAgreement DEF Request
  <1>5. ASSUME NEW m \in Bag!BagToSet(inflight), Deliver(m) \/ Lose(m) PROVE Agreement'
    BY <1>1, <1>5, DeliverAgreement, LoseAgreement
  <1> QED
    BY <1>2, <1>3, <1>4, <1>5 DEF Next

\* With no message and no connection all agree.
LEMMA InitInv == Init => IInv
  <1> SUFFICES ASSUME Init PROVE Agreement
    BY InitBase DEF IInv
  <1>1. \A r, s : InFlight(r, s) = {}
    BY DEF Init, InFlight, Bag!EmptyBag, Bag!SetToBag, Bag!BagToSet
  <1> QED
    BY <1>1 DEF Init, Agreement, RemembersCurrent, CurrentInv, ToldInv, LeaveInv,
                GoneInv, Erased, HasTold

\* The invariant holds in every reachable state, whatever fails.
THEOREM Invariance == Spec => []IInv
  BY InitInv, StepInv, PTL DEF Spec

\* What a router remembers of a peer that has a physical QP is that QP, if the
\* messages of its last one were applied in order before it was started.
THEOREM NothingStale == Spec => []RemembersCurrent
  <1>1. IInv => RemembersCurrent
    BY DEF IInv, Agreement
  <1> QED
    BY <1>1, Invariance, PTL

\* Two hosts with ready virtual QPs for each other have physical QPs that are
\* connected to one another, unless the pair is disturbed.
THEOREM PairsConnected == Spec => []Paired
  <1>1. IInv => Paired
    <2> SUFFICES ASSUME IInv, NEW h \in up, NEW g \in up,
                        Home[h] = bound[g], Home[g] = bound[h],
                        <<Home[g], Home[h]>> \notin disturbed
                 PROVE  /\ conn[Home[h]][bound[h]].qpn # None
                        /\ conn[Home[h]][bound[h]].dest = conn[Home[g]][bound[g]].qpn
      BY DEF Paired
    <2>1. h \in Handles /\ g \in Handles
      BY DEF IInv, BaseInv, TypeOK
    <2>2. /\ bound[h] # None /\ pc[h] = "idle" /\ conn[Home[h]][bound[h]].dest # None
          /\ bound[g] # None /\ pc[g] = "idle"
      BY <2>1 DEF IInv, BaseInv, RequestInv
    <2>3. /\ conn[Home[h]][bound[h]].qpn # None
          /\ Home[h] \in Routers /\ bound[h] \in Routers
          /\ conn[bound[h]][Home[h]] # NoConn
      BY <2>1, <2>2, HeldIsThere, RouterSyncAssumption DEF IInv
    <2> QED
      BY <2>2, <2>3 DEF IInv, Agreement, RemembersCurrent
  <1> QED
    BY <1>1, Invariance, PTL

\* A host that has told its peer is known there once nothing is in flight: no
\* DELETE of an earlier connection has taken the entry away.
THEOREM KnownAfterDelivery == Spec => []KnownOnceTold
  <1>1. IInv => KnownOnceTold
    <2> SUFFICES ASSUME IInv, NEW g \in Handles, HasTold(g),
                        InFlight(Home[g], bound[g]) = {},
                        <<Home[g], bound[g]>> \notin disturbed
                 PROVE  dst_qp_map[bound[g]][Home[g]] = conn[Home[g]][bound[g]].qpn
      BY DEF KnownOnceTold
    <2>1. /\ Home[g] \in Routers /\ bound[g] \in Routers
          /\ conn[Home[g]][bound[g]] # NoConn
      BY HeldIsThere DEF HasTold, IInv, BaseInv, RequestInv
    <2>2. dst_qp_map[bound[g]][Home[g]] # None
      BY DEF Told, IInv, Agreement, ToldInv
    <2> QED
      BY <2>1, <2>2 DEF IInv, Agreement, RemembersCurrent
  <1> QED
    BY <1>1, Invariance, PTL

\* A peer has no entry of a QP that is gone once nothing is on its way.
THEOREM ForgottenAfterDelivery == Spec => []ForgottenWhenQuiet
  <1>1. IInv => ForgottenWhenQuiet
    BY DEF ForgottenWhenQuiet, Quiet, IInv, Agreement, GoneInv, Erased
  <1> QED
    BY <1>1, Invariance, PTL
=============================================================================
