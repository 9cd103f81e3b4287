----------------------------- MODULE MemRegProofs -----------------------------
(***************************************************************************)
(* Safety of memory registration for any number of threads, processes,     *)
(* buffers, addresses and keys, also of clients that register a buffer     *)
(* again, and whatever fails in the router, at the NIC or in the library.  *)
(***************************************************************************)
EXTENDS MemReg, TLAPS

\* Where a registration is in a thread's hands and not, or not yet, the client's;
\* and where the NIC has it.
InHand == {"reg_nic", "reg_map", "reg_rsp", "dereg_nic", "dereg_shm"}
AtNic == {"reg_map", "reg_rsp", "dereg_nic"}

\* The router has its piece mapped; the NIC has its memory; and its distance is
\* recorded, which is none for a legacy client.
HasPiece(m) == m.addr \in Addrs /\ mapped[m.addr] = m.name
HasLkey(m) == m.lkey \in Lkeys /\ nic[m.lkey] = m.addr
Recorded(m) ==
  lkey_offset_map[m.lkey] = IF m.pid \in LegacyPids THEN None ELSE Offset(m.addr, m.buf)

\* What a thread knows at each point of its request.
ThreadInv ==
  \A t \in Threads :
    /\ pc[t] # "idle" => mr[t] \in Mr
    /\ pc[t] \in InHand => HasPiece(mr[t])
    /\ pc[t] \in AtNic => HasLkey(mr[t])
    /\ pc[t] \in {"reg_map", "dereg_nic"} =>
         mr[t].pid \notin LegacyPids /\ lkey_offset_map[mr[t].lkey] = None
    /\ pc[t] = "reg_rsp" => Recorded(mr[t])
    /\ pc[t] = "post" => mr[t] \in held /\ sge[t] = mr[t].addr

HeldInv ==
  \A m \in held : HasPiece(m) /\ HasLkey(m) /\ Recorded(m) /\ m.name \in objects

\* An address, and with it an lkey, belongs to one registration only.
Apart ==
  /\ \A m, n \in held : m.addr = n.addr => m = n
  /\ \A t \in Threads, m \in held : pc[t] \in InHand => mr[t].addr # m.addr
  /\ \A t, u \in Threads :
       t # u /\ pc[t] \in InHand /\ pc[u] \in InHand => mr[t].addr # mr[u].addr

\* No two mappings are of one piece, and the next piece is of a new name.
NamesInv ==
  /\ PiecesDistinct
  /\ \A a \in Addrs : mapped[a] # None => mapped[a][2] < shm_map[mapped[a][1]]

\* A distance outlives its lkey at the NIC in no case.
OffsetInv == \A l \in Lkeys : lkey_offset_map[l] # None => nic[l] # None

IInv == TypeOK /\ ThreadInv /\ HeldInv /\ Apart /\ NamesInv /\ OffsetInv

-----------------------------------------------------------------------------
(* The initial state, and one lemma per action.                             *)

\* With nothing mapped or registered the invariant holds.
LEMMA InitInv == Init => IInv
  <1> SUFFICES ASSUME Init PROVE IInv
    OBVIOUS
  <1>1. TypeOK
    BY MemRegAssumption DEF Init, TypeOK
  <1>2. ThreadInv /\ HeldInv /\ Apart
    BY MemRegAssumption DEF Init, ThreadInv, HeldInv, Apart, InHand, AtNic
  <1>3. NamesInv /\ OffsetInv
    BY MemRegAssumption DEF Init, NamesInv, PiecesDistinct, OffsetInv
  <1> QED
    BY <1>1, <1>2, <1>3 DEF IInv

\* A new piece has an unused name, and an address nobody else has.
LEMMA RegShmInv ==
  ASSUME IInv, NEW t \in Threads, NEW p \in Pids, NEW b \in Buffers, RegShm(t, p, b)
  PROVE  IInv'
  <1> USE MemRegAssumption, NoneAssumption DEF IInv, NextIndex
  <1> DEFINE name == <<p, shm_map[p]>>
  <1> PICK a \in Addrs :
         /\ mapped[a] = None
         /\ mapped' = [mapped EXCEPT ![a] = name]
         /\ Step(t, "reg_nic",
                 [pid |-> p, buf |-> b, name |-> name, addr |-> a, lkey |-> None])
    BY DEF RegShm
  <1>1. /\ shm_map[p] \in 0 .. MaxPieces - 1
        /\ shm_map' = [shm_map EXCEPT ![p] = @ + 1]
        /\ objects' = objects \cup {name}
        /\ UNCHANGED <<sge, nic, lkey_offset_map, held, buffer>>
    BY DEF RegShm, TypeOK
  <1>2. name \in Names
    BY <1>1 DEF Names
  <1> HIDE DEF name
  <1>3. /\ pc'[t] = "reg_nic" /\ mr'[t] \in Mr /\ mr'[t].addr = a /\ mr'[t].name = name
        /\ \A u \in Threads \ {t} : pc'[u] = pc[u] /\ mr'[u] = mr[u]
    BY <1>2 DEF Step, TypeOK, Mr
  <1>4. mapped'[a] = name /\ \A d \in Addrs \ {a} : mapped'[d] = mapped[d]
    BY DEF TypeOK
  <1>5. /\ pc' \in [Threads -> {"idle", "reg_nic", "reg_map", "reg_rsp", "dereg_nic",
                                "dereg_shm", "post"}]
        /\ mr' \in [Threads -> Mr \cup {None}]
        /\ mapped' \in [Addrs -> Names \cup {None}]
    BY <1>2, <1>3 DEF Step, TypeOK
  <1>6. /\ \A m \in held : m \in Mr /\ m.addr # a
        /\ \A u \in Threads : pc[u] \in InHand => mr[u] \in Mr /\ mr[u].addr # a
    BY DEF TypeOK, HeldInv, ThreadInv, HasPiece, InHand, Mr
  <1>10. TypeOK'
    BY <1>1, <1>2, <1>3, <1>4, <1>5 DEF TypeOK, Names
  <1>11. ThreadInv'
    BY <1>1, <1>2, <1>3, <1>4, <1>5, <1>6 DEF TypeOK, ThreadInv, HeldInv, Apart, OffsetInv, NamesInv, HasPiece, HasLkey, Recorded, InHand, AtNic
  <1>12. HeldInv'
    BY <1>1, <1>2, <1>3, <1>4, <1>5, <1>6 DEF TypeOK, ThreadInv, HeldInv, Apart, NamesInv, HasPiece, HasLkey, Recorded, InHand, AtNic
  <1>13. Apart'
    BY <1>1, <1>3, <1>6 DEF Apart
  <1>14. NamesInv'
    <2>1. name[1] = p /\ name[2] = shm_map[p]
      BY DEF name
    <2>2. shm_map'[p] = shm_map[p] + 1 /\ \A q \in Pids \ {p} : shm_map'[q] = shm_map[q]
      BY <1>1 DEF TypeOK
    <2>3. \A d \in Addrs : mapped[d] # None =>
            mapped[d] # name /\ mapped[d][1] \in Pids /\ mapped[d][2] \in Nat
      BY <1>1, <2>1 DEF TypeOK, NamesInv, Names
    <2>4. PiecesDistinct'
      BY <1>4, <2>3 DEF NamesInv, PiecesDistinct
    <2>5. ASSUME NEW d \in Addrs, mapped'[d] # None
          PROVE  mapped'[d][2] < shm_map'[mapped'[d][1]]
      <3>1. CASE d = a
        BY <1>1, <1>4, <2>1, <2>2, <3>1
      <3>2. CASE d # a
        BY <1>1, <1>4, <2>2, <2>3, <2>5, <3>2 DEF NamesInv, TypeOK
      <3> QED
        BY <3>1, <3>2
    <2> QED
      BY <2>4, <2>5 DEF NamesInv
  <1>15. OffsetInv'
    BY <1>1, <1>2, <1>3, <1>4, <1>5, <1>6 DEF TypeOK, OffsetInv, ThreadInv, HeldInv, HasLkey, Recorded, AtNic
  <1> QED
    BY <1>10, <1>11, <1>12, <1>13, <1>14, <1>15

\* A name is used up.
LEMMA RegShmFailsInv ==
  ASSUME IInv, NEW t \in Threads, NEW p \in Pids, RegShmFails(t, p)
  PROVE  IInv'
  <1> USE MemRegAssumption, NoneAssumption DEF IInv, RegShmFails
  <1>10. TypeOK'
    BY DEF TypeOK, Mr, Names, Offsets, Offset
  <1>11. ThreadInv'
    BY DEF TypeOK, ThreadInv, HeldInv, Apart, OffsetInv, NamesInv, HasPiece, HasLkey, Recorded, InHand, AtNic
  <1>12. HeldInv'
    BY DEF TypeOK, ThreadInv, HeldInv, Apart, NamesInv, HasPiece, HasLkey, Recorded, InHand, AtNic
  <1>13. Apart'
    BY DEF TypeOK, ThreadInv, HeldInv, Apart, HasPiece, InHand
  <1>14. NamesInv'
    BY DEF TypeOK, NamesInv, PiecesDistinct, Names
  <1>15. OffsetInv'
    BY DEF TypeOK, OffsetInv, ThreadInv, HeldInv, HasLkey, Recorded, AtNic
  <1> QED
    BY <1>10, <1>11, <1>12, <1>13, <1>14, <1>15

\* The NIC's new lkey has no distance recorded, and nobody else has it.
LEMMA RegNicInv ==
  ASSUME IInv, NEW t \in Threads, RegNic(t)
  PROVE  IInv'
  <1> USE MemRegAssumption, NoneAssumption DEF IInv
  <1> PICK m : m = mr[t]
    OBVIOUS
  <1>1. m \in Mr /\ HasPiece(m) /\ pc[t] = "reg_nic"
    BY DEF RegNic, ThreadInv, InHand
  <1> PICK l \in Lkeys :
         /\ nic[l] = None
         /\ nic' = [nic EXCEPT ![l] = m.addr]
         /\ Step(t, AfterNic(m.pid), [m EXCEPT !.lkey = l])
         /\ UNCHANGED <<sge, shm_map, objects, mapped, lkey_offset_map, held, buffer>>
    BY DEF RegNic
  <1>2. /\ pc'[t] = AfterNic(m.pid) /\ AfterNic(m.pid) \in {"reg_rsp", "reg_map"}
        /\ mr'[t] \in Mr /\ mr'[t].addr = m.addr /\ mr'[t].lkey = l
        /\ mr'[t].name = m.name /\ mr'[t].pid = m.pid /\ mr'[t].buf = m.buf
        /\ (AfterNic(m.pid) = "reg_rsp" <=> m.pid \in LegacyPids)
        /\ \A u \in Threads \ {t} : pc'[u] = pc[u] /\ mr'[u] = mr[u]
        /\ pc' = [pc EXCEPT ![t] = AfterNic(m.pid)] /\ mr' = [mr EXCEPT ![t] = mr'[t]]
    BY <1>1 DEF Step, TypeOK, Mr, AfterNic
  <1>3. /\ lkey_offset_map[l] = None /\ nic'[l] = m.addr
        /\ \A k \in Lkeys \ {l} : nic'[k] = nic[k]
    BY DEF OffsetInv, TypeOK
  <1>10. TypeOK'
    BY <1>1, <1>2, <1>3 DEF TypeOK, Mr, Names, Offsets, Offset
  <1>11. ThreadInv'
    BY <1>1, <1>2, <1>3 DEF TypeOK, ThreadInv, HeldInv, Apart, OffsetInv, NamesInv, HasPiece, HasLkey, Recorded, InHand, AtNic
  <1>12. HeldInv'
    BY <1>1, <1>2, <1>3 DEF TypeOK, ThreadInv, HeldInv, Apart, NamesInv, HasPiece, HasLkey, Recorded, InHand, AtNic
  <1>13. Apart'
    BY <1>1, <1>2, <1>3 DEF TypeOK, ThreadInv, HeldInv, Apart, HasPiece, InHand
  <1>14. NamesInv'
    BY <1>1, <1>2, <1>3 DEF TypeOK, NamesInv, PiecesDistinct, Names
  <1>15. OffsetInv'
    BY <1>1, <1>2, <1>3 DEF TypeOK, OffsetInv, ThreadInv, HeldInv, HasLkey, Recorded, AtNic
  <1> QED
    BY <1>10, <1>11, <1>12, <1>13, <1>14, <1>15

\* The thread ends; the mapping stays.
LEMMA RegNicFailsInv ==
  ASSUME IInv, NEW t \in Threads, RegNicFails(t)
  PROVE  IInv'
  <1> USE MemRegAssumption, NoneAssumption DEF IInv, RegNicFails, Done, Step
  <1>10. TypeOK'
    BY DEF TypeOK, Mr, Names, Offsets, Offset
  <1>11. ThreadInv'
    BY DEF TypeOK, ThreadInv, HeldInv, Apart, OffsetInv, NamesInv, HasPiece, HasLkey, Recorded, InHand, AtNic
  <1>12. HeldInv'
    BY DEF TypeOK, ThreadInv, HeldInv, Apart, NamesInv, HasPiece, HasLkey, Recorded, InHand, AtNic
  <1>13. Apart'
    BY DEF TypeOK, ThreadInv, HeldInv, Apart, HasPiece, InHand
  <1>14. NamesInv'
    BY DEF TypeOK, NamesInv, PiecesDistinct, Names
  <1>15. OffsetInv'
    BY DEF TypeOK, OffsetInv, ThreadInv, HeldInv, HasLkey, Recorded, AtNic
  <1> QED
    BY <1>10, <1>11, <1>12, <1>13, <1>14, <1>15

\* The lkey has no distance recorded, so that the new one is.
LEMMA RegMapInv ==
  ASSUME IInv, NEW t \in Threads, RegMap(t)
  PROVE  IInv'
  <1> USE MemRegAssumption, NoneAssumption DEF IInv
  <1> PICK m : m = mr[t]
    OBVIOUS
  <1>1. /\ m \in Mr /\ HasPiece(m) /\ pc[t] = "reg_map" /\ HasLkey(m)
        /\ m.pid \notin LegacyPids /\ lkey_offset_map[m.lkey] = None
    BY DEF RegMap, ThreadInv, InHand, AtNic
  <1>2. /\ lkey_offset_map' = [lkey_offset_map EXCEPT ![m.lkey] = Offset(m.addr, m.buf)]
        /\ Step(t, "reg_rsp", m)
        /\ UNCHANGED <<sge, shm_map, objects, mapped, nic, held, buffer>>
    BY <1>1 DEF RegMap
  <1>3. Offset(m.addr, m.buf) \in Offsets
    BY <1>1 DEF Offset, Offsets, Mr, HasPiece
  <1> USE DEF Step
  <1>10. TypeOK'
    BY <1>1, <1>2, <1>3 DEF TypeOK, Mr, Names, Offsets, Offset
  <1>11. ThreadInv'
    BY <1>1, <1>2, <1>3 DEF TypeOK, ThreadInv, HeldInv, Apart, OffsetInv, NamesInv, HasPiece, HasLkey, Recorded, InHand, AtNic
  <1>12. HeldInv'
    BY <1>1, <1>2, <1>3 DEF TypeOK, ThreadInv, HeldInv, Apart, NamesInv, HasPiece, HasLkey, Recorded, InHand, AtNic
  <1>13. Apart'
    BY <1>1, <1>2, <1>3 DEF TypeOK, ThreadInv, HeldInv, Apart, HasPiece, InHand
  <1>14. NamesInv'
    BY <1>1, <1>2, <1>3 DEF TypeOK, NamesInv, PiecesDistinct, Names
  <1>15. OffsetInv'
    BY <1>1, <1>2 DEF TypeOK, OffsetInv, HasLkey, HasPiece
  <1> QED
    BY <1>10, <1>11, <1>12, <1>13, <1>14, <1>15

\* The registration passes from the thread to the client.
LEMMA RegReturnInv ==
  ASSUME IInv, NEW t \in Threads, RegReturn(t)
  PROVE  IInv'
  <1> USE MemRegAssumption, NoneAssumption DEF IInv, RegReturn, Done, Step
  <1> PICK m : m = mr[t]
    OBVIOUS
  <1>1. m \in Mr /\ HasPiece(m)
    BY DEF ThreadInv, InHand
  <1>10. TypeOK'
    <2>1. buffer' \in [Pids -> [Buffers -> Names \cup {None}]]
      BY <1>1 DEF TypeOK, MappedOver, Mr
    <2> QED
      BY <1>1, <2>1 DEF TypeOK, Mr
  <1>11. ThreadInv'
    BY <1>1 DEF TypeOK, ThreadInv, HeldInv, Apart, OffsetInv, NamesInv, HasPiece, HasLkey, Recorded, InHand, AtNic
  <1>12. HeldInv'
    BY <1>1 DEF TypeOK, ThreadInv, HeldInv, Apart, NamesInv, HasPiece, HasLkey, Recorded, InHand, AtNic
  <1>13. Apart'
    BY <1>1 DEF TypeOK, ThreadInv, HeldInv, Apart, HasPiece, InHand
  <1>14. NamesInv'
    BY <1>1 DEF TypeOK, NamesInv, PiecesDistinct, Names
  <1>15. OffsetInv'
    BY <1>1 DEF TypeOK, OffsetInv, ThreadInv, HeldInv, HasLkey, Recorded, AtNic
  <1> QED
    BY <1>10, <1>11, <1>12, <1>13, <1>14, <1>15

\* The thread ends; the client does not get what the router has made.
LEMMA RegReturnFailsInv ==
  ASSUME IInv, NEW t \in Threads, RegReturnFails(t)
  PROVE  IInv'
  <1> USE MemRegAssumption, NoneAssumption DEF IInv, RegReturnFails, Done, Step
  <1>10. TypeOK'
    BY DEF TypeOK, Mr, Names, Offsets, Offset
  <1>11. ThreadInv'
    BY DEF TypeOK, ThreadInv, HeldInv, Apart, OffsetInv, NamesInv, HasPiece, HasLkey, Recorded, InHand, AtNic
  <1>12. HeldInv'
    BY DEF TypeOK, ThreadInv, HeldInv, Apart, NamesInv, HasPiece, HasLkey, Recorded, InHand, AtNic
  <1>13. Apart'
    BY DEF TypeOK, ThreadInv, HeldInv, Apart, HasPiece, InHand
  <1>14. NamesInv'
    BY DEF TypeOK, NamesInv, PiecesDistinct, Names
  <1>15. OffsetInv'
    BY DEF TypeOK, OffsetInv, ThreadInv, HeldInv, HasLkey, Recorded, AtNic
  <1> QED
    BY <1>10, <1>11, <1>12, <1>13, <1>14, <1>15

\* It passes back, and no post uses it.
LEMMA DeregMapInv ==
  ASSUME IInv, NEW t \in Threads, NEW m \in held, DeregMap(t, m)
  PROVE  IInv'
  <1> USE MemRegAssumption, NoneAssumption DEF IInv
  <1>1. /\ m \in Mr /\ HasPiece(m) /\ HasLkey(m) /\ ~Posting(m)
        /\ m.pid \notin LegacyPids /\ pc[t] = "idle"
        /\ lkey_offset_map[m.lkey] = Offset(m.addr, m.buf)
    BY DEF DeregMap, TypeOK, HeldInv, Recorded
  <1>2. /\ held' = held \ {m}
        /\ lkey_offset_map' = [lkey_offset_map EXCEPT ![m.lkey] = None]
        /\ Step(t, "dereg_nic", m)
        /\ UNCHANGED <<sge, shm_map, objects, mapped, nic, buffer>>
    <2>1. Offset(m.addr, m.buf) \in Offsets
      BY <1>1 DEF Offset, Offsets, Mr, HasPiece
    <2> QED
      BY <1>1, <2>1 DEF DeregMap, Erased
  <1> USE DEF Step, Posting
  <1>10. TypeOK'
    BY <1>1, <1>2 DEF TypeOK, Mr, Names, Offsets, Offset
  <1>11. ThreadInv'
    BY <1>1, <1>2 DEF TypeOK, ThreadInv, HeldInv, Apart, OffsetInv, NamesInv, HasPiece, HasLkey, Recorded, InHand, AtNic
  <1>12. HeldInv'
    BY <1>1, <1>2 DEF TypeOK, ThreadInv, HeldInv, Apart, NamesInv, HasPiece, HasLkey, Recorded, InHand, AtNic
  <1>13. Apart'
    BY <1>1, <1>2 DEF TypeOK, ThreadInv, HeldInv, Apart, HasPiece, InHand
  <1>14. NamesInv'
    BY <1>1, <1>2 DEF TypeOK, NamesInv, PiecesDistinct, Names
  <1>15. OffsetInv'
    BY <1>1, <1>2 DEF TypeOK, OffsetInv, ThreadInv, HeldInv, HasLkey, Recorded, AtNic
  <1> QED
    BY <1>10, <1>11, <1>12, <1>13, <1>14, <1>15

\* The lkey that is free from here on belongs to no other registration.
LEMMA DeregNicInv ==
  ASSUME IInv, NEW t \in Threads, DeregNic(t)
  PROVE  IInv'
  <1> USE MemRegAssumption, NoneAssumption DEF IInv, DeregNic, Step, Deregistered
  <1> PICK m : m = mr[t]
    OBVIOUS
  <1>1. m \in Mr /\ HasPiece(m)
    BY DEF ThreadInv, InHand
  <1>10. TypeOK'
    BY <1>1 DEF TypeOK, Mr, Names, Offsets, Offset
  <1>11. ThreadInv'
    BY <1>1 DEF TypeOK, ThreadInv, HeldInv, Apart, OffsetInv, NamesInv, HasPiece, HasLkey, Recorded, InHand, AtNic
  <1>12. HeldInv'
    BY <1>1 DEF TypeOK, ThreadInv, HeldInv, Apart, NamesInv, HasPiece, HasLkey, Recorded, InHand, AtNic
  <1>13. Apart'
    BY <1>1 DEF TypeOK, ThreadInv, HeldInv, Apart, HasPiece, InHand
  <1>14. NamesInv'
    BY <1>1 DEF TypeOK, NamesInv, PiecesDistinct, Names
  <1>15. OffsetInv'
    BY <1>1 DEF TypeOK, OffsetInv, ThreadInv, HeldInv, HasLkey, Recorded, AtNic
  <1> QED
    BY <1>10, <1>11, <1>12, <1>13, <1>14, <1>15

\* The thread ends; the lkey stays at the NIC without a distance.
LEMMA DeregNicFailsInv ==
  ASSUME IInv, NEW t \in Threads, DeregNicFails(t)
  PROVE  IInv'
  <1> USE MemRegAssumption, NoneAssumption DEF IInv, DeregNicFails, Done, Step
  <1>10. TypeOK'
    BY DEF TypeOK, Mr, Names, Offsets, Offset
  <1>11. ThreadInv'
    BY DEF TypeOK, ThreadInv, HeldInv, Apart, OffsetInv, NamesInv, HasPiece, HasLkey, Recorded, InHand, AtNic
  <1>12. HeldInv'
    BY DEF TypeOK, ThreadInv, HeldInv, Apart, NamesInv, HasPiece, HasLkey, Recorded, InHand, AtNic
  <1>13. Apart'
    BY DEF TypeOK, ThreadInv, HeldInv, Apart, HasPiece, InHand
  <1>14. NamesInv'
    BY DEF TypeOK, NamesInv, PiecesDistinct, Names
  <1>15. OffsetInv'
    BY DEF TypeOK, OffsetInv, ThreadInv, HeldInv, HasLkey, Recorded, AtNic
  <1> QED
    BY <1>10, <1>11, <1>12, <1>13, <1>14, <1>15

\* The same, of a legacy client.
LEMMA DeregLegacyInv ==
  ASSUME IInv, NEW t \in Threads, NEW m \in held, DeregLegacy(t, m)
  PROVE  IInv'
  <1> USE MemRegAssumption, NoneAssumption DEF IInv, DeregLegacy, Step, Posting, Deregistered
  <1>10. TypeOK'
    BY DEF TypeOK, Mr, Names, Offsets, Offset
  <1>11. ThreadInv'
    BY DEF TypeOK, ThreadInv, HeldInv, Apart, OffsetInv, NamesInv, HasPiece, HasLkey, Recorded, InHand, AtNic
  <1>12. HeldInv'
    BY DEF TypeOK, ThreadInv, HeldInv, Apart, NamesInv, HasPiece, HasLkey, Recorded, InHand, AtNic
  <1>13. Apart'
    BY DEF TypeOK, ThreadInv, HeldInv, Apart, HasPiece, InHand
  <1>14. NamesInv'
    BY DEF TypeOK, NamesInv, PiecesDistinct, Names
  <1>15. OffsetInv'
    BY DEF TypeOK, OffsetInv, ThreadInv, HeldInv, HasLkey, Recorded, AtNic
  <1> QED
    BY <1>10, <1>11, <1>12, <1>13, <1>14, <1>15

\* A legacy client's stays where it was.
LEMMA DeregLegacyFailsInv ==
  ASSUME IInv, NEW t \in Threads, NEW m \in held, DeregLegacyFails(t, m)
  PROVE  IInv'
  <1> USE MemRegAssumption, NoneAssumption DEF IInv, DeregLegacyFails, Posting
  <1>10. TypeOK'
    BY DEF TypeOK, Mr, Names, Offsets, Offset
  <1>11. ThreadInv'
    BY DEF TypeOK, ThreadInv, HeldInv, Apart, OffsetInv, NamesInv, HasPiece, HasLkey, Recorded, InHand, AtNic
  <1>12. HeldInv'
    BY DEF TypeOK, ThreadInv, HeldInv, Apart, NamesInv, HasPiece, HasLkey, Recorded, InHand, AtNic
  <1>13. Apart'
    BY DEF TypeOK, ThreadInv, HeldInv, Apart, HasPiece, InHand
  <1>14. NamesInv'
    BY DEF TypeOK, NamesInv, PiecesDistinct, Names
  <1>15. OffsetInv'
    BY DEF TypeOK, OffsetInv, ThreadInv, HeldInv, HasLkey, Recorded, AtNic
  <1> QED
    BY <1>10, <1>11, <1>12, <1>13, <1>14, <1>15

\* The address that is free from here on belongs to no other registration,
\* and the name to no other mapping.
LEMMA DeregShmInv ==
  ASSUME IInv, NEW t \in Threads, DeregShm(t)
  PROVE  IInv'
  <1> USE MemRegAssumption, NoneAssumption DEF IInv, DeregShm, Done, Step
  <1> PICK m : m = mr[t]
    OBVIOUS
  <1>1. m \in Mr /\ HasPiece(m)
    BY DEF ThreadInv, InHand
  <1>10. TypeOK'
    BY <1>1 DEF TypeOK, Mr, Names, Offsets, Offset
  <1>11. ThreadInv'
    BY <1>1 DEF TypeOK, ThreadInv, HeldInv, Apart, OffsetInv, NamesInv, HasPiece, HasLkey, Recorded, InHand, AtNic
  <1>12. HeldInv'
    <2> SUFFICES ASSUME NEW n \in held
                 PROVE  (HasPiece(n) /\ HasLkey(n) /\ Recorded(n) /\ n.name \in objects)'
      BY DEF HeldInv
    <2>1. n.addr # m.addr
      BY DEF Apart, InHand
    <2>2. HasPiece(n) /\ n.name # m.name
      BY <1>1, <2>1 DEF HeldInv, NamesInv, PiecesDistinct, HasPiece, TypeOK, Mr
    <2> QED
      BY <1>1, <2>1, <2>2 DEF HeldInv, HasPiece, HasLkey, Recorded, TypeOK
  <1>13. Apart'
    BY <1>1 DEF TypeOK, ThreadInv, HeldInv, Apart, HasPiece, InHand
  <1>14. NamesInv'
    BY <1>1 DEF TypeOK, NamesInv, PiecesDistinct, Names
  <1>15. OffsetInv'
    BY <1>1 DEF TypeOK, OffsetInv, ThreadInv, HeldInv, HasLkey, Recorded, AtNic
  <1> QED
    BY <1>10, <1>11, <1>12, <1>13, <1>14, <1>15

\* The translation gives the address the NIC has the lkey for.
LEMMA PostTranslateInv ==
  ASSUME IInv, NEW t \in Threads, NEW m \in held, PostTranslate(t, m)
  PROVE  IInv'
  <1> USE MemRegAssumption, NoneAssumption DEF IInv
  <1>1. /\ m \in Mr /\ HasPiece(m)
        /\ sge' = [sge EXCEPT ![t] = m.addr] /\ Step(t, "post", m)
        /\ UNCHANGED <<shm_map, objects, mapped, nic, lkey_offset_map, held, buffer>>
    <2>1. lkey_offset_map[m.lkey] = Offset(m.addr, m.buf)
      BY DEF PostTranslate, HeldInv, Recorded
    <2>2. Translate(m.buf, m.lkey) = m.addr
      BY <2>1 DEF Translate, Offset
    <2> QED
      BY <2>2 DEF PostTranslate, TypeOK, HeldInv
  <1> USE DEF Step
  <1>10. TypeOK'
    BY <1>1 DEF TypeOK, Mr, Names, Offsets, Offset
  <1>11. ThreadInv'
    BY <1>1 DEF TypeOK, ThreadInv, HeldInv, Apart, OffsetInv, NamesInv, HasPiece, HasLkey, Recorded, InHand, AtNic
  <1>12. HeldInv'
    BY <1>1 DEF TypeOK, ThreadInv, HeldInv, Apart, NamesInv, HasPiece, HasLkey, Recorded, InHand, AtNic
  <1>13. Apart'
    BY <1>1 DEF TypeOK, ThreadInv, HeldInv, Apart, HasPiece, InHand
  <1>14. NamesInv'
    BY <1>1 DEF TypeOK, NamesInv, PiecesDistinct, Names
  <1>15. OffsetInv'
    BY <1>1 DEF TypeOK, OffsetInv, ThreadInv, HeldInv, HasLkey, Recorded, AtNic
  <1> QED
    BY <1>10, <1>11, <1>12, <1>13, <1>14, <1>15

\* A legacy client sends that address.
LEMMA PostLegacyInv ==
  ASSUME IInv, NEW t \in Threads, NEW m \in held, PostLegacy(t, m)
  PROVE  IInv'
  <1> USE MemRegAssumption, NoneAssumption DEF IInv, PostLegacy, Step
  <1>10. TypeOK'
    BY DEF TypeOK, Mr, Names, Offsets, Offset
  <1>11. ThreadInv'
    BY DEF TypeOK, ThreadInv, HeldInv, Apart, OffsetInv, NamesInv, HasPiece, HasLkey, Recorded, InHand, AtNic
  <1>12. HeldInv'
    BY DEF TypeOK, ThreadInv, HeldInv, Apart, NamesInv, HasPiece, HasLkey, Recorded, InHand, AtNic
  <1>13. Apart'
    BY DEF TypeOK, ThreadInv, HeldInv, Apart, HasPiece, InHand
  <1>14. NamesInv'
    BY DEF TypeOK, NamesInv, PiecesDistinct, Names
  <1>15. OffsetInv'
    BY DEF TypeOK, OffsetInv, ThreadInv, HeldInv, HasLkey, Recorded, AtNic
  <1> QED
    BY <1>10, <1>11, <1>12, <1>13, <1>14, <1>15

\* The post is done.
LEMMA PostWrInv ==
  ASSUME IInv, NEW t \in Threads, PostWr(t)
  PROVE  IInv'
  <1> USE MemRegAssumption, NoneAssumption DEF IInv, PostWr, Done, Step
  <1>10. TypeOK'
    BY DEF TypeOK, Mr, Names, Offsets, Offset
  <1>11. ThreadInv'
    BY DEF TypeOK, ThreadInv, HeldInv, Apart, OffsetInv, NamesInv, HasPiece, HasLkey, Recorded, InHand, AtNic
  <1>12. HeldInv'
    BY DEF TypeOK, ThreadInv, HeldInv, Apart, NamesInv, HasPiece, HasLkey, Recorded, InHand, AtNic
  <1>13. Apart'
    BY DEF TypeOK, ThreadInv, HeldInv, Apart, HasPiece, InHand
  <1>14. NamesInv'
    BY DEF TypeOK, NamesInv, PiecesDistinct, Names
  <1>15. OffsetInv'
    BY DEF TypeOK, OffsetInv, ThreadInv, HeldInv, HasLkey, Recorded, AtNic
  <1> QED
    BY <1>10, <1>11, <1>12, <1>13, <1>14, <1>15

-----------------------------------------------------------------------------
(* The theorems.                                                            *)

\* Every step preserves the invariant: one lemma per action.
LEMMA StepInv == IInv /\ [Next]_vars => IInv'
  <1> SUFFICES ASSUME IInv, [Next]_vars PROVE IInv'
    OBVIOUS
  <1>1. ASSUME NEW t \in Threads, Continue(t) PROVE IInv'
    BY <1>1, RegNicInv, RegNicFailsInv, RegMapInv, RegReturnInv,
       RegReturnFailsInv, DeregNicInv, DeregNicFailsInv, DeregShmInv, PostWrInv DEF Continue
  <1>2. ASSUME NEW t \in Threads, Request(t) PROVE IInv'
    BY <1>2, RegShmInv, RegShmFailsInv, DeregMapInv, DeregLegacyInv,
       DeregLegacyFailsInv, PostTranslateInv, PostLegacyInv DEF Request
  <1>3. ASSUME UNCHANGED vars PROVE IInv'
    BY <1>3 DEF vars, IInv, TypeOK, ThreadInv, HeldInv, Apart, NamesInv,
       PiecesDistinct, OffsetInv, HasPiece, HasLkey, Recorded
  <1> QED
    BY <1>1, <1>2, <1>3 DEF Next, Exhausted

\* Every reachable state satisfies the inductive invariant.
THEOREM Invariance == Spec => []IInv
  BY InitInv, StepInv, PTL DEF Spec

\* The variables keep their types.
THEOREM TypeCorrect == Spec => []TypeOK
  <1>1. IInv => TypeOK
    BY DEF IInv
  <1> QED
    BY <1>1, Invariance, PTL

\* The router never finds that a new lkey has a distance already: "Lkey already
\* exits, sync error may happen" (scalerouter.cpp:1521) is not reached.
THEOREM LkeysFresh == Spec => []LkeyFresh
  <1>1. IInv => LkeyFresh
    BY DEF IInv, ThreadInv, LkeyFresh
  <1> QED
    BY <1>1, Invariance, PTL

\* What a client holds, the map, the NIC and the router's mapping agree on.
THEOREM HoldingsUsable == Spec => []HeldUsable
  <1>1. IInv => HeldUsable
    BY DEF IInv, HeldInv, HasPiece, HasLkey, Recorded, HeldUsable
  <1> QED
    BY <1>1, Invariance, PTL

\* A post uses memory that is registered, mapped and its client's, whatever ran
\* since its address was translated.
THEOREM PostsHit == Spec => []PostHitsPiece
  <1>1. IInv => PostHitsPiece
    BY DEF IInv, ThreadInv, HeldInv, HasPiece, HasLkey, PostHitsPiece
  <1> QED
    BY <1>1, Invariance, PTL

\* No shared-memory object is mapped at two addresses.
THEOREM NoSharedPiece == Spec => []PiecesDistinct
  <1>1. IInv => PiecesDistinct
    BY DEF IInv, NamesInv
  <1> QED
    BY <1>1, Invariance, PTL
=============================================================================
