-------------------------------- MODULE MemReg --------------------------------
(***************************************************************************)
(* Memory registration in one scalerouter daemon and its client library.   *)
(*                                                                         *)
(* IBV_REG_MR creates a named shared-memory object for the client, maps it *)
(* in the router, registers it at the NIC and records, per lkey, the       *)
(* distance from the client's address to the router's.  The library then   *)
(* maps the object over the client's buffer.  IBV_POST_SEND and            *)
(* IBV_POST_RECV translate the client's address with the recorded distance. *)
(* IBV_DEREG_MR undoes it.  Each part of a request has its own lock or     *)
(* none, and the requests of all clients interleave.                       *)
(*                                                                         *)
(* The legacy REG_MR and DEREG_MR use the same pieces and the same NIC, but *)
(* record no distance: such a client posts the router's address itself.    *)
(***************************************************************************)
EXTENDS Integers, FiniteSets

CONSTANTS
  Threads,      \* threads that serve requests
  Pids,         \* client processes
  LegacyPids,   \* those that send the legacy requests
  Buffers,      \* page-aligned client buffers, by address
  Addrs,        \* router addresses that mmap may return
  Lkeys,        \* keys that the NIC may return, each free or in use
  MaxPieces,    \* bound on the pieces a process ever gets
  None,
  MayFail       \* may mmap, ibv_reg_mr and ibv_dereg_mr fail?

ASSUME MemRegAssumption ==
  /\ LegacyPids \subseteq Pids
  /\ MaxPieces \in Nat \ {0}
  /\ None \notin Threads \cup Pids \cup Buffers \cup Addrs \cup Lkeys
  /\ MayFail \in BOOLEAN

VARIABLES
  pc, mr,           \* where each thread is, and the registration it works on
  sge,              \* the address a post has translated
  shm_map,          \* shm_map[p]: length of the vector of pieces of p
  objects,          \* shared-memory objects that have a name
  mapped,           \* what the router has mapped at an address
  nic,              \* the address a registered lkey refers to
  lkey_offset_map,
  held,             \* registrations that a client got and has not given back
  buffer            \* buffer[p][b]: the object behind a client's buffer

vars == <<pc, mr, sge, shm_map, objects, mapped, nic, lkey_offset_map, held,
          buffer>>

\* A piece is named by its process and its index in the vector.
Names == Pids \X (0 .. MaxPieces - 1)
Mr == [pid : Pids, buf : Buffers, name : Names,
       addr : Addrs \cup {None}, lkey : Lkeys \cup {None}]

\* The difference of two addresses: applied to another buffer it leads nowhere.
Offset(a, b) == [addr |-> a, buf |-> b]
Offsets == [addr : Addrs, buf : Buffers]

ASSUME NoneAssumption == None \notin Names \cup Mr \cup Offsets

TypeOK ==
  /\ pc \in [Threads -> {"idle", "reg_nic", "reg_map", "reg_rsp", "dereg_nic",
                         "dereg_shm", "post"}]
  /\ mr \in [Threads -> Mr \cup {None}]
  /\ sge \in [Threads -> Addrs \cup {None}]
  /\ shm_map \in [Pids -> 0 .. MaxPieces]
  /\ objects \subseteq Names
  /\ mapped \in [Addrs -> Names \cup {None}]
  /\ nic \in [Lkeys -> Addrs \cup {None}]
  /\ lkey_offset_map \in [Lkeys -> Offsets \cup {None}]
  /\ held \subseteq Mr
  /\ buffer \in [Pids -> [Buffers -> Names \cup {None}]]

Init ==
  /\ pc = [t \in Threads |-> "idle"]
  /\ mr = [t \in Threads |-> None]
  /\ sge = [t \in Threads |-> None]
  /\ shm_map = [p \in Pids |-> 0]
  /\ objects = {}
  /\ mapped = [a \in Addrs |-> None]
  /\ nic = [l \in Lkeys |-> None]
  /\ lkey_offset_map = [l \in Lkeys |-> None]
  /\ held = {}
  /\ buffer = [p \in Pids |-> [b \in Buffers |-> None]]

-----------------------------------------------------------------------------

Step(t, p, m) ==
  /\ pc' = [pc EXCEPT ![t] = p]
  /\ mr' = [mr EXCEPT ![t] = m]

Done(t) == Step(t, "idle", None)

OneBased(p) == shm_map[p] + 1
NextIndex(p) == shm_map[p]

\* addShmPiece, under the shm_map lock: the piece is pushed, and its index is
\* the length of the vector before; mmap picks an address that is free.  Nothing
\* in the library or here asks whether the buffer is registered already.
RegShm(t, p, b) ==
  LET name == <<p, NextIndex(p)>> IN
  /\ pc[t] = "idle" /\ shm_map[p] < MaxPieces
  /\ shm_map' = [shm_map EXCEPT ![p] = @ + 1]
  /\ objects' = objects \cup {name}
  /\ \E a \in Addrs :
       /\ mapped[a] = None
       /\ mapped' = [mapped EXCEPT ![a] = name]
       /\ Step(t, "reg_nic",
               [pid |-> p, buf |-> b, name |-> name, addr |-> a, lkey |-> None])
  /\ UNCHANGED <<sge, nic, lkey_offset_map, held, buffer>>

\* mmap failed: the piece stays in the vector, the object keeps its name, and
\* the request is killed.
RegShmFails(t, p) ==
  /\ pc[t] = "idle" /\ MayFail
  /\ shm_map[p] < MaxPieces
  /\ shm_map' = [shm_map EXCEPT ![p] = @ + 1]
  /\ objects' = objects \cup {<<p, shm_map[p]>>}
  /\ UNCHANGED <<pc, mr, sge, mapped, nic, lkey_offset_map, held, buffer>>

\* REG_MR is answered as soon as the NIC has the memory.
AfterNic(p) == IF p \in LegacyPids THEN "reg_rsp" ELSE "reg_map"

\* ibv_reg_mr at the NIC, with no lock held.
RegNic(t) ==
  /\ pc[t] = "reg_nic"
  /\ \E l \in Lkeys :
       /\ nic[l] = None
       /\ nic' = [nic EXCEPT ![l] = mr[t].addr]
       /\ Step(t, AfterNic(mr[t].pid), [mr[t] EXCEPT !.lkey = l])
  /\ UNCHANGED <<sge, shm_map, objects, mapped, lkey_offset_map, held, buffer>>

\* It failed: killed, with the piece still mapped and named.
RegNicFails(t) ==
  /\ pc[t] = "reg_nic" /\ MayFail
  /\ Done(t)
  /\ UNCHANGED <<sge, shm_map, objects, mapped, nic, lkey_offset_map, held,
                 buffer>>

\* The distance is recorded unless the lkey has one, which is only logged.
RegMap(t) ==
  LET l == mr[t].lkey IN
  /\ pc[t] = "reg_map"
  /\ lkey_offset_map' = IF lkey_offset_map[l] = None
                        THEN [lkey_offset_map EXCEPT
                                ![l] = Offset(mr[t].addr, mr[t].buf)]
                        ELSE lkey_offset_map
  /\ Step(t, "reg_rsp", mr[t])
  /\ UNCHANGED <<sge, shm_map, objects, mapped, nic, held, buffer>>

MappedOver(m) == [buffer EXCEPT ![m.pid][m.buf] = m.name]

\* ibv_reg_mr of the library maps the object over the buffer (MAP_FIXED) and
\* copies the contents back; a legacy client fills the object itself.
RegReturn(t) ==
  /\ pc[t] = "reg_rsp"
  /\ buffer' = IF mr[t].pid \in LegacyPids THEN buffer ELSE MappedOver(mr[t])
  /\ objects' = objects \cup {mr[t].name}
  /\ held' = held \cup {mr[t]}
  /\ Done(t)
  /\ UNCHANGED <<sge, shm_map, mapped, nic, lkey_offset_map>>

\* shm_open or mmap of the library fails after the answer: the application gets
\* NULL, and the router keeps all it has made.
RegReturnFails(t) ==
  /\ pc[t] = "reg_rsp" /\ MayFail
  /\ mr[t].pid \notin LegacyPids
  /\ Done(t)
  /\ UNCHANGED <<sge, shm_map, objects, mapped, nic, lkey_offset_map, held,
                 buffer>>

-----------------------------------------------------------------------------
(* IBV_DEREG_MR: the lkey leaves the map before it leaves the NIC.          *)

Posting(m) == \E t \in Threads : pc[t] = "post" /\ mr[t] = m

NotErased(m) == lkey_offset_map
Erased(m) == [lkey_offset_map EXCEPT ![m.lkey] = None]

DeregMap(t, m) ==
  /\ pc[t] = "idle" /\ ~Posting(m)
  /\ m.pid \notin LegacyPids
  /\ held' = held \ {m}
  /\ lkey_offset_map' = Erased(m)
  /\ IF lkey_offset_map[m.lkey] # None THEN Step(t, "dereg_nic", m)
                                       ELSE UNCHANGED <<pc, mr>>
  /\ UNCHANGED <<sge, shm_map, objects, mapped, nic, buffer>>

StillRegistered(l) == nic
Deregistered(l) == [nic EXCEPT ![l] = None]

DeregNic(t) ==
  /\ pc[t] = "dereg_nic"
  /\ nic' = Deregistered(mr[t].lkey)
  /\ Step(t, "dereg_shm", mr[t])
  /\ UNCHANGED <<sge, shm_map, objects, mapped, lkey_offset_map, held, buffer>>

\* ibv_dereg_mr failed: killed, with the distance gone and the rest in place.
DeregNicFails(t) ==
  /\ pc[t] = "dereg_nic" /\ MayFail
  /\ Done(t)
  /\ UNCHANGED <<sge, shm_map, objects, mapped, nic, lkey_offset_map, held,
                 buffer>>

\* DEREG_MR begins at the NIC.
DeregLegacy(t, m) ==
  /\ pc[t] = "idle" /\ ~Posting(m)
  /\ m.pid \in LegacyPids
  /\ held' = held \ {m}
  /\ nic' = Deregistered(m.lkey)
  /\ Step(t, "dereg_shm", m)
  /\ UNCHANGED <<sge, shm_map, objects, mapped, lkey_offset_map, buffer>>

\* It failed: killed, with all in place and a client that waits for ever.
DeregLegacyFails(t, m) ==
  /\ pc[t] = "idle" /\ ~Posting(m) /\ MayFail
  /\ m.pid \in LegacyPids
  /\ held' = held \ {m}
  /\ UNCHANGED <<pc, mr, sge, shm_map, objects, mapped, nic, lkey_offset_map,
                 buffer>>

\* close, munmap, shm_unlink, in ShmPiece::remove for DEREG_MR; the vector
\* keeps the piece.
DeregShm(t) ==
  /\ pc[t] = "dereg_shm"
  /\ mapped' = [mapped EXCEPT ![mr[t].addr] = None]
  /\ objects' = objects \ {mr[t].name}
  /\ Done(t)
  /\ UNCHANGED <<sge, shm_map, nic, lkey_offset_map, held, buffer>>

-----------------------------------------------------------------------------
(* IBV_POST_SEND and IBV_POST_RECV.                                         *)

\* Where a client address and an lkey lead in the router.
Translate(b, l) ==
  IF lkey_offset_map[l].buf = b THEN lkey_offset_map[l].addr ELSE None

\* The address is translated under the lock, and used after it is released; an
\* lkey without an entry kills the request.
PostTranslate(t, m) ==
  /\ pc[t] = "idle" /\ m.pid \notin LegacyPids
  /\ lkey_offset_map[m.lkey] # None
  /\ sge' = [sge EXCEPT ![t] = Translate(m.buf, m.lkey)]
  /\ Step(t, "post", m)
  /\ UNCHANGED <<shm_map, objects, mapped, nic, lkey_offset_map, held, buffer>>

\* POST_SEND and POST_RECV take the address as it is.
PostLegacy(t, m) ==
  /\ pc[t] = "idle" /\ m.pid \in LegacyPids
  /\ sge' = [sge EXCEPT ![t] = m.addr]
  /\ Step(t, "post", m)
  /\ UNCHANGED <<shm_map, objects, mapped, nic, lkey_offset_map, held, buffer>>

PostWr(t) ==
  /\ pc[t] = "post"
  /\ sge' = [sge EXCEPT ![t] = None]
  /\ Done(t)
  /\ UNCHANGED <<shm_map, objects, mapped, nic, lkey_offset_map, held, buffer>>

-----------------------------------------------------------------------------

Continue(t) ==
  \/ RegNic(t) \/ RegNicFails(t) \/ RegMap(t)
  \/ RegReturn(t) \/ RegReturnFails(t)
  \/ DeregNic(t) \/ DeregNicFails(t) \/ DeregShm(t) \/ PostWr(t)

Request(t) ==
  \/ \E p \in Pids : RegShmFails(t, p) \/ \E b \in Buffers : RegShm(t, p, b)
  \/ \E m \in held : DeregMap(t, m) \/ PostTranslate(t, m)
  \/ \E m \in held :
       DeregLegacy(t, m) \/ DeregLegacyFails(t, m) \/ PostLegacy(t, m)

\* Nothing is left to do within the bound on pieces.
Exhausted ==
  /\ \A t \in Threads : pc[t] = "idle"
  /\ held = {} /\ shm_map = [p \in Pids |-> MaxPieces]
  /\ UNCHANGED vars

Next ==
  \/ \E t \in Threads : Continue(t) \/ Request(t)
  \/ Exhausted

Spec == Init /\ [][Next]_vars

-----------------------------------------------------------------------------
(* Properties                                                               *)

\* "Lkey already exits, sync error may happen" (scalerouter.cpp:1521) is never
\* reached: the NIC may reuse an lkey as soon as it is deregistered, while the
\* request that deregistered it is still under way.
LkeyFresh ==
  \A t \in Threads : pc[t] = "reg_map" => lkey_offset_map[mr[t].lkey] = None

\* A registration that a client holds can be used: the map, the NIC and the
\* router's mapping agree on it, although each changed under another lock.
HeldUsable ==
  \A m \in held :
    /\ m.pid \notin LegacyPids => lkey_offset_map[m.lkey] = Offset(m.addr, m.buf)
    /\ nic[m.lkey] = m.addr
    /\ mapped[m.addr] = m.name
    /\ m.name \in objects

\* A post uses the address that its lkey is registered for, also when other
\* requests ran since it was translated.
PostHitsPiece ==
  \A t \in Threads : pc[t] = "post" =>
    /\ sge[t] = mr[t].addr
    /\ nic[mr[t].lkey] = sge[t] /\ mapped[sge[t]] = mr[t].name

\* Two mappings in the router are never of the same object, so no client sees
\* the memory of another.
PiecesDistinct ==
  \A a, b \in Addrs : mapped[a] # None /\ mapped[a] = mapped[b] => a = b

\* "Correctness check, make sure that the shared memory address and client addr
\* agree" (verbs.c:209, translated): the memory at the client's address is the
\* object that the router has registered for it.  mmap with MAP_FIXED
\* (verbs.c:203) replaces what an earlier registration of the buffer put there,
\* and that registration stays usable, of memory that nobody sees any more.
SeesBuffer ==
  \A m \in held : m.pid \notin LegacyPids => buffer[m.pid][m.buf] = m.name
=============================================================================
