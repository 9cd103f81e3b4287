------------------------------- MODULE DataPath -------------------------------
(***************************************************************************)
(* The data path of one shared connection: two routers whose RC QPs are    *)
(* connected and ready to send, and the processes of both hosts that post  *)
(* work requests to them and poll their completion queues.                 *)
(*                                                                         *)
(* All virtual QPs of a host share one send queue, one receive queue and   *)
(* one completion queue.  The only trace of who posted a request is its    *)
(* wr_id, which the routers expect to be the process id.  A request that   *)
(* ends in "goto kill" is never answered: its process is stuck from then   *)
(* on, as request_router goes on reading (see ScaleCall).                  *)
(*                                                                         *)
(* How a handler finds the connection and the buffer is the subject of     *)
(* HostMap and MemReg.  What is done under conn->mutex is one step here.   *)
(***************************************************************************)
EXTENDS Integers, Sequences, FiniteSets

CONSTANTS
  Procs,      \* client processes, each with one virtual QP on the connection
  Hosts,      \* the two ends
  Host,       \* [Procs -> Hosts]
  Partner,    \* [Procs -> Procs]: the process whose QP a process exchanged
              \* meta data with
  MaxWr,      \* MAX_SEND_WR, MAX_RECV_WR: capacity of a send or receive queue
  CqSize,     \* MAX_CQ_SIZE, which is the same number (types.h:22-24)
  MaxOut,     \* requests a process keeps outstanding
  MaxPosts,   \* bound on the requests a process ever posts of a kind
  Careful     \* processes that send only what their partner expects, and poll
              \* only while they wait for a completion

ASSUME DataPathAssumption ==
  /\ IsFiniteSet(Procs) /\ IsFiniteSet(Hosts) /\ Cardinality(Hosts) = 2
  /\ Host \in [Procs -> Hosts]
  /\ Partner \in [Procs -> Procs]
  /\ \A p \in Procs : Partner[Partner[p]] = p /\ Host[Partner[p]] # Host[p]
  /\ Careful \subseteq Procs
  /\ {MaxWr, CqSize, MaxOut, MaxPosts} \subseteq Nat \ {0}

VARIABLES
  sq, rq,    \* work requests of each QP that are not completed
  acked,     \* sends that have arrived and whose completion is to come
  cq,        \* completions that are not polled
  err,       \* hosts whose QP is in the error state
  overran,   \* hosts whose completion queue has overflowed
  sends, recvs,   \* requests a process posted to sq and to rq
  got,       \* completions a process was handed
  uncalled,  \* processes that sent what their partner had no buffer for
  landed,    \* <<p, r>>: a message of p went to a receive buffer of r
  stuck      \* the request whose answer a process waits for in vain

vars == <<sq, rq, acked, cq, err, overran, sends, recvs, got, uncalled, landed, stuck>>
counts == <<sends, recvs>>

Other(h) == CHOOSE g \in Hosts : g # h

Wr == [proc : Procs, op : {"SEND", "RDMA"}]
Wc == [proc : Procs, wq : {"sq", "rq"}, ok : BOOLEAN]

\* A slot of a queue is free again when its completion is polled.
Unpolled(h, wq) == Cardinality({i \in DOMAIN cq[h] : cq[h][i].wq = wq})
SqUsed(h) == Len(sq[h]) + Len(acked[h]) + Unpolled(h, "sq")
RqUsed(h) == Len(rq[h]) + Unpolled(h, "rq")

TypeOK ==
  /\ sq \in [Hosts -> Seq(Wr)]
  /\ rq \in [Hosts -> Seq(Procs)]
  /\ acked \in [Hosts -> Seq(Procs)]
  /\ \A h \in Hosts :
       /\ cq[h] \in Seq(Wc) /\ Len(cq[h]) <= CqSize
       /\ SqUsed(h) <= MaxWr /\ RqUsed(h) <= MaxWr
  /\ err \subseteq Hosts /\ overran \subseteq Hosts
  /\ sends \in [Procs -> 0 .. MaxPosts] /\ recvs \in [Procs -> 0 .. MaxPosts]
  /\ got \in [Procs -> 0 .. 2 * MaxPosts]
  /\ uncalled \subseteq Procs
  /\ landed \subseteq Procs \X Procs
  /\ stuck \in [Procs -> {"no", "post", "poll"}]

Init ==
  /\ sq = [h \in Hosts |-> <<>>]
  /\ rq = [h \in Hosts |-> <<>>]
  /\ acked = [h \in Hosts |-> <<>>]
  /\ cq = [h \in Hosts |-> <<>>]
  /\ err = {}
  /\ overran = {}
  /\ sends = [p \in Procs |-> 0]
  /\ recvs = [p \in Procs |-> 0]
  /\ got = [p \in Procs |-> 0]
  /\ uncalled = {}
  /\ landed = {}
  /\ stuck = [p \in Procs |-> "no"]

-----------------------------------------------------------------------------
(* What a client does, and the handler of its request.                      *)

Outstanding(p) == sends[p] + recvs[p] - got[p]
MayPost(p) == stuck[p] = "no" /\ Outstanding(p) < MaxOut

\* A receiver posts its buffer before it tells its partner: a SEND follows a
\* receive.  RDMA needs no partner.
HasCredit(p) == sends[p] < recvs[Partner[p]]

Posted(h, wr) == Append(sq[h], wr)

\* IBV_POST_SEND: ibv_post_send fails on a full queue, and that is a kill.
PostSend(p, op) ==
  LET h == Host[p] IN
  /\ MayPost(p) /\ sends[p] < MaxPosts
  /\ op = "SEND" /\ p \in Careful => HasCredit(p)
  /\ IF SqUsed(h) < MaxWr
     THEN /\ sq' = [sq EXCEPT ![h] = Posted(h, [proc |-> p, op |-> op])]
          /\ sends' = [sends EXCEPT ![p] = @ + 1]
          /\ uncalled' = IF op = "SEND" /\ ~HasCredit(p)
                         THEN uncalled \cup {p} ELSE uncalled
          /\ UNCHANGED stuck
     ELSE /\ stuck' = [stuck EXCEPT ![p] = "post"]
          /\ UNCHANGED <<sq, sends, uncalled>>
  /\ UNCHANGED <<rq, acked, cq, err, overran, recvs, got, landed>>

\* Mutant: the answer is given, the request is not.
RecvDropped(h, p) == rq[h]
RecvPosted(h, p) == Append(rq[h], p)

\* IBV_POST_RECV.
PostRecv(p) ==
  LET h == Host[p] IN
  /\ MayPost(p) /\ recvs[p] < MaxPosts
  /\ IF RqUsed(h) < MaxWr
     THEN /\ rq' = [rq EXCEPT ![h] = RecvPosted(h, p)]
          /\ recvs' = [recvs EXCEPT ![p] = @ + 1]
          /\ UNCHANGED stuck
     ELSE stuck' = [stuck EXCEPT ![p] = "post"] /\ UNCHANGED <<rq, recvs>>
  /\ UNCHANGED <<sq, acked, cq, err, overran, sends, got, uncalled, landed>>

\* The check of a completion: status, then wr_id against the process id.
NoOwnerCheck(p, wc) == wc.ok
Accepted(p, wc) == wc.ok /\ wc.proc = p

\* Mutant: the answer names a completion that stays in the queue.
Peeked(q) == q
Polled(q) == Tail(q)

\* IBV_POLL_CQ with num_entries = 1, the only value the library lets through.
\* The completion has left the queue whatever the checks say.  An empty queue
\* is answered with a count of 0 and changes nothing.
PollCq(p) ==
  LET h == Host[p] IN
  /\ stuck[p] = "no" /\ (p \in Careful => Outstanding(p) > 0)
  /\ cq[h] # <<>>
  /\ cq' = [cq EXCEPT ![h] = Polled(cq[h])]
  /\ IF Accepted(p, Head(cq[h]))
     THEN got' = [got EXCEPT ![p] = @ + 1] /\ UNCHANGED stuck
     ELSE stuck' = [stuck EXCEPT ![p] = "poll"] /\ UNCHANGED got
  /\ UNCHANGED <<sq, rq, acked, err, overran, counts, uncalled, landed>>

-----------------------------------------------------------------------------
(* The NICs, as resources_create and modify_qp_to_rts set them up.          *)

\* A completion of p's request goes to the queue of its host.  A queue that
\* overflows loses the entry, and that breaks its QP.
Overruns(h) == Len(cq[h]) = CqSize
Complete(p, wq, ok) ==
  LET h == Host[p] IN
  /\ cq' = IF Overruns(h) THEN cq
           ELSE [cq EXCEPT ![h] = Append(@, [proc |-> p, wq |-> wq, ok |-> ok])]
  /\ err' = IF Overruns(h) \/ ~ok THEN err \cup {h} ELSE err
  /\ overran' = IF Overruns(h) THEN overran \cup {h} ELSE overran

Reaches(h) ==
  /\ Other(h) \notin err
  /\ Head(sq[h]).op = "RDMA" \/ rq[Other(h)] # <<>>

\* The next request of a send queue arrives; a SEND takes the oldest buffer of
\* the receive queue, whosever it is.
Arrive(h) ==
  LET g == Other(h) wr == Head(sq[h]) IN
  /\ sq[h] # <<>> /\ h \notin err /\ Reaches(h)
  /\ sq' = [sq EXCEPT ![h] = Tail(@)]
  /\ acked' = [acked EXCEPT ![h] = Append(@, wr.proc)]
  /\ IF wr.op = "SEND"
     THEN /\ rq' = [rq EXCEPT ![g] = Tail(@)]
          /\ landed' = landed \cup {<<wr.proc, Head(rq[g])>>}
          /\ Complete(Head(rq[g]), "rq", TRUE)
     ELSE UNCHANGED <<rq, landed, cq, err, overran>>
  /\ UNCHANGED <<counts, got, uncalled, stuck>>

\* Its completion at the sender, in order.
Ack(h) ==
  /\ acked[h] # <<>>
  /\ acked' = [acked EXCEPT ![h] = Tail(@)]
  /\ Complete(Head(acked[h]), "sq", TRUE)
  /\ UNCHANGED <<sq, rq, counts, got, uncalled, landed, stuck>>

\* rnr_retry = 0: a SEND that finds no receive buffer is not repeated; nor,
\* after retry_cnt attempts, is one to a QP in the error state.
\* Mutant: rnr_retry = 7, which repeats it for ever.
Persists(h) == Other(h) \in err
GivesUp(h) == ~Reaches(h)

Fail(h) ==
  /\ sq[h] # <<>> /\ h \notin err /\ GivesUp(h) /\ acked[h] = <<>>
  /\ sq' = [sq EXCEPT ![h] = Tail(@)]
  /\ Complete(Head(sq[h]).proc, "sq", FALSE)
  /\ UNCHANGED <<rq, acked, counts, got, uncalled, landed, stuck>>

\* A QP in the error state completes all it has with an error.
Flush(h) ==
  /\ h \in err
  /\ \/ /\ sq[h] # <<>> /\ acked[h] = <<>>
        /\ sq' = [sq EXCEPT ![h] = Tail(@)] /\ UNCHANGED rq
        /\ Complete(Head(sq[h]).proc, "sq", FALSE)
     \/ /\ rq[h] # <<>>
        /\ rq' = [rq EXCEPT ![h] = Tail(@)] /\ UNCHANGED sq
        /\ Complete(Head(rq[h]), "rq", FALSE)
  /\ UNCHANGED <<acked, counts, got, uncalled, landed, stuck>>

-----------------------------------------------------------------------------

Nic(h) == Arrive(h) \/ Ack(h) \/ Fail(h) \/ Flush(h)

Next ==
  \/ \E p \in Procs :
       \/ \E op \in {"SEND", "RDMA"} : PostSend(p, op)
       \/ PostRecv(p) \/ PollCq(p)
  \/ \E h \in Hosts : Nic(h)

Spec == Init /\ [][Next]_vars

\* A process polls for as long as it waits for a completion: the loop of
\* verbs_api_test.c:395-411.  With nothing outstanding it may never poll again.
Waits(p) == stuck[p] = "no" /\ Outstanding(p) > 0

\* The NICs make progress, and a process that waits goes on polling.
FairSpec ==
  /\ Spec
  /\ \A h \in Hosts : WF_vars(Nic(h))
  /\ \A p \in Procs : WF_vars(Waits(p) /\ PollCq(p))

-----------------------------------------------------------------------------
(* Properties                                                               *)

ProcsOn(h) == {p \in Procs : Host[p] = h}

\* The requests of host h whose completion no process was handed, numbered
\* for each process.
Unanswered(h) == {r \in ProcsOn(h) \X (1 .. MaxOut) : r[2] <= Outstanding(r[1])}

\* Every request of a host whose completion queue has not overflowed is in a
\* queue, is a completion to be polled or was handed to a process, but for one
\* per process that is stuck in a poll (scalerouter.cpp:2104-2115: the queue gave
\* the completion up before the checks).
Conserved ==
  \A h \in Hosts \ overran :
    Cardinality(Unanswered(h)) =
      Len(sq[h]) + Len(rq[h]) + Len(acked[h]) + Len(cq[h])
        + Cardinality({p \in ProcsOn(h) : stuck[p] = "poll"})

\* A process is handed completions of its own requests only: never more of
\* them than it has posted (the wr_id check, scalerouter.cpp:2111).
HandedOwn == \A p \in Procs : Outstanding(p) >= 0

\* As long as every process sends only what its partner has a buffer for, and
\* no completion queue overflows (it is no larger than either of the two queues
\* that fill it, types.h:22-24), the shared connection never breaks, whosever
\* buffers the messages go to.
PathHolds == uncalled = {} /\ overran = {} => err = {}

\* A process that posts and polls as verbs_api_test.c:395-411 does, which takes
\* the completion of its own request for the only outcome, gets its answers.
Served == \A p \in Careful : stuck[p] = "no"

\* A message goes to a buffer of the process it was meant for: the server of
\* verbs_api_test.c:418 prints what it received as its client's message.
RightBuffer == \A m \in landed : m[2] = Partner[m[1]]

\* A send queue that is full, so that the next post would be a kill, has room
\* again: its requests reach the other host or fail, and are polled.  That takes
\* a process of the host that waits; and a completion queue that overflows
\* leaves one waiting for what is lost.
QueueDrains ==
  \A h \in Hosts :
    SqUsed(h) = MaxWr
      ~> \/ SqUsed(h) < MaxWr
         \/ h \in overran
         \/ \A p \in ProcsOn(h) : ~Waits(p)
=============================================================================
