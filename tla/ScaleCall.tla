------------------------------ MODULE ScaleCall ------------------------------
(***************************************************************************)
(* How a verb reaches the router: request_router in the library (scale.c)  *)
(* and the dispatcher and handler threads of the router, over Unix stream  *)
(* sockets.  Each call is a connection of its own: the client connects,    *)
(* writes a header and a body and reads an answer of a size it knows; a    *)
(* detached thread of the router reads them, does the work, writes the     *)
(* answer and closes the connection whatever happens.                      *)
(*                                                                         *)
(* Clients may die in a call, and the router may die and be started again. *)
(***************************************************************************)
EXTENDS Integers, FiniteSets

CONSTANTS
  Clients,    \* threads of client processes, each with one call at a time
  Socks,      \* connections
  None,
  Backlog,    \* connections that wait to be accepted: listen(fd, 10)
  Pieces,     \* reads that it takes to get an answer
  Refuse,     \* may a handler find a reason to "goto kill"?
  MayDie,     \* may a client die in a call?
  MayCrash    \* may the router die for a reason of its own?

ASSUME ScaleCallAssumption ==
  /\ None \notin Clients \cup Socks /\ None \notin Int
  /\ {Backlog, Pieces} \subseteq Nat \ {0}
  /\ {Refuse, MayDie, MayCrash} \subseteq BOOLEAN

VARIABLES
  client,    \* where each client is in request_router
  sock,      \* the connection of its call
  rc,        \* what its last call returned: 0, -1 or None
  done,      \* how often the router has carried out that call
  thread,    \* where the router is with a connection; "none": closed
  toRouter,  \* what a client has written and the router not read
  toClient,  \* pieces of an answer that a client has not read
  reset,     \* connections whose router end went with data unread
  router,    \* "up" or "down"
  sigpipe    \* the router died of SIGPIPE

vars == <<client, sock, rc, done, thread, toRouter, toClient, reset, router,
          sigpipe>>
daemon == <<router, sigpipe>>

InCall == {"header", "body", "read"}

TypeOK ==
  /\ client \in [Clients -> {"idle", "dead"} \cup InCall]
  /\ sock \in [Clients -> Socks \cup {None}]
  /\ rc \in [Clients -> {0, -1, None}]
  /\ done \in [Clients -> 0 .. 1]
  /\ thread \in [Socks -> {"none", "backlog", "header", "body", "query",
                           "work", "waiting", "answer", "close"}]
  /\ toRouter \in [Socks -> SUBSET {"bare", "full", "body"}]
  /\ toClient \in [Socks -> 0 .. Pieces]
  /\ reset \subseteq Socks
  /\ router \in {"up", "down"}
  /\ sigpipe \in BOOLEAN

Init ==
  /\ client = [c \in Clients |-> "idle"]
  /\ sock = [c \in Clients |-> None]
  /\ rc = [c \in Clients |-> None]
  /\ done = [c \in Clients |-> 0]
  /\ thread = [s \in Socks |-> "none"]
  /\ toRouter = [s \in Socks |-> {}]
  /\ toClient = [s \in Socks |-> 0]
  /\ reset = {}
  /\ router = "up"
  /\ sigpipe = FALSE

ClientClosed(s) == \A c \in Clients : sock[c] # s
Closed(s) == thread[s] = "none"
InBacklog == {s \in Socks : thread[s] = "backlog"}

-----------------------------------------------------------------------------
(* request_router                                                           *)

\* get_unix_sock and connect_router; connect waits while the backlog is full.
Connect(c) ==
  /\ client[c] = "idle" /\ router = "up"
  /\ Cardinality(InBacklog) < Backlog
  /\ \E s \in Socks :
       /\ Closed(s) /\ ClientClosed(s)
       /\ sock' = [sock EXCEPT ![c] = s]
       /\ thread' = [thread EXCEPT ![s] = "backlog"]
       /\ toRouter' = [toRouter EXCEPT ![s] = {}]
       /\ toClient' = [toClient EXCEPT ![s] = 0]
       /\ reset' = reset \ {s}
  /\ client' = [client EXCEPT ![c] = "header"]
  /\ rc' = [rc EXCEPT ![c] = None]
  /\ done' = [done EXCEPT ![c] = 0]
  /\ UNCHANGED daemon

\* No router: "invalid socket.", -1.
ConnectFails(c) ==
  /\ client[c] = "idle" /\ router = "down"
  /\ rc' = [rc EXCEPT ![c] = -1]
  /\ done' = [done EXCEPT ![c] = 0]
  /\ UNCHANGED <<client, sock, thread, toRouter, toClient, reset, daemon>>

\* A write to a connection that the router has closed raises SIGPIPE, which
\* the library leaves at its default: the client is gone.
Write(c, what, next) ==
  LET s == sock[c] IN
  /\ IF Closed(s)
     THEN /\ client' = [client EXCEPT ![c] = "dead"]
          /\ sock' = [sock EXCEPT ![c] = None]
          /\ UNCHANGED toRouter
     ELSE /\ client' = [client EXCEPT ![c] = next]
          /\ toRouter' = [toRouter EXCEPT ![s] = @ \cup {what}]
          /\ UNCHANGED sock
  /\ UNCHANGED <<rc, done, thread, toClient, reset, daemon>>

\* The header of a verb without a body (IBV_GET_DEVICE_LIST, IBV_ALLOC_PD,
\* IBV_QUERY_GID, IBV_QUERY_PORT) or of one with a body.
WriteHeader(c) ==
  /\ client[c] = "header"
  /\ Write(c, "bare", "read") \/ Write(c, "full", "body")

WriteBody(c) == client[c] = "body" /\ Write(c, "body", "read")

Return(c, code) ==
  /\ client' = [client EXCEPT ![c] = "idle"]
  /\ sock' = [sock EXCEPT ![c] = None]
  /\ rc' = [rc EXCEPT ![c] = code]

\* read gives some bytes; the call returns when it has them all.
ReadSome(c) ==
  LET s == sock[c] IN
  /\ client[c] = "read" /\ toClient[s] > 0
  /\ toClient' = [toClient EXCEPT ![s] = @ - 1]
  /\ IF toClient[s] = 1 THEN Return(c, 0) ELSE UNCHANGED <<client, sock, rc>>
  /\ UNCHANGED <<done, thread, toRouter, reset, daemon>>

\* Mutant: read returning 0 is an error too.
FailsAtEnd(s) == s \in reset \/ Closed(s)
ReadFails(s) == s \in reset

\* read returns -1.  It returns 0 at the end of a connection that was closed
\* with nothing unread: the loop adds 0 to bytes and reads again, for ever,
\* which is no step at all.
ReadError(c) ==
  /\ client[c] = "read" /\ toClient[sock[c]] = 0 /\ ReadFails(sock[c])
  /\ Return(c, -1)
  /\ UNCHANGED <<done, thread, toRouter, toClient, reset, daemon>>

\* The client process is killed; its end of the connection is closed.
Die(c) ==
  /\ MayDie /\ client[c] \in InCall
  /\ client' = [client EXCEPT ![c] = "dead"]
  /\ sock' = [sock EXCEPT ![c] = None]
  /\ UNCHANGED <<rc, done, thread, toRouter, toClient, reset, daemon>>

-----------------------------------------------------------------------------
(* The router                                                               *)

Go(s, p) == thread' = [thread EXCEPT ![s] = p]

\* listen_local_process: a thread for each connection.
Accept(s) ==
  /\ thread[s] = "backlog"
  /\ Go(s, "header")
  /\ UNCHANGED <<client, sock, rc, done, toRouter, toClient, reset, daemon>>

\* Mutants: every case reads a body; an operation has no case in the switch,
\* whose default answers at once; a short read is tried again.
AlwaysBody(op) == "body"
NoCase(op) == IF op = "full" THEN "body" ELSE "answer"
AfterHeader(op) == IF op = "full" THEN "body" ELSE "query"
Retried(s) == FALSE
AtEnd(s) == toRouter[s] = {} /\ ClientClosed(s)

\* A read gets all of what one write wrote, or nothing from a client that is
\* gone; then the thread goes to kill.
Read(s, what, next) ==
  /\ \/ /\ what \in toRouter[s]
        /\ toRouter' = [toRouter EXCEPT ![s] = @ \ {what}]
        /\ Go(s, next)
     \/ /\ AtEnd(s)
        /\ Go(s, "close")
        /\ UNCHANGED toRouter
  /\ UNCHANGED <<client, sock, rc, done, toClient, reset, daemon>>

ReadHeader(s) ==
  /\ thread[s] = "header"
  /\ \E op \in {"bare", "full"} : Read(s, op, AfterHeader(op))

ReadBody(s) == thread[s] = "body" /\ Read(s, "body", "work")

\* The case of the switch, carried out as a whole.
CarryOut(s) ==
  /\ Go(s, "answer")
  /\ done' = [c \in Clients |-> IF sock[c] = s THEN done[c] + 1 ELSE done[c]]
  /\ UNCHANGED <<client, sock, rc, toRouter, toClient, reset, daemon>>

\* A verb without a body copies what the router knows: it has nothing to wait
\* for and no reason to fail.
Query(s) == thread[s] = "query" /\ CarryOut(s)

\* One with a body is carried out...
Work(s) == thread[s] = "work" /\ CarryOut(s)

\* ... or left by one of its "goto kill"...
WorkKilled(s) ==
  /\ Refuse /\ thread[s] = "work"
  /\ Go(s, "close")
  /\ UNCHANGED <<client, sock, rc, done, toRouter, toClient, reset, daemon>>

\* ... or waits: IBV_MODIFY_QP until the peer router has told of its QP, and
\* every case that shares a table or a QP for a mutex, which a handler that went
\* to kill may have kept.  Nothing bounds the wait; the end of the client does
\* not end it.
Wait(s) ==
  /\ thread[s] = "work"
  /\ Go(s, "waiting")
  /\ UNCHANGED <<client, sock, rc, done, toRouter, toClient, reset, daemon>>

\* What it waits for comes.
Resume(s) ==
  /\ thread[s] = "waiting"
  /\ Go(s, "work")
  /\ UNCHANGED <<client, sock, rc, done, toRouter, toClient, reset, daemon>>

\* The process ends and takes its connections with it.  Those that wait to be
\* accepted or hold unread data are reset, the others end.
RouterDies ==
  /\ router' = "down"
  /\ thread' = [s \in Socks |-> "none"]
  /\ reset' = reset \cup InBacklog
                \cup {s \in Socks : ~Closed(s) /\ toRouter[s] # {}}

\* Mutant: more is written than the library reads.
LongAnswer == Pieces + 1
AnswerSize == Pieces

\* The answer is written; to a client that is gone, that raises SIGPIPE, which
\* nothing in the router handles or ignores.
Answer(s) ==
  /\ thread[s] = "answer"
  /\ IF ClientClosed(s)
     THEN RouterDies /\ sigpipe' = TRUE /\ UNCHANGED toClient
     ELSE /\ toClient' = [toClient EXCEPT ![s] = AnswerSize]
          /\ Go(s, "close")
          /\ UNCHANGED <<reset, daemon>>
  /\ UNCHANGED <<client, sock, rc, done, toRouter>>

\* kill: close(client_sock) and the thread ends.
Close(s) ==
  /\ thread[s] = "close"
  /\ Go(s, "none")
  /\ reset' = IF toRouter[s] # {} THEN reset \cup {s} ELSE reset
  /\ UNCHANGED <<client, sock, rc, done, toRouter, toClient, daemon>>

Crash ==
  /\ MayCrash /\ router = "up"
  /\ RouterDies
  /\ UNCHANGED <<client, sock, rc, done, toRouter, toClient, sigpipe>>

\* main: a new daemon unlinks the name of the old socket and binds its own.
Restart ==
  /\ router = "down"
  /\ router' = "up"
  /\ UNCHANGED <<client, sock, rc, done, thread, toRouter, toClient, reset,
                 sigpipe>>

-----------------------------------------------------------------------------

Proceed(c) ==
  WriteHeader(c) \/ WriteBody(c) \/ ReadSome(c) \/ ReadError(c)

Serve(s) ==
  \/ Accept(s) \/ ReadHeader(s) \/ ReadBody(s)
  \/ Query(s) \/ Work(s) \/ WorkKilled(s) \/ Wait(s)
  \/ Answer(s) \/ Close(s)

Next ==
  \/ \E c \in Clients : Connect(c) \/ ConnectFails(c) \/ Proceed(c) \/ Die(c)
  \/ \E s \in Socks : Serve(s) \/ Resume(s)
  \/ Crash \/ Restart

Spec == Init /\ [][Next]_vars

\* Threads of living processes run.  That a wait of a handler ends is not
\* assumed.
FairSpec ==
  /\ Spec
  /\ \A c \in Clients : WF_vars(Proceed(c))
  /\ \A s \in Socks : WF_vars(Serve(s))

-----------------------------------------------------------------------------
(* Properties                                                               *)

\* The router has closed the connection in good order and all it wrote is read.
Eof(c) ==
  client[c] = "read" /\ Closed(sock[c]) /\ toClient[sock[c]] = 0
    /\ sock[c] \notin reset

\* request_router returns when the router has closed the connection: that is an
\* error which the loop around read is there to notice ("router disconnected when
\* reading rsp.", scale.c:254).
CallReturns == \A c \in Clients : Eof(c) ~> client[c] \notin InCall

\* There are two ways for a call to hang: that, and a handler that waits.
\* Otherwise it returns, or the client dies, whatever happens to the router and
\* to other clients.
OnlyEofHangs ==
  \A c \in Clients :
    client[c] \in InCall
      ~> \/ client[c] \notin InCall
         \/ Eof(c)
         \/ thread[sock[c]] = "waiting"

\* A call that returned 0 was carried out, once.
AnswerMeansDone == \A c \in Clients : rc[c] = 0 => done[c] = 1

\* A call that returned -1 was not: the caller may repeat it, which for
\* IBV_MODIFY_QP or IBV_REG_MR would not be harmless otherwise.
ErrorMeansNotDone == \A c \in Clients : rc[c] = -1 => done[c] = 0

\* No thread of the router outlives the call it serves, whenever the client or
\* the router dies, but one that waits for the peer router or for a mutex
\* (scalerouter.cpp:1703-1720, 1749).
ThreadEnds ==
  \A s \in Socks : thread[s] # "none" ~> thread[s] \in {"none", "waiting"}

\* A client that dies costs the router the thread that served it and nothing
\* else: a failed write of an answer is logged ("Error in writing bytes",
\* scalerouter.cpp:2327) and the thread goes to kill.
RouterSurvives == ~sigpipe
=============================================================================
