---------------------------- MODULE ScaleCallProofs ----------------------------
(***************************************************************************)
(* What a call's return value means, for any number of clients and         *)
(* connections, whatever clients and router die of.                        *)
(***************************************************************************)
EXTENDS ScaleCall, TLAPS

\* A client is in a call exactly while it has a connection, which is its own.
SockInv ==
  /\ \A c \in Clients : client[c] \in InCall => sock[c] \in Socks /\ rc[c] = None
  /\ \A c \in Clients : client[c] \notin InCall => sock[c] = None
  /\ \A c, d \in Clients : sock[c] # None /\ sock[c] = sock[d] => c = d

\* What a client has written so far and the router has not read.
WroteAll(c, s) ==
  \/ client[c] = "header" /\ toRouter[s] = {}
  \/ client[c] = "body" /\ toRouter[s] = {"full"}
  \/ client[c] = "read" /\ toRouter[s] \in {{"bare"}, {"full", "body"}}

WroteBody(c, s) ==
  \/ client[c] = "body" /\ toRouter[s] = {}
  \/ client[c] = "read" /\ toRouter[s] = {"body"}

WroteNothing(c, s) == client[c] = "read" /\ toRouter[s] = {}

\* The handler has read all and answered nothing.
Working == {"query", "work", "waiting"}

\* How far the router is with a connection, what is on its way in either
\* direction and whether the call was carried out go together.
Stage(c, s) ==
  /\ thread[s] \in {"backlog", "header"} => WroteAll(c, s)
  /\ thread[s] = "body" => WroteBody(c, s)
  /\ thread[s] \in Working \cup {"answer", "close"} => WroteNothing(c, s)
  /\ thread[s] \in {"backlog", "header", "body"} \cup Working => done[c] = 0
  /\ thread[s] = "answer" => done[c] = 1
  /\ thread[s] \notin {"close", "none"} => toClient[s] = 0 /\ s \notin reset
  /\ toClient[s] > 0 => done[c] = 1
  /\ s \in reset => done[c] = 0

StageInv == \A c \in Clients : client[c] \in InCall => Stage(c, sock[c])

IInv == TypeOK /\ SockInv /\ StageInv /\ AnswerMeansDone /\ ErrorMeansNotDone

-----------------------------------------------------------------------------
(* The initial state, and one lemma per action.                             *)

\* With no call under way the invariant holds.
LEMMA InitInv == Init => IInv
  <1> SUFFICES ASSUME Init PROVE IInv
    OBVIOUS
  <1>1. Pieces \in Nat \ {0}
    BY ScaleCallAssumption
  <1>2. TypeOK
    <2>1. toClient \in [Socks -> 0 .. Pieces]
      BY <1>1 DEF Init
    <2>2. toRouter \in [Socks -> SUBSET {"bare", "full", "body"}]
      BY DEF Init
    <2>3. done \in [Clients -> 0 .. 1]
      BY DEF Init
    <2> QED
      BY <2>1, <2>2, <2>3 DEF Init, TypeOK
  <1>3. SockInv /\ StageInv /\ AnswerMeansDone /\ ErrorMeansNotDone
    BY ScaleCallAssumption
       DEF Init, SockInv, StageInv, AnswerMeansDone, ErrorMeansNotDone, InCall
  <1> QED
    BY <1>2, <1>3 DEF IInv

\* A call begins on a connection nobody has, with nothing on its way.
LEMMA ConnectInv ==
  ASSUME IInv, NEW c \in Clients, Connect(c)
  PROVE  IInv'
  <1> USE ScaleCallAssumption DEF IInv, InCall, ClientClosed, Closed, daemon
  <1> PICK s \in Socks :
         /\ Closed(s) /\ ClientClosed(s)
         /\ sock' = [sock EXCEPT ![c] = s]
         /\ thread' = [thread EXCEPT ![s] = "backlog"]
         /\ toRouter' = [toRouter EXCEPT ![s] = {}]
         /\ toClient' = [toClient EXCEPT ![s] = 0]
         /\ reset' = reset \ {s}
    BY DEF Connect
  <1>1. /\ client[c] = "idle"
        /\ client' = [client EXCEPT ![c] = "header"]
        /\ rc' = [rc EXCEPT ![c] = None]
        /\ done' = [done EXCEPT ![c] = 0]
        /\ UNCHANGED daemon
    BY DEF Connect
  <1>10. TypeOK'
    BY <1>1 DEF TypeOK
  <1>11. SockInv'
    BY <1>1 DEF TypeOK, SockInv
  <1>12. StageInv'
    BY <1>1 DEF TypeOK, SockInv, StageInv, Stage, Working, WroteAll, WroteBody, WroteNothing
  <1>13. AnswerMeansDone' /\ ErrorMeansNotDone'
    BY <1>1 DEF TypeOK, SockInv, StageInv, Stage, AnswerMeansDone, ErrorMeansNotDone
  <1> QED
    BY <1>10, <1>11, <1>12, <1>13

\* A call that cannot begin is not carried out.
LEMMA ConnectFailsInv ==
  ASSUME IInv, NEW c \in Clients, ConnectFails(c)
  PROVE  IInv'
  <1> USE ScaleCallAssumption DEF IInv, InCall, ConnectFails, daemon
  <1>10. TypeOK'
    BY DEF TypeOK
  <1>11. SockInv'
    BY DEF TypeOK, SockInv
  <1>12. StageInv'
    BY DEF TypeOK, SockInv, StageInv, Stage, Working, WroteAll, WroteBody, WroteNothing
  <1>13. AnswerMeansDone' /\ ErrorMeansNotDone'
    BY DEF TypeOK, SockInv, StageInv, Stage, AnswerMeansDone, ErrorMeansNotDone
  <1> QED
    BY <1>10, <1>11, <1>12, <1>13

\* The header is on its way, or the client dies.
LEMMA WriteHeaderInv ==
  ASSUME IInv, NEW c \in Clients, WriteHeader(c)
  PROVE  IInv'
  <1> USE ScaleCallAssumption DEF IInv, InCall, WriteHeader, Write, Closed, daemon
  <1>10. TypeOK'
    BY DEF TypeOK
  <1>11. SockInv'
    BY DEF TypeOK, SockInv
  <1>12. StageInv'
    BY DEF TypeOK, SockInv, StageInv, Stage, Working, WroteAll, WroteBody, WroteNothing
  <1>13. AnswerMeansDone' /\ ErrorMeansNotDone'
    BY DEF TypeOK, SockInv, StageInv, Stage, AnswerMeansDone, ErrorMeansNotDone
  <1> QED
    BY <1>10, <1>11, <1>12, <1>13

\* The body is on its way, or the client dies.
LEMMA WriteBodyInv ==
  ASSUME IInv, NEW c \in Clients, WriteBody(c)
  PROVE  IInv'
  <1> USE ScaleCallAssumption DEF IInv, InCall, WriteBody, Write, Closed, daemon
  <1>10. TypeOK'
    BY DEF TypeOK
  <1>11. SockInv'
    BY DEF TypeOK, SockInv
  <1>12. StageInv'
    BY DEF TypeOK, SockInv, StageInv, Stage, Working, WroteAll, WroteBody, WroteNothing
  <1>13. AnswerMeansDone' /\ ErrorMeansNotDone'
    BY DEF TypeOK, SockInv, StageInv, Stage, AnswerMeansDone, ErrorMeansNotDone
  <1> QED
    BY <1>10, <1>11, <1>12, <1>13

\* An answer comes from a call that was carried out.
LEMMA ReadSomeInv ==
  ASSUME IInv, NEW c \in Clients, ReadSome(c)
  PROVE  IInv'
  <1> USE ScaleCallAssumption DEF IInv, InCall, ReadSome, Return, daemon
  <1>1. Pieces \in Nat \ {0}
    OBVIOUS
  <1>10. TypeOK'
    <2>1. toClient' \in [Socks -> 0 .. Pieces]
      BY <1>1 DEF TypeOK, ReadSome, SockInv
    <2>2. CASE toClient[sock[c]] = 1
      BY <2>1, <2>2 DEF TypeOK
    <2>3. CASE toClient[sock[c]] # 1
      BY <2>1, <2>3 DEF TypeOK
    <2> QED
      BY <2>2, <2>3
  <1>11. SockInv'
    BY <1>1 DEF TypeOK, SockInv
  <1>12. StageInv'
    BY <1>1 DEF TypeOK, SockInv, StageInv, Stage, Working, WroteAll, WroteBody, WroteNothing
  <1>13. AnswerMeansDone' /\ ErrorMeansNotDone'
    BY <1>1 DEF TypeOK, SockInv, StageInv, Stage, AnswerMeansDone, ErrorMeansNotDone
  <1> QED
    BY <1>10, <1>11, <1>12, <1>13

\* A connection that was reset had its call not carried out.
LEMMA ReadErrorInv ==
  ASSUME IInv, NEW c \in Clients, ReadError(c)
  PROVE  IInv'
  <1> USE ScaleCallAssumption DEF IInv, InCall, ReadError, ReadFails, Return, daemon
  <1>10. TypeOK'
    BY DEF TypeOK
  <1>11. SockInv'
    BY DEF TypeOK, SockInv
  <1>12. StageInv'
    BY DEF TypeOK, SockInv, StageInv, Stage, Working, WroteAll, WroteBody, WroteNothing
  <1>13. AnswerMeansDone' /\ ErrorMeansNotDone'
    BY DEF TypeOK, SockInv, StageInv, Stage, AnswerMeansDone, ErrorMeansNotDone
  <1> QED
    BY <1>10, <1>11, <1>12, <1>13

\* Its connection is nobody's from here on.
LEMMA DieInv ==
  ASSUME IInv, NEW c \in Clients, Die(c)
  PROVE  IInv'
  <1> USE ScaleCallAssumption DEF IInv, InCall, Die, daemon
  <1>10. TypeOK'
    BY DEF TypeOK
  <1>11. SockInv'
    BY DEF TypeOK, SockInv
  <1>12. StageInv'
    BY DEF TypeOK, SockInv, StageInv, Stage, Working, WroteAll, WroteBody, WroteNothing
  <1>13. AnswerMeansDone' /\ ErrorMeansNotDone'
    BY DEF TypeOK, SockInv, StageInv, Stage, AnswerMeansDone, ErrorMeansNotDone
  <1> QED
    BY <1>10, <1>11, <1>12, <1>13

\* The router takes the connection up.
LEMMA AcceptInv ==
  ASSUME IInv, NEW s \in Socks, Accept(s)
  PROVE  IInv'
  <1> USE ScaleCallAssumption DEF IInv, InCall, Accept, Go, daemon
  <1>10. TypeOK'
    BY DEF TypeOK
  <1>11. SockInv'
    BY DEF TypeOK, SockInv
  <1>12. StageInv'
    BY DEF TypeOK, SockInv, StageInv, Stage, Working, WroteAll, WroteBody, WroteNothing
  <1>13. AnswerMeansDone' /\ ErrorMeansNotDone'
    BY DEF TypeOK, SockInv, StageInv, Stage, AnswerMeansDone, ErrorMeansNotDone
  <1> QED
    BY <1>10, <1>11, <1>12, <1>13

\* It reads the header, or the end of a connection that is nobody's.
LEMMA ReadHeaderInv ==
  ASSUME IInv, NEW s \in Socks, ReadHeader(s)
  PROVE  IInv'
  <1> USE ScaleCallAssumption DEF IInv, InCall, ReadHeader, Read, AfterHeader, AtEnd, ClientClosed, Go, daemon
  <1>10. TypeOK'
    BY DEF TypeOK
  <1>11. SockInv'
    BY DEF TypeOK, SockInv
  <1>12. StageInv'
    BY DEF TypeOK, SockInv, StageInv, Stage, Working, WroteAll, WroteBody, WroteNothing
  <1>13. AnswerMeansDone' /\ ErrorMeansNotDone'
    BY DEF TypeOK, SockInv, StageInv, Stage, AnswerMeansDone, ErrorMeansNotDone
  <1> QED
    BY <1>10, <1>11, <1>12, <1>13

\* It reads the body, likewise.
LEMMA ReadBodyInv ==
  ASSUME IInv, NEW s \in Socks, ReadBody(s)
  PROVE  IInv'
  <1> USE ScaleCallAssumption DEF IInv, InCall, ReadBody, Read, AtEnd, ClientClosed, Go, daemon
  <1>10. TypeOK'
    BY DEF TypeOK
  <1>11. SockInv'
    BY DEF TypeOK, SockInv
  <1>12. StageInv'
    BY DEF TypeOK, SockInv, StageInv, Stage, Working, WroteAll, WroteBody, WroteNothing
  <1>13. AnswerMeansDone' /\ ErrorMeansNotDone'
    BY DEF TypeOK, SockInv, StageInv, Stage, AnswerMeansDone, ErrorMeansNotDone
  <1> QED
    BY <1>10, <1>11, <1>12, <1>13

\* The call is carried out, for the first time.
LEMMA CarryOutInv ==
  ASSUME IInv, NEW s \in Socks, thread[s] \in Working, CarryOut(s)
  PROVE  IInv'
  <1> USE ScaleCallAssumption DEF IInv, InCall, CarryOut, Go, daemon
  <1>10. TypeOK'
    BY DEF TypeOK, SockInv, StageInv, Stage, Working, WroteAll, WroteBody, WroteNothing
  <1>11. SockInv'
    BY DEF TypeOK, SockInv
  <1>12. StageInv'
    BY DEF TypeOK, SockInv, StageInv, Stage, Working, WroteAll, WroteBody, WroteNothing
  <1>13. AnswerMeansDone' /\ ErrorMeansNotDone'
    BY DEF TypeOK, SockInv, StageInv, Stage, Working, AnswerMeansDone, ErrorMeansNotDone
  <1> QED
    BY <1>10, <1>11, <1>12, <1>13

\* It is not.
LEMMA WorkKilledInv ==
  ASSUME IInv, NEW s \in Socks, WorkKilled(s)
  PROVE  IInv'
  <1> USE ScaleCallAssumption DEF IInv, InCall, WorkKilled, Go, daemon
  <1>10. TypeOK'
    BY DEF TypeOK
  <1>11. SockInv'
    BY DEF TypeOK, SockInv
  <1>12. StageInv'
    BY DEF TypeOK, SockInv, StageInv, Stage, Working, WroteAll, WroteBody, WroteNothing
  <1>13. AnswerMeansDone' /\ ErrorMeansNotDone'
    BY DEF TypeOK, SockInv, StageInv, Stage, Working, AnswerMeansDone, ErrorMeansNotDone
  <1> QED
    BY <1>10, <1>11, <1>12, <1>13

\* It is not yet.
LEMMA WaitInv ==
  ASSUME IInv, NEW s \in Socks, Wait(s)
  PROVE  IInv'
  <1> USE ScaleCallAssumption DEF IInv, InCall, Wait, Go, daemon
  <1>10. TypeOK'
    BY DEF TypeOK
  <1>11. SockInv'
    BY DEF TypeOK, SockInv
  <1>12. StageInv'
    BY DEF TypeOK, SockInv, StageInv, Stage, Working, WroteAll, WroteBody, WroteNothing
  <1>13. AnswerMeansDone' /\ ErrorMeansNotDone'
    BY DEF TypeOK, SockInv, StageInv, Stage, Working, AnswerMeansDone, ErrorMeansNotDone
  <1> QED
    BY <1>10, <1>11, <1>12, <1>13

\* It may be now.
LEMMA ResumeInv ==
  ASSUME IInv, NEW s \in Socks, Resume(s)
  PROVE  IInv'
  <1> USE ScaleCallAssumption DEF IInv, InCall, Resume, Go, daemon
  <1>10. TypeOK'
    BY DEF TypeOK
  <1>11. SockInv'
    BY DEF TypeOK, SockInv
  <1>12. StageInv'
    BY DEF TypeOK, SockInv, StageInv, Stage, Working, WroteAll, WroteBody, WroteNothing
  <1>13. AnswerMeansDone' /\ ErrorMeansNotDone'
    BY DEF TypeOK, SockInv, StageInv, Stage, Working, AnswerMeansDone, ErrorMeansNotDone
  <1> QED
    BY <1>10, <1>11, <1>12, <1>13

\* The answer follows the work; the router may die of writing it.
LEMMA AnswerInv ==
  ASSUME IInv, NEW s \in Socks, Answer(s)
  PROVE  IInv'
  <1> USE ScaleCallAssumption DEF IInv, InCall, Answer, AnswerSize, ClientClosed, RouterDies, Closed, InBacklog, Go, daemon
  <1>1. Pieces \in Nat \ {0}
    OBVIOUS
  <1>10. TypeOK'
    <2>1. CASE ClientClosed(s)
      BY <2>1 DEF TypeOK
    <2>2. CASE ~ClientClosed(s)
      <3>1. toClient' \in [Socks -> 0 .. Pieces]
        BY <1>1, <2>2 DEF TypeOK
      <3> QED
        BY <2>2, <3>1 DEF TypeOK
    <2> QED
      BY <2>1, <2>2
  <1>11. SockInv'
    BY <1>1 DEF TypeOK, SockInv
  <1>12. StageInv'
    BY <1>1 DEF TypeOK, SockInv, StageInv, Stage, Working, WroteAll, WroteBody, WroteNothing
  <1>13. AnswerMeansDone' /\ ErrorMeansNotDone'
    BY <1>1 DEF TypeOK, SockInv, StageInv, Stage, AnswerMeansDone, ErrorMeansNotDone
  <1> QED
    BY <1>10, <1>11, <1>12, <1>13

\* A connection is reset only before its client has written all.
LEMMA CloseInv ==
  ASSUME IInv, NEW s \in Socks, Close(s)
  PROVE  IInv'
  <1> USE ScaleCallAssumption DEF IInv, InCall, Close, Go, daemon
  <1>10. TypeOK'
    BY DEF TypeOK
  <1>11. SockInv'
    BY DEF TypeOK, SockInv
  <1>12. StageInv'
    BY DEF TypeOK, SockInv, StageInv, Stage, Working, WroteAll, WroteBody, WroteNothing
  <1>13. AnswerMeansDone' /\ ErrorMeansNotDone'
    BY DEF TypeOK, SockInv, StageInv, Stage, AnswerMeansDone, ErrorMeansNotDone
  <1> QED
    BY <1>10, <1>11, <1>12, <1>13

\* A connection is reset only if the call was not carried out.
LEMMA CrashInv ==
  ASSUME IInv, Crash
  PROVE  IInv'
  <1> USE ScaleCallAssumption DEF IInv, InCall, Crash, RouterDies, Closed, InBacklog, daemon
  <1>10. TypeOK'
    BY DEF TypeOK
  <1>11. SockInv'
    BY DEF TypeOK, SockInv
  <1>12. StageInv'
    BY DEF TypeOK, SockInv, StageInv, Stage, Working, WroteAll, WroteBody, WroteNothing
  <1>13. AnswerMeansDone' /\ ErrorMeansNotDone'
    BY DEF TypeOK, SockInv, StageInv, Stage, AnswerMeansDone, ErrorMeansNotDone
  <1> QED
    BY <1>10, <1>11, <1>12, <1>13

\* Nothing but the router changes.
LEMMA RestartInv ==
  ASSUME IInv, Restart
  PROVE  IInv'
  <1> USE ScaleCallAssumption DEF IInv, InCall, Restart, daemon
  <1>10. TypeOK'
    BY DEF TypeOK
  <1>11. SockInv'
    BY DEF TypeOK, SockInv
  <1>12. StageInv'
    BY DEF TypeOK, SockInv, StageInv, Stage, Working, WroteAll, WroteBody, WroteNothing
  <1>13. AnswerMeansDone' /\ ErrorMeansNotDone'
    BY DEF TypeOK, SockInv, StageInv, Stage, AnswerMeansDone, ErrorMeansNotDone
  <1> QED
    BY <1>10, <1>11, <1>12, <1>13

-----------------------------------------------------------------------------
(* The theorems.                                                            *)

\* Every step preserves the invariant: one lemma per action.
LEMMA StepInv == IInv /\ [Next]_vars => IInv'
  <1> SUFFICES ASSUME IInv, [Next]_vars PROVE IInv'
    OBVIOUS
  <1>1. ASSUME NEW c \in Clients, Connect(c) \/ ConnectFails(c) \/ Proceed(c) \/ Die(c)
        PROVE  IInv'
    BY <1>1, ConnectInv, ConnectFailsInv, WriteHeaderInv, WriteBodyInv,
       ReadSomeInv, ReadErrorInv, DieInv DEF Proceed
  <1>2. ASSUME NEW s \in Socks, Serve(s) PROVE IInv'
    <2>1. CASE Query(s) \/ Work(s)
      BY <2>1, CarryOutInv DEF Query, Work, Working
    <2> QED
      BY <1>2, <2>1, AcceptInv, ReadHeaderInv, ReadBodyInv, WorkKilledInv, WaitInv,
         AnswerInv, CloseInv DEF Serve
  <1>3. ASSUME UNCHANGED vars PROVE IInv'
    BY <1>3 DEF vars, daemon, IInv, TypeOK, SockInv, StageInv, Stage, Working,
       WroteAll, WroteBody, WroteNothing, AnswerMeansDone, ErrorMeansNotDone
  <1> QED
    BY <1>1, <1>2, <1>3, ResumeInv, CrashInv, RestartInv DEF Next

\* Every reachable state satisfies the inductive invariant.
THEOREM Invariance == Spec => []IInv
  BY InitInv, StepInv, PTL DEF Spec

\* The variables keep their types; in particular no call is carried out twice.
THEOREM TypeCorrect == Spec => []TypeOK
  <1>1. IInv => TypeOK
    BY DEF IInv
  <1> QED
    BY <1>1, Invariance, PTL

\* A call that returned 0 was carried out once.
THEOREM AnswersTrue == Spec => []AnswerMeansDone
  <1>1. IInv => AnswerMeansDone
    BY DEF IInv
  <1> QED
    BY <1>1, Invariance, PTL

\* A call that returned -1 was not carried out.
THEOREM ErrorsTrue == Spec => []ErrorMeansNotDone
  <1>1. IInv => ErrorMeansNotDone
    BY DEF IInv
  <1> QED
    BY <1>1, Invariance, PTL

-----------------------------------------------------------------------------
(* Whoever dies, clients see the abstract calls of OneCall.                 *)

\* Where the client is in the abstract call.
State(c) == IF client[c] \in InCall THEN "asked" ELSE client[c]

Call == INSTANCE OneCall WITH state <- [c \in Clients |-> State(c)]

\* The calls as OneCall has them.
Calls == <<[c \in Clients |-> State(c)], done, rc>>

\* The types that the mapping depends on.
LEMMA CallTypes ==
  ASSUME IInv
  PROVE  /\ client \in [Clients -> {"idle", "dead"} \cup InCall]
         /\ sock \in [Clients -> Socks \cup {None}]
         /\ rc \in [Clients -> {0, -1, None}] /\ done \in [Clients -> 0 .. 1]
  BY DEF IInv, TypeOK

\* What a client does in its call, or when it begins one.
LEMMA ClientCalls ==
  ASSUME IInv, NEW c \in Clients,
         Connect(c) \/ ConnectFails(c) \/ Proceed(c) \/ Die(c)
  PROVE  [Call!Next]_Calls
  <1> USE DEF InCall, State
  <1>1. /\ client \in [Clients -> {"idle", "dead"} \cup InCall]
        /\ rc \in [Clients -> {0, -1, None}] /\ done \in [Clients -> 0 .. 1]
    BY CallTypes
  <1>2. CASE Connect(c)
    <2>1. Call!Ask(c)
      BY <1>1, <1>2 DEF Connect, Call!Ask
    <2> QED
      BY <2>1 DEF Call!Next
  <1>3. CASE ConnectFails(c)
    <2>1. Call!Refuse(c)
      BY <1>1, <1>3 DEF ConnectFails, Call!Refuse
    <2> QED
      BY <2>1 DEF Call!Next
  <1>4. ASSUME NEW p \in InCall, client[c] \in InCall, UNCHANGED <<rc, done>>,
               \/ client' = [client EXCEPT ![c] = p]
               \/ client' = [client EXCEPT ![c] = "dead"]
        PROVE  [Call!Next]_Calls
    <2>1. CASE client' = [client EXCEPT ![c] = p]
      BY <1>1, <1>4, <2>1 DEF Calls
    <2>2. CASE client' = [client EXCEPT ![c] = "dead"]
      <3>1. Call!Die(c)
        BY <1>1, <1>4, <2>2 DEF Call!Die
      <3> QED
        BY <3>1 DEF Call!Next
    <2> QED
      BY <1>4, <2>1, <2>2
  <1>5. CASE WriteHeader(c) \/ WriteBody(c) \/ Die(c)
    BY <1>4, <1>5 DEF WriteHeader, WriteBody, Write, Die
  <1>6. ASSUME NEW code, client[c] = "read", Return(c, code), UNCHANGED done,
               code = IF done[c] = 1 THEN 0 ELSE -1
        PROVE  [Call!Next]_Calls
    <2>1. Call!Return(c)
      BY <1>1, <1>6 DEF Return, Call!Return
    <2> QED
      BY <2>1 DEF Call!Next
  <1>7. CASE ReadSome(c)
    <2>1. client[c] = "read" /\ toClient[sock[c]] > 0 /\ UNCHANGED done
      BY <1>7 DEF ReadSome
    <2>2. done[c] = 1
      BY <2>1 DEF IInv, StageInv, Stage
    <2>3. CASE toClient[sock[c]] = 1
      BY <1>6, <1>7, <2>1, <2>2, <2>3 DEF ReadSome
    <2>4. CASE toClient[sock[c]] # 1
      BY <1>7, <2>4 DEF ReadSome, Calls
    <2> QED
      BY <2>3, <2>4
  <1>8. CASE ReadError(c)
    <2>1. client[c] = "read" /\ sock[c] \in reset /\ UNCHANGED done
      BY <1>8 DEF ReadError, ReadFails
    <2>2. done[c] = 0
      BY <2>1 DEF IInv, StageInv, Stage
    <2> QED
      BY <1>6, <1>8, <2>1, <2>2 DEF ReadError
  <1> QED
    BY <1>2, <1>3, <1>5, <1>7, <1>8 DEF Proceed

\* What the router does: to carry a call out is the one step that shows, and it
\* shows to the one client that is still there for it, if any.
LEMMA RouterCalls ==
  ASSUME IInv, NEW s \in Socks, Serve(s) \/ Resume(s)
  PROVE  [Call!Next]_Calls
  <1>1. CASE UNCHANGED <<client, rc, done>>
    BY <1>1 DEF Calls, State
  <1>2. CASE Query(s) \/ Work(s)
    <2>1. /\ UNCHANGED <<client, rc>> /\ thread[s] \in Working
          /\ done' = [c \in Clients |-> IF sock[c] = s THEN done[c] + 1 ELSE done[c]]
      BY <1>2 DEF Query, Work, CarryOut, Working
    <2>2. s # None /\ done \in [Clients -> 0 .. 1]
      BY ScaleCallAssumption, CallTypes
    <2>3. CASE \A c \in Clients : sock[c] # s
      <3>1. done' = done
        BY <2>1, <2>2, <2>3
      <3> QED
        BY <1>1, <2>1, <3>1
    <2>4. ASSUME NEW c \in Clients, sock[c] = s PROVE [Call!Next]_Calls
      <3>1. client[c] \in InCall /\ \A d \in Clients \ {c} : sock[d] # s
        BY <2>2, <2>4 DEF IInv, SockInv
      <3>2. done[c] = 0
        BY <2>1, <2>4, <3>1 DEF IInv, StageInv, Stage
      <3>3. \A d \in Clients :
              (IF sock[d] = s THEN done[d] + 1 ELSE done[d]) = IF d = c THEN 1 ELSE done[d]
        BY <2>4, <3>1, <3>2
      <3>4. done' = [done EXCEPT ![c] = 1]
        BY <2>1, <2>2, <3>3
      <3>5. Call!CarryOut(c)
        BY <2>1, <3>1, <3>2, <3>4 DEF Call!CarryOut, State
      <3> QED
        BY <3>5 DEF Call!Next
    <2> QED
      BY <2>3, <2>4
  <1> QED
    BY <1>1, <1>2
       DEF Serve, Accept, ReadHeader, ReadBody, Read, WorkKilled, Wait, Resume,
       Answer, Close

\* With no client in a call nobody is asked for anything.
LEMMA CallInit == Init => Call!Init
  BY DEF Init, Call!Init, State, InCall

\* Every step of clients and router is one of OneCall, or shows to no client.
LEMMA CallStep == IInv /\ [Next]_vars => [Call!Next]_Calls
  <1> SUFFICES ASSUME IInv, [Next]_vars PROVE [Call!Next]_Calls
    OBVIOUS
  <1>1. CASE UNCHANGED <<client, rc, done>>
    BY <1>1 DEF Calls, State
  <1> QED
    BY <1>1, ClientCalls, RouterCalls DEF Next, Crash, Restart, vars

\* The sockets, threads and deaths of the transport implement OneCall: each call
\* is carried out at most once, only between its beginning and its end, and what
\* it returns says whether it was, whatever happens to router, to the client or
\* to others that use the same connections before or after.
THEOREM CallsRefine == Spec => Call!Spec
  BY CallInit, CallStep, Invariance, PTL DEF Spec, Call!Spec, Call!calls, Calls
=============================================================================
