------------------------------- MODULE OneCall -------------------------------
(***************************************************************************)
(* What a client may believe about a verb that it asks the router for: the *)
(* call is carried out at most once, while it lasts, and the code it       *)
(* returns says whether it was.  No sockets, threads, messages or router.  *)
(***************************************************************************)
EXTENDS Integers

CONSTANTS Clients, None

VARIABLES
  state,  \* "idle", "asked" or "dead"
  done,   \* how often the call was carried out
  rc      \* what the last call returned

calls == <<state, done, rc>>

Init ==
  /\ state = [c \in Clients |-> "idle"]
  /\ done = [c \in Clients |-> 0]
  /\ rc = [c \in Clients |-> None]

Ask(c) ==
  /\ state[c] = "idle"
  /\ state' = [state EXCEPT ![c] = "asked"]
  /\ done' = [done EXCEPT ![c] = 0]
  /\ rc' = [rc EXCEPT ![c] = None]

\* There is nobody to ask.
Refuse(c) ==
  /\ state[c] = "idle"
  /\ done' = [done EXCEPT ![c] = 0]
  /\ rc' = [rc EXCEPT ![c] = -1]
  /\ UNCHANGED state

CarryOut(c) ==
  /\ state[c] = "asked" /\ done[c] = 0
  /\ done' = [done EXCEPT ![c] = 1]
  /\ UNCHANGED <<state, rc>>

Return(c) ==
  /\ state[c] = "asked"
  /\ state' = [state EXCEPT ![c] = "idle"]
  /\ rc' = [rc EXCEPT ![c] = IF done[c] = 1 THEN 0 ELSE -1]
  /\ UNCHANGED done

Die(c) ==
  /\ state[c] = "asked"
  /\ state' = [state EXCEPT ![c] = "dead"]
  /\ UNCHANGED <<done, rc>>

Next ==
  \E c \in Clients : Ask(c) \/ Refuse(c) \/ CarryOut(c) \/ Return(c) \/ Die(c)

Spec == Init /\ [][Next]_calls
=============================================================================
