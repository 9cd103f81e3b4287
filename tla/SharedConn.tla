------------------------------ MODULE SharedConn ------------------------------
(***************************************************************************)
(* What the router promises about the connections it shares: for every     *)
(* remote host a set of virtual QPs that hold the connection and a state   *)
(* of the connection.  It comes up for the first holder, is brought to RTS *)
(* at most once in its life, serves all holders, and goes down with the    *)
(* last of them.  No locks, threads, addresses or counts.                  *)
(***************************************************************************)
CONSTANTS Handles, Keys

VARIABLES users, conn

Init ==
  /\ users = [k \in Keys |-> {}]
  /\ conn = [k \in Keys |-> "down"]

Acquire(h, k) ==
  /\ \A l \in Keys : h \notin users[l]
  /\ users' = [users EXCEPT ![k] = @ \cup {h}]
  /\ conn' = [conn EXCEPT ![k] = IF @ = "down" THEN "up" ELSE @]

Establish(k) ==
  /\ conn[k] = "up"
  /\ conn' = [conn EXCEPT ![k] = "ready"]
  /\ UNCHANGED users

Release(h, k) ==
  /\ h \in users[k]
  /\ users' = [users EXCEPT ![k] = @ \ {h}]
  /\ conn' = [conn EXCEPT ![k] = IF users[k] = {h} THEN "down" ELSE @]

Next ==
  \/ \E h \in Handles, k \in Keys : Acquire(h, k) \/ Release(h, k)
  \/ \E k \in Keys : Establish(k)

Spec == Init /\ [][Next]_<<users, conn>>
=============================================================================
