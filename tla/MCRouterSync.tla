---------------------------- MODULE MCRouterSync ----------------------------
(* RouterSync for TLC: two hosts, virtual QPs spread over them. *)
EXTENDS RouterSync, TLC

CONSTANTS r1, r2, a1, a2, b1

TwoHosts == {r1, r2}
TheOther == (r1 :> {r2}) @@ (r2 :> {r1})
ThreeQps == {a1, a2, b1}
HomeOfThree == (a1 :> r1) @@ (a2 :> r1) @@ (b1 :> r2)
TwoQps == {a1, b1}
HomeOfTwo == (a1 :> r1) @@ (b1 :> r2)
=============================================================================
