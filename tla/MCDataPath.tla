----------------------------- MODULE MCDataPath -----------------------------
(* DataPath for TLC: two pairs of processes on two hosts. *)
EXTENDS DataPath, TLC

CONSTANTS h1, h2, a1, a2, b1, b2

TwoHosts == {h1, h2}
TwoPairs == {a1, a2, b1, b2}
HostOfTwo == (a1 :> h1) @@ (a2 :> h1) @@ (b1 :> h2) @@ (b2 :> h2)
PartnerOfTwo == (a1 :> b1) @@ (b1 :> a1) @@ (a2 :> b2) @@ (b2 :> a2)
SecondPair == {a2, b2}
=============================================================================
