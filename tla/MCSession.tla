----------------------------- MODULE MCSession -----------------------------
(* Session for TLC: a process of two threads, one of another number, and one
   that is given the number of the first, as its server. *)
EXTENDS Session, TLC

CONSTANTS a1, a2, b, c, p1, p2, p3

ThreeProcs == {p1, p2, p3}
FourThreads == {a1, a2, b, c}
ProcOfFour == (a1 :> p1) @@ (a2 :> p1) @@ (b :> p2) @@ (c :> p3)
PidReused == (p1 :> 1) @@ (p2 :> 2) @@ (p3 :> 1)

TwoProcs == {p1, p2}
TwoThreads == {a1, b}
ProcOfTwo == (a1 :> p1) @@ (b :> p2)
\* Two numbers that agree in the low half.
PidsAlike == (p1 :> 1) @@ (p2 :> 5)
=============================================================================
