---------------------------- MODULE MCPathStore ----------------------------
(* Instances of PathStore for the model checker.                           *)
EXTENDS PathStore

CONSTANTS p1, p2, p3, p4

\* Interfaces of the seeder's AS and of the leechers' ASes are told apart by
\* position; those in between are numbers.
Via(s, d) == <<0, s, d, 100>>

\* Leechers with few paths.
MCFew ==
    p1 :> <<Via(1, 5)>> @@ p2 :> <<Via(2, 6), Via(3, 7)>>
 @@ p3 :> <<Via(1, 2)>> @@ p4 :> <<Via(4, 8)>>
=============================================================================
