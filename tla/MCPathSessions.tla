--------------------------- MODULE MCPathSessions ---------------------------
(* Instances of PathSessions for the model checker.                        *)
EXTENDS PathSessions

CONSTANTS p1, p2, p3

\* Interfaces of the seeder's AS and of the leechers' ASes are told apart by
\* position; those in between are numbers.
Via(s, d) == <<0, s, d, 100>>

\* Three leechers whose paths share interfaces inside the network.
MCAvailable ==
    p1 :> <<Via(1, 5), Via(2, 6)>>
 @@ p2 :> <<Via(1, 8), Via(2, 9), Via(3, 8)>>
 @@ p3 :> <<Via(1, 7)>>
=============================================================================
