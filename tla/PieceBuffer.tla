---------------------------- MODULE PieceBuffer ----------------------------
(***************************************************************************)
(* What a download promises, with no word of queues, workers or            *)
(* connections: the output buffer is filled piece by piece, no piece is    *)
(* ever written a second time, and the call returns only when every piece  *)
(* has been written.  Download.tla implements this specification.          *)
(***************************************************************************)
CONSTANTS
    Pieces,    \* the indices of the pieces
    Contents   \* what the bytes of a written piece may be

\* The bytes of a piece before it is written (make([]byte, Length) zeroes them).
Blank == "blank"

VARIABLES
    buf,       \* what the output buffer holds, piece by piece
    returned   \* the call has returned the buffer to its caller

vars == <<buf, returned>>

Init ==
    /\ buf = [p \in Pieces |-> Blank]
    /\ returned = FALSE

\* A piece that was never written receives its bytes.
Write(p, d) ==
    /\ ~returned
    /\ buf[p] = Blank
    /\ buf' = [buf EXCEPT ![p] = d]
    /\ UNCHANGED returned

\* The complete buffer is handed to the caller.
Return ==
    /\ ~returned
    /\ \A p \in Pieces : buf[p] # Blank
    /\ returned' = TRUE
    /\ UNCHANGED buf

Next == Return \/ \E p \in Pieces, d \in Contents : Write(p, d)

Spec == Init /\ [][Next]_vars
=============================================================================
