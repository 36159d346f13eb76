-------------------------- MODULE MCPieceTransfer --------------------------
(* Instances of PieceTransfer for the model checker.                       *)
EXTENDS PieceTransfer, TLC

CONSTANTS t1, t2, t3

\* The torrent wanted has two pieces, and there are a shorter and a longer one.
MCSize == t1 :> 12 @@ t2 :> 9 @@ t3 :> 15
=============================================================================
