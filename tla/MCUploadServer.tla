--------------------------- MODULE MCUploadServer ---------------------------
(* Instances of UploadServer for the model checker.                        *)
EXTENDS UploadServer

CONSTANTS s1, s2, c1, c2, c3
=============================================================================
