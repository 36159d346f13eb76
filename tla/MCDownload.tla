----------------------------- MODULE MCDownload -----------------------------
(* Instances of Download for the model checker.                            *)
EXTENDS Download, TLC

CONSTANTS s1, s2, c1, c2, c3

\* Workers are interchangeable; supervisors are not (Known tells them apart).
ConnSymmetry == Permutations(Conn)
=============================================================================
